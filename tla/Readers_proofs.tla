--------------------------- MODULE Readers_proofs ---------------------------
(***************************************************************************)
(* Proofs about the parts that keep a copy of what lives elsewhere and     *)
(* read it again when they are told to: git's status, the health panel,    *)
(* the tree behind the file watcher, the saved session, the gutter and the *)
(* file tree.                                                              *)
(***************************************************************************)
EXTENDS GitStatus, HealthPanel, Watcher, Workbench, Blame, FileTree, SequenceTheorems, FiniteSetTheorems,
        TLAPS

-----------------------------------------------------------------------------
(* Sequences.                                                              *)

(* Taking out an element keeps the others, each once.                      *)
LEMMA RemovedElements ==
  ASSUME NEW A, NEW s \in Seq(A), NEW i \in DOMAIN s
  PROVE  /\ RemoveAt(s, i) \in Seq(A) /\ Len(RemoveAt(s, i)) = Len(s) - 1
         /\ DOMAIN RemoveAt(s, i) = 1 .. Len(s) - 1
         /\ \A j \in DOMAIN RemoveAt(s, i) :
              LET m == IF j < i THEN j ELSE j + 1
              IN  m \in DOMAIN s \ {i} /\ RemoveAt(s, i)[j] = s[m]
         /\ \A m \in DOMAIN s \ {i} : \E j \in DOMAIN RemoveAt(s, i) : RemoveAt(s, i)[j] = s[m]
<1> DEFINE before == SubSeq(s, 1, i - 1)
           after  == SubSeq(s, i + 1, Len(s))
<1>1. i \in 1 .. Len(s) /\ Len(s) \in Nat /\ DOMAIN s = 1 .. Len(s)
  OBVIOUS
<1>2. before \in Seq(A) /\ Len(before) = i - 1 /\ \A j \in 1 .. i - 1 : before[j] = s[j]
  BY <1>1
<1>3. after \in Seq(A) /\ Len(after) = Len(s) - i /\ \A j \in 1 .. Len(s) - i : after[j] = s[i + j]
  BY <1>1
<1>4. RemoveAt(s, i) = before \o after
  BY DEF RemoveAt
<1> HIDE DEF before, after
<1> DEFINE r == before \o after
<1>5. /\ r \in Seq(A) /\ Len(r) = Len(s) - 1 /\ DOMAIN r = 1 .. Len(s) - 1
      /\ \A j \in 1 .. Len(before) + Len(after) :
           r[j] = IF j <= Len(before) THEN before[j] ELSE after[j - Len(before)]
  <2>1. r \in Seq(A) /\ Len(r) = Len(before) + Len(after)
    BY <1>2, <1>3, ConcatProperties
  <2>2. \A j \in 1 .. Len(before) + Len(after) :
           r[j] = IF j <= Len(before) THEN before[j] ELSE after[j - Len(before)]
    BY <1>2, <1>3, ConcatProperties
  <2>3. Len(r) = Len(s) - 1
    BY <1>1, <1>2, <1>3, <2>1
  <2> QED  BY <2>1, <2>2, <2>3, LenProperties
<1> HIDE DEF r
<1>6. \A j \in DOMAIN r : r[j] = s[IF j < i THEN j ELSE j + 1]
  <2> TAKE j \in DOMAIN r
  <2>0. j \in 1 .. Len(s) - 1 /\ Len(before) + Len(after) = Len(s) - 1
    BY <1>1, <1>2, <1>3, <1>5
  <2>1. CASE j < i
    BY <1>1, <1>2, <1>5, <2>0, <2>1
  <2>2. CASE ~(j < i)
    <3>1. r[j] = after[j - (i - 1)] /\ j - (i - 1) \in 1 .. Len(s) - i
      BY <1>1, <1>2, <1>5, <2>0, <2>2, SMTT(30)
    <3>2. i + (j - (i - 1)) = j + 1
      BY <1>1, <2>0
    <3> QED  BY <1>3, <2>2, <3>1, <3>2
  <2> QED  BY <2>1, <2>2
<1>7. \A m \in DOMAIN s \ {i} : \E j \in DOMAIN r : r[j] = s[m]
  <2> TAKE m \in DOMAIN s \ {i}
  <2>1. CASE m < i
    BY <1>1, <1>5, <1>6, <2>1
  <2>2. CASE m > i
    <3>1. m - 1 \in DOMAIN r /\ ~(m - 1 < i) /\ m - 1 + 1 = m
      BY <1>1, <1>5, <2>2
    <3> QED  BY <1>6, <3>1
  <2> QED  BY <1>1, <2>1, <2>2
<1>8. \A j \in DOMAIN r :
        LET m == IF j < i THEN j ELSE j + 1
        IN  m \in DOMAIN s \ {i} /\ r[j] = s[m]
  BY <1>1, <1>5, <1>6
<1> QED  BY <1>4, <1>5, <1>7, <1>8 DEF r

LEMMA AppendedElements ==
  ASSUME NEW A, NEW s \in Seq(A), NEW e \in A
  PROVE  /\ Append(s, e) \in Seq(A)
         /\ DOMAIN Append(s, e) = DOMAIN s \cup {Len(s) + 1} /\ Len(s) + 1 \notin DOMAIN s
         /\ \A i \in DOMAIN s : Append(s, e)[i] = s[i]
         /\ Append(s, e)[Len(s) + 1] = e
         /\ Range(Append(s, e)) = Range(s) \cup {e}
<1>1. /\ Len(s) \in Nat /\ DOMAIN s = 1 .. Len(s)
      /\ Append(s, e) \in Seq(A) /\ Len(Append(s, e)) = Len(s) + 1
      /\ DOMAIN Append(s, e) = 1 .. Len(s) + 1
      /\ \A i \in 1 .. Len(s) : Append(s, e)[i] = s[i]
      /\ Append(s, e)[Len(s) + 1] = e
  OBVIOUS
<1>2. 1 .. Len(s) + 1 = (1 .. Len(s)) \cup {Len(s) + 1} /\ Len(s) + 1 \notin 1 .. Len(s)
  BY <1>1
<1>3. Range(Append(s, e)) = Range(s) \cup {e}
  BY <1>1, <1>2 DEF Range
<1> QED  BY <1>1, <1>2, <1>3

(* The elements of a finite set, listed in some order.                     *)
LEMMA ListedSet ==
  ASSUME NEW S, IsFiniteSet(S)
  PROVE  /\ SetToSeq(S) \in Seq(S)
         /\ \A x \in S : \E i \in DOMAIN SetToSeq(S) : SetToSeq(S)[i] = x
<1> DEFINE n == Cardinality(S)
<1>1. n \in Nat /\ ExistsBijection(1 .. n, S)
  BY FS_CardinalityType
<1> HIDE DEF n
<1>2. PICK f \in Bijection(1 .. n, S) : TRUE
  BY <1>1 DEF ExistsBijection
<1>3. f \in [1 .. n -> S] /\ IsInjective(f)
  BY <1>2 DEF Bijection, Injection, IsInjective
<1>4. SetToSeq(S) \in [1 .. n -> S] /\ IsInjective(SetToSeq(S))
  BY <1>3 DEF SetToSeq, n
<1>5. SetToSeq(S) \in Injection(1 .. n, S)
  BY <1>4 DEF Injection, IsInjective
<1>6. SetToSeq(S) \in Surjection(1 .. n, S)
  <2>1. IsFiniteSet(1 .. n) /\ Cardinality(1 .. n) = n
    <3>1. /\ IsFiniteSet(1 .. n)
          /\ Cardinality(1 .. n) = IF 1 > n THEN 0 ELSE n - 1 + 1
      BY <1>1, FS_Interval
    <3> QED  BY <1>1, <3>1
  <2> QED  BY <1>5, <2>1, FS_Injection DEF n
<1>7. \A x \in S : \E i \in 1 .. n : SetToSeq(S)[i] = x
  BY <1>6 DEF Surjection
<1>8. SetToSeq(S) \in Seq(S)
  BY <1>1, <1>4
<1> QED  BY <1>4, <1>7, <1>8

-----------------------------------------------------------------------------
(* GitStatus, for any projects, changes, switches and operations.          *)

(* Types, in every reachable state.                                        *)
THEOREM GitTypeCorrect == GitSpec => []GitTypeOK
<1>1. GitInit => GitTypeOK
  BY DEF GitInit, GitTypeOK, Idle
<1>2. GitTypeOK /\ [GitNext]_gitVars => GitTypeOK'
  <2> SUFFICES ASSUME GitTypeOK, [GitNext]_gitVars PROVE GitTypeOK'
    OBVIOUS
  <2> USE DEF GitTypeOK, opVars, readVars, socketVars, repoVars
  <2>1. CASE AnswerStatus
    BY <2>1 DEF AnswerStatus
  <2>2. CASE AnswerStatusFails
    BY <2>2 DEF AnswerStatusFails
  <2>3. CASE DeliverStatus
    BY <2>3 DEF DeliverStatus, apply, Idle
  <2>4. CASE onGit
    BY <2>4 DEF onGit, read
  <2>5. CASE Register
    BY <2>5 DEF Register
  <2>6. CASE Evict
    BY <2>6 DEF Evict
  <2>7. CASE runOp
    BY <2>7 DEF runOp
  <2>8. CASE GitEnds
    BY <2>8 DEF GitEnds
  <2>9. CASE DeliverOp
    BY <2>9 DEF DeliverOp, read, Idle
  <2>10. CASE dismissError
    BY <2>10 DEF dismissError
  <2>11. ASSUME NEW p \in Projects, CloseProject(p) PROVE GitTypeOK'
    BY <2>11 DEF CloseProject
  <2>12. ASSUME NEW p \in Projects, Publish(p) PROVE GitTypeOK'
    BY <2>12 DEF Publish
  <2>13. ASSUME NEW p \in Projects, DeliverRefs(p) PROVE GitTypeOK'
    BY <2>13 DEF DeliverRefs
  <2>14. ASSUME NEW p \in Projects, Change(p) PROVE GitTypeOK'
    BY <2>14 DEF Change
  <2>15. ASSUME NEW p \in Projects \cup {None}, Switch(p) PROVE GitTypeOK'
    BY <2>15 DEF Switch, read
  <2>16. CASE UNCHANGED gitVars
    BY <2>16 DEF gitVars
  <2> QED BY <2>1, <2>2, <2>3, <2>4, <2>5, <2>6, <2>7, <2>8, <2>9, <2>10,
             <2>11, <2>12, <2>13, <2>14, <2>15, <2>16 DEF GitNext
<1> QED BY <1>1, <1>2, PTL DEF GitSpec

-----------------------------------------------------------------------------
(* PanelIsOwn, strengthened: an answer that has not been applied yet is    *)
(* also one the repository had.                                            *)

AnswerIsOwn ==
  reading.project \in Projects /\ reading.answer \notin {None, Failed}
    => reading.answer <= repo[reading.project]

OwnInv == PanelIsOwn /\ NothingKeptUnheld /\ AnswerIsOwn

LEMMA OwnInvariant == GitSpec => []OwnInv
<1>1. GitInit => OwnInv
  BY WindowAssumption DEF GitInit, OwnInv, PanelIsOwn, NothingKeptUnheld, AnswerIsOwn, Idle
<1>2. GitTypeOK /\ OwnInv /\ [GitNext]_gitVars => OwnInv'
  <2> SUFFICES ASSUME GitTypeOK, OwnInv, [GitNext]_gitVars PROVE OwnInv'
    OBVIOUS
  <2> USE WindowAssumption DEF GitTypeOK, OwnInv, PanelIsOwn, NothingKeptUnheld, AnswerIsOwn,
                               opVars, readVars, socketVars, repoVars, Idle
  <2>1. CASE AnswerStatus
    BY <2>1 DEF AnswerStatus
  <2>2. CASE AnswerStatusFails
    BY <2>2 DEF AnswerStatusFails
  <2>3. CASE DeliverStatus
    BY <2>3 DEF DeliverStatus, apply
  <2>4. CASE onGit
    BY <2>4 DEF onGit, read
  <2>5. CASE Register
    BY <2>5 DEF Register
  <2>6. CASE Evict
    BY <2>6 DEF Evict
  <2>7. CASE runOp
    BY <2>7 DEF runOp
  <2>8. CASE GitEnds
    BY <2>8 DEF GitEnds
  <2>9. CASE DeliverOp
    BY <2>9 DEF DeliverOp, read
  <2>10. CASE dismissError
    BY <2>10 DEF dismissError
  <2>11. ASSUME NEW p \in Projects, CloseProject(p) PROVE OwnInv'
    BY <2>11 DEF CloseProject
  <2>12. ASSUME NEW p \in Projects, Publish(p) PROVE OwnInv'
    BY <2>12 DEF Publish
  <2>13. ASSUME NEW p \in Projects, DeliverRefs(p) PROVE OwnInv'
    BY <2>13 DEF DeliverRefs
  <2>14. ASSUME NEW p \in Projects, Change(p) PROVE OwnInv'
    BY <2>14 DEF Change
  <2>15. ASSUME NEW p \in Projects \cup {None}, Switch(p) PROVE OwnInv'
    BY <2>15 DEF Switch, read
  <2>16. CASE UNCHANGED gitVars
    BY <2>16 DEF gitVars
  <2> QED BY <2>1, <2>2, <2>3, <2>4, <2>5, <2>6, <2>7, <2>8, <2>9, <2>10,
             <2>11, <2>12, <2>13, <2>14, <2>15, <2>16 DEF GitNext
<1> QED BY <1>1, <1>2, GitTypeCorrect, PTL DEF GitSpec

(* The panel never shows one project's failure, branches or status as      *)
(* another's, however late an answer comes (apply, run and listRefs).      *)
THEOREM PanelAlwaysOwn == GitSpec => []PanelIsOwn
BY OwnInvariant, PTL DEF OwnInv

(* A read in flight while its project is removed leaves nothing behind     *)
(* (apply's look at held).                                                 *)
THEOREM RemovedLeavesNothing == GitSpec => []NothingKeptUnheld
BY OwnInvariant, PTL DEF OwnInv

-----------------------------------------------------------------------------
(* QuietStatusIsCurrent, strengthened: whatever the project on screen has  *)
(* changed is on its way to be read, or is in a reading that will be shown.*)

ReadingShape == reading.project = None => reading.answer = None

Fresh ==
  IF reading = Idle THEN error = active \/ statuses[active] = repo[active]
  ELSE stale \/ (reading.project = active /\ reading.answer \in {None, Failed, repo[active]})

OnItsWay == active \in unpublished \/ event \/ missed \/ Fresh

GitQuiet ==
  /\ socket.project = active
  /\ ReadingShape
  /\ active \in held => OnItsWay

LEMMA GitQuietInvariant == GitSpec => []GitQuiet
<1>1. GitInit => GitQuiet
  BY DEF GitInit, GitQuiet, ReadingShape, Idle
<1>2. GitTypeOK /\ GitQuiet /\ [GitNext]_gitVars => GitQuiet'
  <2> SUFFICES ASSUME GitTypeOK, GitQuiet, [GitNext]_gitVars PROVE GitQuiet'
    OBVIOUS
  <2> USE WindowAssumption DEF GitTypeOK, GitQuiet, OnItsWay, Fresh, ReadingShape,
                               opVars, readVars, socketVars, repoVars, Idle
  <2>1. CASE AnswerStatus
    BY <2>1 DEF AnswerStatus
  <2>2. CASE AnswerStatusFails
    BY <2>2 DEF AnswerStatusFails
  <2>3. CASE DeliverStatus
    <3>1. socket' = socket /\ active' = active /\ held' = held /\ repo' = repo
      BY <2>3 DEF DeliverStatus
    <3>2. ReadingShape'
      BY <2>3 DEF DeliverStatus
    <3>3. ASSUME active \in held, active \notin unpublished, ~event, ~missed PROVE Fresh'
      <4>1. CASE stale
        BY <2>3, <3>1, <3>3, <4>1 DEF DeliverStatus
      <4>2. CASE ~stale
        <5>1. reading' = Idle /\ reading.project = active /\ reading.answer \in {Failed, repo[active]}
          BY <2>3, <3>3, <4>2 DEF DeliverStatus
        <5>2. error' = active \/ statuses'[active] = repo[active]
          BY <2>3, <3>3, <5>1 DEF DeliverStatus, apply
        <5> QED BY <3>1, <5>1, <5>2
      <4> QED BY <4>1, <4>2
    <3>4. OnItsWay' \/ active \notin held
      <4>1. unpublished' = unpublished /\ event' = event /\ (missed /\ ~stale => missed')
        BY <2>3 DEF DeliverStatus
      <4>2. CASE stale /\ active \in held
        BY <2>3, <3>1, <4>2 DEF DeliverStatus
      <4> QED BY <3>1, <3>3, <4>1, <4>2
    <3> QED BY <3>1, <3>2, <3>4
  <2>4. CASE onGit
    BY <2>4 DEF onGit, read
  <2>5. CASE Register
    BY <2>5 DEF Register
  <2>6. CASE Evict
    BY <2>6 DEF Evict
  <2>7. CASE runOp
    BY <2>7 DEF runOp
  <2>8. CASE GitEnds
    BY <2>8 DEF GitEnds
  <2>9. CASE DeliverOp
    BY <2>9 DEF DeliverOp, read
  <2>10. CASE dismissError
    BY <2>10 DEF dismissError
  <2>11. ASSUME NEW p \in Projects, CloseProject(p) PROVE GitQuiet'
    BY <2>11 DEF CloseProject
  <2>12. ASSUME NEW p \in Projects, Publish(p) PROVE GitQuiet'
    BY <2>12 DEF Publish
  <2>13. ASSUME NEW p \in Projects, DeliverRefs(p) PROVE GitQuiet'
    BY <2>13 DEF DeliverRefs
  <2>14. ASSUME NEW p \in Projects, Change(p) PROVE GitQuiet'
    BY <2>14 DEF Change
  <2>15. ASSUME NEW p \in Projects \cup {None}, Switch(p) PROVE GitQuiet'
    BY <2>15 DEF Switch, read
  <2>16. CASE UNCHANGED gitVars
    BY <2>16 DEF gitVars
  <2> QED BY <2>1, <2>2, <2>3, <2>4, <2>5, <2>6, <2>7, <2>8, <2>9, <2>10,
             <2>11, <2>12, <2>13, <2>14, <2>15, <2>16 DEF GitNext
<1> QED BY <1>1, <1>2, GitTypeCorrect, PTL DEF GitSpec

(* The queued re-read makes the last answer the answer for the latest      *)
(* state: once nothing is under way, the status on screen is current.      *)
THEOREM QuietStatus == GitSpec => []QuietStatusIsCurrent
<1>1. GitTypeOK /\ GitQuiet => QuietStatusIsCurrent
  BY DEF GitTypeOK, GitQuiet, OnItsWay, Fresh, QuietStatusIsCurrent
<1> QED BY <1>1, GitTypeCorrect, GitQuietInvariant, PTL

-----------------------------------------------------------------------------
(* HealthPanel, for any projects, manifests, looks and state changes.      *)

(* A place is not nowhere.                                                 *)
LEMMA PlaceIsSomewhere ==
  ASSUME NEW at \in Places \cup {Nowhere}
  PROVE  at \in Places <=> at.project # None
BY WindowAssumption DEF Places, Nowhere

(* Types, in every reachable state.                                        *)
THEOREM HealthTypeCorrect == HealthSpec => []HealthTypeOK
<1>1. HealthInit => HealthTypeOK
  <2> DEFINE unmoved == [f \in Manifests |-> 0]
  <2>1. unmoved \in [Manifests -> Nat]
    OBVIOUS
  <2> HIDE DEF unmoved
  <2>2. [p \in Projects |-> unmoved] \in [Projects -> [Manifests -> Nat]]
    BY <2>1
  <2>3. HealthInit => health \in [Projects -> [Manifests -> Nat]]
    BY <2>2 DEF HealthInit, unmoved
  <2>4. HealthInit => asked = Asleep /\ looks \in Nat
    BY DEF HealthInit
  <2> QED BY <2>3, <2>4, Zenon DEF HealthInit, HealthTypeOK
<1>2. HealthTypeOK /\ [HealthNext]_healthVars => HealthTypeOK'
  <2> SUFFICES ASSUME HealthTypeOK, [HealthNext]_healthVars PROVE HealthTypeOK'
    OBVIOUS
  <2> USE DEF HealthTypeOK, watchVars, eventVars
  <2>1. CASE AnswerHealth
    <3>1. asked \in [place : Places, answer : Nat \cup {None, Failed}]
      BY <2>1 DEF AnswerHealth, Asleep, Nowhere
    <3>2. health[asked.place.project][asked.place.rel] \in Nat
      BY <3>1 DEF Places
    <3> QED BY <2>1, <3>1, <3>2 DEF AnswerHealth
  <2>2. CASE DeliverHealth
    <3>1. asked.place \in Places /\ asked.answer \in Nat \cup {Failed}
      BY <2>2 DEF DeliverHealth, Asleep
    <3>2. snapshot' \in Snapshots \cup {None} /\ healthError' \in Places \cup {None}
      BY <2>2, <3>1 DEF DeliverHealth, show, Snapshots
    <3>3. asked' \in [place : Places, answer : Nat \cup {None, Failed}] \cup {Asleep}
      BY <2>2, PlaceIsSomewhere DEF DeliverHealth, Ask
    <3> QED BY <2>2, <3>2, <3>3 DEF DeliverHealth
  <2>3. CASE onHealth
    <3>1. asked' \in [place : Places, answer : Nat \cup {None, Failed}] \cup {Asleep}
      BY <2>3, PlaceIsSomewhere DEF onHealth, readHealth, Ask
    <3> QED BY <2>3, <3>1 DEF onHealth, readHealth
  <2>4. CASE RegisterHealth
    BY <2>4 DEF RegisterHealth
  <2>5. CASE EvictHealth
    BY <2>5 DEF EvictHealth
  <2>6. ASSUME NEW p \in Projects \cup {None}, NEW f \in Manifests \cup {None}, Look(p, f)
       PROVE  HealthTypeOK'
    <3>1. target' \in Places \cup {Nowhere}
      BY <2>6 DEF Look, Places
    <3>2. asked' \in [place : Places, answer : Nat \cup {None, Failed}] \cup {Asleep}
      BY <2>6, <3>1, PlaceIsSomewhere DEF Look, readHealth, Ask
    <3>3. again' \in BOOLEAN /\ unheard' \in BOOLEAN
      BY <2>6 DEF Look, readHealth
    <3>4. channel' \in BOOLEAN /\ notice' \in BOOLEAN
      BY <2>6 DEF Look
    <3>5. snapshot' = None /\ healthError' = None /\ looks' \in Nat
      BY <2>6 DEF Look
    <3>6. openRoot' \in Projects \cup {None} /\ UNCHANGED watchVars
      BY <2>6 DEF Look
    <3> QED BY <3>1, <3>2, <3>3, <3>4, <3>5, <3>6
  <2>7. ASSUME NEW p \in Projects, PublishHealth(p) PROVE HealthTypeOK'
    BY <2>7 DEF PublishHealth
  <2>8. ASSUME NEW at \in Places, Observe(at) PROVE HealthTypeOK'
    <3>1. at.project \in Projects /\ at.rel \in Manifests
      BY DEF Places
    <3>2. health' \in [Projects -> [Manifests -> Nat]]
      BY <2>8, <3>1 DEF Observe
    <3> QED BY <2>8, <3>1, <3>2 DEF Observe
  <2>9. CASE UNCHANGED healthVars
    BY <2>9 DEF healthVars
  <2> QED BY <2>1, <2>2, <2>3, <2>4, <2>5, <2>6, <2>7, <2>8, <2>9 DEF HealthNext
<1> QED BY <1>1, <1>2, PTL DEF HealthSpec

(* A late answer never puts one manifest's rows, or its failure, under     *)
(* another's name (ask's look at the target).                              *)
THEOREM HealthAlwaysOwn == HealthSpec => []HealthIsOwn
<1>1. HealthInit => HealthIsOwn
  BY HealthAssumption, WindowAssumption DEF HealthInit, HealthIsOwn
<1>2. HealthTypeOK /\ HealthIsOwn /\ [HealthNext]_healthVars => HealthIsOwn'
  <2> SUFFICES ASSUME HealthTypeOK, HealthIsOwn, [HealthNext]_healthVars PROVE HealthIsOwn'
    OBVIOUS
  <2> USE HealthAssumption, WindowAssumption
      DEF HealthIsOwn, HealthTypeOK, Nowhere, Asleep, Ask, Places, Snapshots, watchVars, eventVars
  <2>1. CASE AnswerHealth
    BY <2>1 DEF AnswerHealth
  <2>2. CASE DeliverHealth
    BY <2>2 DEF DeliverHealth, show, isCurrent
  <2>3. CASE onHealth
    BY <2>3 DEF onHealth, readHealth
  <2>4. CASE RegisterHealth
    BY <2>4 DEF RegisterHealth
  <2>5. CASE EvictHealth
    BY <2>5 DEF EvictHealth
  <2>6. ASSUME NEW p \in Projects \cup {None}, NEW f \in Manifests \cup {None}, Look(p, f)
       PROVE  HealthIsOwn'
    BY <2>6 DEF Look, readHealth
  <2>7. ASSUME NEW p \in Projects, PublishHealth(p) PROVE HealthIsOwn'
    BY <2>7 DEF PublishHealth
  <2>8. ASSUME NEW at \in Places, Observe(at) PROVE HealthIsOwn'
    BY <2>8 DEF Observe
  <2>9. CASE UNCHANGED healthVars
    BY <2>9 DEF healthVars
  <2> QED BY <2>1, <2>2, <2>3, <2>4, <2>5, <2>6, <2>7, <2>8, <2>9 DEF HealthNext
<1> QED BY <1>1, <1>2, HealthTypeCorrect, PTL DEF HealthSpec

-----------------------------------------------------------------------------
(* QuietHealthIsCurrent, strengthened: what the watch has seen of the      *)
(* manifest on screen is on its way to be read, or in a reading that will  *)
(* be shown.                                                               *)

UpToDate ==
  IF asked = Asleep
  THEN healthError # None \/ (snapshot # None /\ snapshot.rows = health[target.project][target.rel])
  ELSE again \/ (/\ asked.place = target
                 /\ asked.answer \in {None, Failed, health[target.project][target.rel]})

Awaited == target.project \in unsaid \/ notice \/ unheard \/ UpToDate

HealthQuiet == target # Nowhere => target.project = openRoot /\ Awaited

LEMMA HealthQuietInvariant == HealthSpec => []HealthQuiet
<1>1. HealthInit => HealthQuiet
  BY HealthAssumption, WindowAssumption DEF HealthInit, HealthQuiet, Awaited, UpToDate
<1>2. HealthTypeOK /\ HealthQuiet /\ [HealthNext]_healthVars => HealthQuiet'
  <2> SUFFICES ASSUME HealthTypeOK, HealthQuiet, [HealthNext]_healthVars PROVE HealthQuiet'
    OBVIOUS
  <2> USE HealthAssumption, WindowAssumption
      DEF HealthQuiet, Awaited, UpToDate, HealthTypeOK, Nowhere, Asleep, Ask, Places, Snapshots, watchVars, eventVars
  <2>1. CASE AnswerHealth
    BY <2>1 DEF AnswerHealth
  <2>2. CASE DeliverHealth
    BY <2>2 DEF DeliverHealth, show, isCurrent
  <2>3. CASE onHealth
    BY <2>3 DEF onHealth, readHealth
  <2>4. CASE RegisterHealth
    BY <2>4 DEF RegisterHealth
  <2>5. CASE EvictHealth
    BY <2>5 DEF EvictHealth
  <2>6. ASSUME NEW p \in Projects \cup {None}, NEW f \in Manifests \cup {None}, Look(p, f)
       PROVE  HealthQuiet'
    BY <2>6 DEF Look, readHealth
  <2>7. ASSUME NEW p \in Projects, PublishHealth(p) PROVE HealthQuiet'
    BY <2>7 DEF PublishHealth
  <2>8. ASSUME NEW at \in Places, Observe(at) PROVE HealthQuiet'
    BY <2>8 DEF Observe
  <2>9. CASE UNCHANGED healthVars
    BY <2>9 DEF healthVars
  <2> QED BY <2>1, <2>2, <2>3, <2>4, <2>5, <2>6, <2>7, <2>8, <2>9 DEF HealthNext
<1> QED BY <1>1, <1>2, HealthTypeCorrect, PTL DEF HealthSpec

(* However looks, answers, events and state changes interleave, a quiet    *)
(* panel shows what the watch last saw of the manifest on screen.          *)
THEOREM QuietHealth == HealthSpec => []QuietHealthIsCurrent
<1>1. HealthTypeOK /\ HealthQuiet => QuietHealthIsCurrent
  BY DEF HealthTypeOK, HealthQuiet, Awaited, UpToDate, QuietHealthIsCurrent
<1> QED BY <1>1, HealthTypeCorrect, HealthQuietInvariant, PTL

-----------------------------------------------------------------------------
(* Watcher, for any depth of directories, queue of the kernel and number   *)
(* of changes.                                                             *)

(* What the kernel's queue keeps when a notification is put in or taken.   *)
LEMMA QueueSteps ==
  ASSUME NEW S, NEW s \in Seq(S), NEW e \in S
  PROVE  /\ Append(s, e) \in Seq(S) /\ Len(Append(s, e)) = Len(s) + 1
         /\ \A i \in 1 .. Len(s) : Append(s, e)[i] = s[i]
         /\ Append(s, e)[Len(s) + 1] = e
         /\ s # <<>> => /\ Head(s) = s[1] /\ Head(s) \in S
                        /\ Tail(s) \in Seq(S) /\ Len(Tail(s)) = Len(s) - 1
                        /\ \A i \in 2 .. Len(s) : Tail(s)[i - 1] = s[i]
BY SMT

(* A notification that is reported and not dropped is in the queue, and    *)
(* those before it stay.                                                   *)
LEMMA NotifyKeeps ==
  ASSUME WatcherTypeOK, NEW reported, NEW e \in Notice, Notify(reported, e)
  PROVE  /\ notices' \in Seq(Notice) /\ Len(notices') <= MaxNotices /\ overflowed' \in BOOLEAN
         /\ ~overflowed' =>
              /\ ~overflowed
              /\ \A i \in 1 .. Len(notices) : i \in 1 .. Len(notices') /\ notices'[i] = notices[i]
              /\ reported => \E i \in 1 .. Len(notices') : notices'[i] = e
<1> USE WatcherAssumption DEF WatcherTypeOK, Notify
<1>1. CASE notices' = Append(notices, e) /\ Len(notices) # MaxNotices
  BY <1>1, QueueSteps
<1>2. CASE notices' = notices /\ (reported => Len(notices) = MaxNotices)
  BY <1>2
<1> QED BY <1>1, <1>2

LEMMA CreationIsNotice ==
  ASSUME NEW n \in Levels, NEW m \in Levels
  PROVE  [dir |-> n, created |-> m] \in Notice /\ [dir |-> n, created |-> None] \in Notice
BY DEF Notice

LEMMA UnreachedIsThere ==
  ASSUME WatcherTypeOK, NEW from \in Nat
  PROVE  /\ unreached(from) \subseteq 0 .. depth /\ unreached(from) \subseteq Levels
         /\ \A n \in 0 .. depth : from <= n => n \in nfy \cup unreached(from)
BY WatcherAssumption DEF unreached, WatcherTypeOK, Levels

(* Types, in every reachable state.                                        *)
THEOREM WatcherTypeCorrect == WatcherSpec => []WatcherTypeOK
<1>1. WatcherInit => WatcherTypeOK
  <2> SUFFICES ASSUME WatcherInit PROVE WatcherTypeOK
    OBVIOUS
  <2>1. 0 \in Levels
    BY WatcherAssumption DEF Levels
  <2>2. walk \in Walk
    BY <2>1 DEF WatcherInit, addTree, Walk
  <2>3. notices \in Seq(Notice) /\ Len(notices) <= MaxNotices /\ churn \in 0 .. MaxChurn
    BY WatcherAssumption DEF WatcherInit
  <2> QED BY <2>2, <2>3 DEF WatcherInit, WatcherTypeOK
<1>2. WatcherTypeOK /\ [WatcherNext]_watcherVars => WatcherTypeOK'
  <2> SUFFICES ASSUME WatcherTypeOK, [WatcherNext]_watcherVars PROVE WatcherTypeOK'
    OBVIOUS
  <2> USE WatcherAssumption
  <2>1. ASSUME NEW dirs, Changed(dirs)
        PROVE  holds' \in [Levels -> Nat] /\ churn' \in 0 .. MaxChurn
    BY <2>1 DEF Changed, WatcherTypeOK
  <2>2. CASE ChangeFile /\ UNCHANGED <<walk, pendingDirs, flushing, listed, relisting>>
    <3>1. PICK n \in 0 .. depth :
            /\ Changed({n}) /\ Notify(n \in nfy, [dir |-> n, created |-> None])
            /\ overlooked' = overlooked \cup ({n} \ nfy) /\ UNCHANGED <<depth, nfy, blind>>
      BY <2>2 DEF ChangeFile
    <3>2. n \in Levels
      BY DEF WatcherTypeOK, Levels
    <3>3. notices' \in Seq(Notice) /\ Len(notices') <= MaxNotices /\ overflowed' \in BOOLEAN
      BY <3>1, <3>2, CreationIsNotice, NotifyKeeps
    <3> QED BY <2>1, <2>2, <3>1, <3>2, <3>3 DEF WatcherTypeOK
  <2>3. CASE MakeDirectory /\ UNCHANGED <<walk, pendingDirs, flushing, listed, relisting>>
    <3>1. depth + 1 \in Levels
      BY <2>3 DEF MakeDirectory, WatcherTypeOK, Levels
    <3>2. notices' \in Seq(Notice) /\ Len(notices') <= MaxNotices /\ overflowed' \in BOOLEAN
      BY <2>3, <3>1, CreationIsNotice, NotifyKeeps DEF MakeDirectory, WatcherTypeOK
    <3> QED BY <2>1, <2>3, <3>1, <3>2 DEF MakeDirectory, WatcherTypeOK
  <2>4. CASE DeleteDirectory /\ UNCHANGED <<walk, pendingDirs, flushing, listed, relisting>>
    <3>1. depth - 1 \in Levels
      BY <2>4 DEF DeleteDirectory, WatcherTypeOK, Levels
    <3>2. notices' \in Seq(Notice) /\ Len(notices') <= MaxNotices /\ overflowed' \in BOOLEAN
      BY <2>4, <3>1, CreationIsNotice, NotifyKeeps DEF DeleteDirectory
    <3> QED BY <2>1, <2>4, <3>1, <3>2 DEF DeleteDirectory, WatcherTypeOK
  <2>5. CASE Handle
    <3>1. Head(notices) \in Notice /\ notices' \in Seq(Notice) /\ Len(notices') <= MaxNotices
      BY <2>5, QueueSteps DEF Handle, WatcherTypeOK
    <3>2. Head(notices).dir \in Levels /\ Head(notices).created \in Levels \cup {None}
      BY <3>1 DEF Notice
    <3>3. walk' \in Walk \cup {None} /\ pendingDirs' \subseteq Levels
      BY <2>5, <3>2 DEF Handle, Walk, addTree, WatcherTypeOK
    <3>4. blind' \subseteq Levels
      <4>1. \/ blind' = blind
            \/ Head(notices).created # None /\ blind' = blind \cup unreached(Head(notices).created)
        BY <2>5 DEF Handle
      <4>2. Head(notices).created # None => Head(notices).created \in Nat
        BY <3>2 DEF Levels
      <4>3. blind \subseteq Levels
        BY DEF WatcherTypeOK
      <4> QED BY <4>1, <4>2, <4>3, UnreachedIsThere
    <3> QED BY <2>5, <3>1, <3>3, <3>4 DEF Handle, WatcherTypeOK
  <2>6. CASE AddWatch
    BY <2>6 DEF AddWatch, Walk, WatcherTypeOK
  <2>7. CASE ReadDir
    <3>1. walk \in Walk
      BY <2>7 DEF ReadDir, WatcherTypeOK
    <3>2. walk' \in Walk \cup {None}
      BY <2>7, <3>1, SMTT(30) DEF ReadDir, Walk, addTree, WatcherTypeOK, Levels
    <3>3. pendingDirs' \subseteq Levels
      BY <2>7, <3>1 DEF ReadDir, Walk, WatcherTypeOK
    <3>4. blind' \subseteq Levels
      <4>1. walk.at + 1 \in Nat
        BY <3>1 DEF Walk, Levels
      <4> QED BY <2>7, <4>1, UnreachedIsThere DEF ReadDir, WatcherTypeOK
    <3> QED BY <2>7, <3>2, <3>3, <3>4 DEF ReadDir, WatcherTypeOK
  <2>8. CASE Flush
    BY <2>8 DEF Flush, WatcherTypeOK
  <2>9. CASE PublishTreeChanged
    BY <2>9 DEF PublishTreeChanged, WatcherTypeOK
  <2>10. CASE ListDirectory
    BY <2>10 DEF ListDirectory, WatcherTypeOK
  <2>11. CASE UNCHANGED watcherVars
    BY <2>11 DEF watcherVars, WatcherTypeOK
  <2> QED BY <2>2, <2>3, <2>4, <2>5, <2>6, <2>7, <2>8, <2>9, <2>10, <2>11 DEF WatcherNext, Disk
<1> QED BY <1>1, <1>2, PTL DEF WatcherSpec

-----------------------------------------------------------------------------
(* QuietWatchIsCurrent, strengthened.  A directory without a watch, which  *)
(* nothing keeps the watcher from, is one the walk has not come to, or     *)
(* below one whose creation is in the queue.                               *)

WillBeWalked(n) ==
  walk # None /\ (walk.at < n \/ (walk.doing = "addWatch" /\ walk.at = n))

CreationQueued(n) ==
  \E i \in 1 .. Len(notices) : notices[i].created # None /\ notices[i].created <= n

WatchedOrWillBe ==
  /\ nfy \subseteq 0 .. depth
  /\ \A n \in 0 .. depth : n \in nfy \cup blind \/ WillBeWalked(n) \/ CreationQueued(n)

(* A listing that is out of date is of a directory that was overlooked, or *)
(* the tree will be told to list it again.                                 *)

WillBeListed(n) ==
  \/ \E i \in 1 .. Len(notices) : notices[i].dir = n
  \/ walk # None /\ n \in walk.mark
  \/ n \in pendingDirs \cup flushing \cup relisting

ListedOrWillBe ==
  \A n \in 0 .. depth : listed[n] = None \/ listed[n] = holds[n] \/ n \in overlooked \/ WillBeListed(n)

WatchInv == ~overflowed => WatchedOrWillBe /\ ListedOrWillBe

LEMMA WatchInvariant == WatcherSpec => []WatchInv
<1>1. WatcherInit => WatchInv
  BY WatcherAssumption
     DEF WatcherInit, WatchInv, WatchedOrWillBe, ListedOrWillBe, WillBeWalked, addTree, Walk, Levels
<1>2. WatcherTypeOK /\ WatchInv /\ [WatcherNext]_watcherVars => WatchInv'
  <2> SUFFICES ASSUME WatcherTypeOK, WatchInv, [WatcherNext]_watcherVars, ~overflowed'
               PROVE  WatchedOrWillBe' /\ ListedOrWillBe'
    BY DEF WatchInv
  <2> USE WatcherAssumption
  <2>0. depth \in Nat /\ 0 .. depth \subseteq Levels /\ Levels \subseteq Nat /\ notices \in Seq(Notice)
    BY DEF WatcherTypeOK, Levels
  <2>1. ~overflowed /\ WatchedOrWillBe /\ ListedOrWillBe
    <3>1. CASE Disk
      BY <3>1 DEF WatchInv, Disk, ChangeFile, MakeDirectory, DeleteDirectory, Notify
    <3>2. CASE Handle \/ AddWatch \/ ReadDir \/ Flush \/ PublishTreeChanged \/ ListDirectory
      <4>1. overflowed' = overflowed
        BY <3>2 DEF Handle, AddWatch, ReadDir, Flush, PublishTreeChanged, ListDirectory
      <4> QED BY <4>1 DEF WatchInv
    <3>3. CASE UNCHANGED watcherVars
      BY <3>3 DEF WatchInv, watcherVars
    <3> QED BY <3>1, <3>2, <3>3 DEF WatcherNext
  <2>2. CASE ChangeFile /\ UNCHANGED <<walk, pendingDirs, flushing, listed, relisting>>
    <3>1. PICK m \in 0 .. depth :
            /\ Changed({m}) /\ Notify(m \in nfy, [dir |-> m, created |-> None])
            /\ overlooked' = overlooked \cup ({m} \ nfy) /\ UNCHANGED <<depth, nfy, blind>>
      BY <2>2 DEF ChangeFile
    <3>2. [dir |-> m, created |-> None] \in Notice
      BY <2>0, CreationIsNotice
    <3>3. /\ \A i \in 1 .. Len(notices) : i \in 1 .. Len(notices') /\ notices'[i] = notices[i]
          /\ m \in nfy => \E i \in 1 .. Len(notices') : notices'[i].dir = m
      <4> HIDE DEF Notify, Notice
      <4>1. /\ \A i \in 1 .. Len(notices) : i \in 1 .. Len(notices') /\ notices'[i] = notices[i]
            /\ m \in nfy => \E i \in 1 .. Len(notices') : notices'[i] = [dir |-> m, created |-> None]
        BY <3>1, <3>2, NotifyKeeps
      <4> QED BY <4>1
    <3>4. WatchedOrWillBe'
      BY <2>1, <2>2, <3>1, <3>3 DEF WatchedOrWillBe, WillBeWalked, CreationQueued
    <3>5. \A n \in 0 .. depth : WillBeListed(n) => WillBeListed(n)'
      BY <2>2, <3>3 DEF WillBeListed
    <3>6. \A n \in 0 .. depth : n # m => holds'[n] = holds[n]
      BY <2>0, <3>1 DEF Changed
    <3>7. m \in overlooked' \/ WillBeListed(m)'
      BY <3>1, <3>3 DEF WillBeListed
    <3> QED BY <2>1, <2>2, <3>1, <3>4, <3>5, <3>6, <3>7 DEF ListedOrWillBe
  <2>3. CASE MakeDirectory /\ UNCHANGED <<walk, pendingDirs, flushing, listed, relisting>>
    <3> PICK m \in Nat : m = depth
      BY <2>0
    <3> DEFINE e == [dir |-> m, created |-> m + 1]
    <3>1. /\ m + 1 \in Levels /\ depth' = m + 1 /\ nfy' = nfy
          /\ Notify(m \in nfy, e) /\ Changed({m, m + 1})
          /\ overlooked' = overlooked \cup ({m, m + 1} \ nfy)
          /\ blind \subseteq blind' /\ (m \in blind => m + 1 \in blind')
          /\ UNCHANGED <<walk, pendingDirs, flushing, listed, relisting>>
      BY <2>0, <2>3 DEF MakeDirectory, Levels
    <3>2. e \in Notice /\ e.dir = m /\ e.created = m + 1 /\ m + 1 # None
      <4>1. m \in Levels /\ m + 1 \in Levels /\ m + 1 # None
        BY <2>0, <3>1
      <4> QED BY <4>1, CreationIsNotice
    <3>3. /\ \A i \in 1 .. Len(notices) : i \in 1 .. Len(notices') /\ notices'[i] = notices[i]
          /\ m \in nfy => \E i \in 1 .. Len(notices') : notices'[i] = e
      BY <3>1, <3>2, NotifyKeeps
    <3> HIDE DEF e
    <3>4. \A n \in 0 .. m : (WillBeWalked(n) => WillBeWalked(n)') /\ (CreationQueued(n) => CreationQueued(n)')
      BY <3>1, <3>3 DEF WillBeWalked, CreationQueued
    <3>5. m + 1 \in blind' \/ WillBeWalked(m + 1)' \/ CreationQueued(m + 1)'
      <4>1. CASE m \in nfy
        BY <3>2, <3>3, <4>1 DEF CreationQueued
      <4>2. CASE WillBeWalked(m)
        <5>1. walk.at \in Nat /\ walk # None /\ walk' = walk
          BY <2>0, <3>1, <4>2 DEF WillBeWalked, WatcherTypeOK, Walk
        <5>2. walk.at < m + 1
          BY <4>2, <5>1 DEF WillBeWalked
        <5> QED BY <5>1, <5>2 DEF WillBeWalked
      <4>3. CASE CreationQueued(m)
        <5>1. PICK i \in 1 .. Len(notices) : notices[i].created # None /\ notices[i].created <= m
          BY <4>3 DEF CreationQueued
        <5>2. notices[i].created \in Nat
          <6>1. notices[i] \in Notice
            BY <2>0
          <6>2. notices[i].created \in Levels
            BY <5>1, <6>1 DEF Notice
          <6> QED BY <2>0, <6>2
        <5>3. i \in 1 .. Len(notices') /\ notices'[i].created # None /\ notices'[i].created <= m + 1
          BY <3>3, <5>1, <5>2
        <5> QED BY <5>3 DEF CreationQueued
      <4>4. CASE m \in blind
        BY <3>1, <4>4
      <4> QED BY <2>1, <4>1, <4>2, <4>3, <4>4 DEF WatchedOrWillBe
    <3>6. WatchedOrWillBe'
      <4>1. nfy' \subseteq 0 .. depth'
        BY <2>1, <3>1 DEF WatchedOrWillBe
      <4>2. ASSUME NEW n \in 0 .. depth' PROVE n \in nfy' \cup blind' \/ WillBeWalked(n)' \/ CreationQueued(n)'
        <5>1. n \in 0 .. m \/ n = m + 1
          BY <3>1
        <5> QED BY <2>1, <3>1, <3>4, <3>5, <5>1 DEF WatchedOrWillBe
      <4> QED BY <4>1, <4>2 DEF WatchedOrWillBe
    <3>7. ASSUME NEW n \in 0 .. depth'
          PROVE  listed'[n] = None \/ listed'[n] = holds'[n] \/ n \in overlooked' \/ WillBeListed(n)'
      <4>1. n \in 0 .. m - 1 \/ n = m \/ n = m + 1
        BY <3>1
      <4>2. CASE n \in 0 .. m - 1
        <5>1. n \in 0 .. m /\ holds'[n] = holds[n]
          BY <2>0, <3>1, <4>2 DEF Changed
        <5>2. WillBeListed(n) => WillBeListed(n)'
          BY <3>1, <3>3 DEF WillBeListed
        <5> QED BY <2>1, <3>1, <5>1, <5>2 DEF ListedOrWillBe
      <4>3. CASE n = m
        BY <3>1, <3>2, <3>3, <4>3 DEF WillBeListed
      <4>4. CASE n = m + 1
        <5>1. m + 1 \notin nfy
          BY <2>1 DEF WatchedOrWillBe
        <5> QED BY <3>1, <4>4, <5>1
      <4> QED BY <4>1, <4>2, <4>3, <4>4
    <3> QED BY <3>6, <3>7 DEF ListedOrWillBe
  <2>4. CASE DeleteDirectory /\ UNCHANGED <<walk, pendingDirs, flushing, listed, relisting>>
    <3> PICK m \in Nat : m + 1 = depth
      BY <2>0, <2>4 DEF DeleteDirectory
    <3> DEFINE e == [dir |-> m, created |-> None]
    <3>1. /\ m \in Levels /\ depth' = m /\ nfy' = nfy \ {m + 1} /\ blind' = blind \ {m + 1}
          /\ Notify({m, m + 1} \cap nfy # {}, e) /\ Changed({m})
          /\ overlooked' = overlooked \cup ({m} \ nfy)
          /\ UNCHANGED <<walk, pendingDirs, flushing, listed, relisting>>
      <4>1. m = depth - 1
        BY <2>0
      <4> QED BY <2>0, <2>4, <4>1 DEF DeleteDirectory
    <3>2. e \in Notice /\ e.dir = m
      BY <3>1, CreationIsNotice
    <3>3. /\ \A i \in 1 .. Len(notices) : i \in 1 .. Len(notices') /\ notices'[i] = notices[i]
          /\ m \in nfy => \E i \in 1 .. Len(notices') : notices'[i] = e
      BY <3>1, <3>2, NotifyKeeps
    <3> HIDE DEF e
    <3>4. \A n \in 0 .. m : (WillBeWalked(n) => WillBeWalked(n)') /\ (CreationQueued(n) => CreationQueued(n)')
      BY <3>1, <3>3 DEF WillBeWalked, CreationQueued
    <3>5. WatchedOrWillBe'
      <4>1. nfy' \subseteq 0 .. m /\ 0 .. m \subseteq 0 .. depth
        BY <2>0, <2>1, <3>1 DEF WatchedOrWillBe
      <4>2. \A n \in 0 .. m : n # m + 1
        OBVIOUS
      <4> QED BY <2>1, <3>1, <3>4, <4>1, <4>2 DEF WatchedOrWillBe
    <3>6. ASSUME NEW n \in 0 .. m
          PROVE  listed'[n] = None \/ listed'[n] = holds'[n] \/ n \in overlooked' \/ WillBeListed(n)'
      <4>1. CASE n = m
        BY <3>1, <3>2, <3>3, <4>1 DEF WillBeListed
      <4>2. CASE n # m
        <5>1. n \in 0 .. depth /\ n \in Levels /\ holds'[n] = holds[n]
          BY <2>0, <3>1, <4>2 DEF Changed
        <5>2. WillBeListed(n) => WillBeListed(n)'
          BY <3>1, <3>3 DEF WillBeListed
        <5> QED BY <2>1, <3>1, <5>1, <5>2 DEF ListedOrWillBe
      <4> QED BY <4>1, <4>2
    <3> QED BY <3>1, <3>5, <3>6 DEF ListedOrWillBe
  <2>5. CASE Handle
    <3> DEFINE ev == Head(notices)
    <3>1. /\ walk = None /\ ev \in Notice /\ ev = notices[1] /\ 1 \in 1 .. Len(notices)
          /\ \A i \in 1 .. Len(notices) : i = 1 \/ (i - 1 \in 1 .. Len(notices') /\ notices'[i - 1] = notices[i])
      BY <2>0, <2>5, QueueSteps DEF Handle
    <3>2. ev.dir \in Levels /\ ev.created \in Levels \cup {None}
      BY <3>1 DEF Notice
    <3>3. UNCHANGED <<depth, holds, nfy, flushing, listed, relisting, overlooked>>
      BY <2>5 DEF Handle
    <3>4. CASE /\ ev.created # None /\ ev.created <= depth
               /\ walk' = addTree(ev.created, {ev.dir}) /\ UNCHANGED <<pendingDirs, blind>>
      <4>1. walk' # None /\ pendingDirs' = pendingDirs /\ blind' = blind
        BY <3>2, <3>4 DEF addTree, Walk
      <4>2. \A n \in 0 .. depth : CreationQueued(n) => WillBeWalked(n)' \/ CreationQueued(n)'
        <5>1. walk'.at = ev.created /\ walk'.doing = "addWatch"
          BY <3>4 DEF addTree
        <5>2. ASSUME NEW n \in 0 .. depth, NEW i \in 1 .. Len(notices),
                     notices[i].created # None, notices[i].created <= n
              PROVE  WillBeWalked(n)' \/ CreationQueued(n)'
          <6>1. CASE i = 1
            <7>1. ev.created \in Nat /\ ev.created <= n
              BY <2>0, <3>1, <3>2, <3>4, <5>2, <6>1
            <7> QED BY <4>1, <5>1, <7>1 DEF WillBeWalked
          <6>2. CASE i # 1
            BY <3>1, <5>2, <6>2 DEF CreationQueued
          <6> QED BY <6>1, <6>2
        <5> QED BY <5>2 DEF CreationQueued
      <4>3. \A n \in 0 .. depth : WillBeListed(n) => WillBeListed(n)'
        BY <3>1, <3>3, <3>4, <4>1 DEF WillBeListed, addTree
      <4> QED BY <2>1, <3>1, <3>3, <4>1, <4>2, <4>3 DEF WatchedOrWillBe, ListedOrWillBe, WillBeWalked
    <3>5. CASE /\ pendingDirs' = pendingDirs \cup {ev.dir} /\ walk' = None
               /\ blind' = IF ev.created # None /\ ev.created <= depth
                           THEN blind \cup unreached(ev.created) ELSE blind
      <4>1. blind \subseteq blind'
        BY <3>5
      <4>2. \A n \in 0 .. depth : CreationQueued(n) => n \in nfy \cup blind' \/ CreationQueued(n)'
        <5>1. ASSUME NEW n \in 0 .. depth, NEW i \in 1 .. Len(notices),
                     notices[i].created # None, notices[i].created <= n
              PROVE  n \in nfy \cup blind' \/ CreationQueued(n)'
          <6>1. CASE i = 1
            <7>0. ev.created # None /\ ev.created <= n
              BY <3>1, <5>1, <6>1
            <7>a. ev.created \in Levels
              BY <3>2, <7>0
            <7>b. ev.created \in Nat
              BY <7>a DEF Levels
            <7>1. ev.created # None /\ ev.created \in Nat /\ ev.created <= n /\ n <= depth
              BY <2>0, <7>0, <7>b
            <7>2. ev.created <= depth
              BY <2>0, <7>1
            <7> QED BY <3>5, <7>1, <7>2, UnreachedIsThere
          <6>2. CASE i # 1
            BY <3>1, <5>1, <6>2 DEF CreationQueued
          <6> QED BY <6>1, <6>2
        <5> QED BY <5>1 DEF CreationQueued
      <4>3. \A n \in 0 .. depth : WillBeListed(n) => WillBeListed(n)'
        BY <3>1, <3>3, <3>5 DEF WillBeListed
      <4> QED BY <2>1, <3>1, <3>3, <4>1, <4>2, <4>3 DEF WatchedOrWillBe, ListedOrWillBe, WillBeWalked
    <3> QED BY <2>5, <3>1, <3>4, <3>5 DEF Handle
  <2>6. CASE AddWatch
    <3>1. /\ walk \in Walk /\ walk' = [walk EXCEPT !.doing = "readDir"] /\ walk' # None
          /\ walk.doing = "addWatch"
          /\ UNCHANGED <<depth, holds, notices, pendingDirs, flushing, listed, relisting, overlooked>>
      BY <2>6 DEF AddWatch, Walk, WatcherTypeOK
    <3>2. \A n \in 0 .. depth : WillBeWalked(n) => n \in nfy' \cup blind' \/ WillBeWalked(n)'
      BY <2>6, <3>1 DEF AddWatch, WillBeWalked, Walk, Levels
    <3>3. nfy \cup blind \subseteq nfy' \cup blind' /\ nfy' \subseteq 0 .. depth
      BY <2>1, <2>6, <3>1 DEF AddWatch, WatchedOrWillBe, Walk, Levels
    <3>4. \A n \in 0 .. depth : WillBeListed(n) => WillBeListed(n)'
      BY <3>1 DEF WillBeListed, Walk
    <3> QED BY <2>1, <3>1, <3>2, <3>3, <3>4 DEF WatchedOrWillBe, ListedOrWillBe, CreationQueued
  <2>7. CASE ReadDir
    <3>1. /\ walk \in Walk /\ walk.doing = "readDir"
          /\ UNCHANGED <<depth, holds, nfy, notices, flushing, listed, relisting, overlooked>>
      BY <2>7 DEF ReadDir, WatcherTypeOK
    <3>0. walk.at \in Nat /\ walk.at + 1 \in Nat /\ walk.doing # "addWatch"
      <4>1. walk.at \in Levels
        BY <3>1 DEF Walk
      <4>2. walk.at \in Nat
        BY <4>1 DEF Levels
      <4>3. walk.doing # "addWatch"
        BY <3>1
      <4> QED BY <4>2, <4>3
    <3>2. CASE /\ walk.at < depth
               /\ walk' = addTree(walk.at + 1, walk.mark) /\ UNCHANGED <<pendingDirs, blind>>
      <4>1. walk' # None /\ pendingDirs' = pendingDirs /\ blind' = blind
        <5>1. walk.at + 1 \in Levels /\ walk.mark \subseteq Levels
          BY <2>0, <3>1, <3>2 DEF Walk, Levels, WatcherTypeOK
        <5>2. addTree(walk.at + 1, walk.mark) \in Walk
          BY <5>1 DEF addTree, Walk
        <5> QED BY <3>2, <5>2
      <4>2. \A n \in 0 .. depth : WillBeWalked(n) => WillBeWalked(n)'
        BY <3>1, <3>2, <4>1 DEF WillBeWalked, addTree, Walk, Levels
      <4>3. \A n \in 0 .. depth : WillBeListed(n) => WillBeListed(n)'
        BY <3>1, <3>2, <4>1 DEF WillBeListed, addTree
      <4> QED BY <2>1, <3>1, <4>1, <4>2, <4>3 DEF WatchedOrWillBe, ListedOrWillBe, CreationQueued
    <3>3. CASE /\ walk' = None /\ pendingDirs' = pendingDirs \cup walk.mark
               /\ blind' = blind \cup unreached(walk.at + 1)
      <4>1. \A n \in 0 .. depth : WillBeWalked(n) => n \in nfy \cup blind'
        <5>1. ASSUME NEW n \in 0 .. depth, WillBeWalked(n) PROVE n \in nfy \cup blind'
          <6>1. walk.at + 1 <= n
            BY <3>0, <5>1 DEF WillBeWalked
          <6> QED BY <3>0, <3>3, <6>1, UnreachedIsThere
        <5> QED BY <5>1
      <4>2. \A n \in 0 .. depth : WillBeListed(n) => WillBeListed(n)'
        BY <3>1, <3>3 DEF WillBeListed
      <4> QED BY <2>1, <3>1, <3>3, <4>1, <4>2 DEF WatchedOrWillBe, ListedOrWillBe, CreationQueued
    <3> QED BY <2>7, <3>2, <3>3 DEF ReadDir
  <2>8. CASE Flush
    BY <2>0, <2>1, <2>8, SMTT(30)
       DEF Flush, WatchedOrWillBe, ListedOrWillBe, WillBeWalked, CreationQueued, WillBeListed
  <2>9. CASE PublishTreeChanged
    BY <2>0, <2>1, <2>9, SMTT(30)
       DEF PublishTreeChanged, WatchedOrWillBe, ListedOrWillBe, WillBeWalked, CreationQueued, WillBeListed
  <2>10. CASE ListDirectory
    <3>1. PICK n \in Levels :
            /\ relisting' = relisting \ {n}
            /\ IF n <= depth
               THEN listed' = [listed EXCEPT ![n] = holds[n]] /\ overlooked' = overlooked \ {n}
               ELSE UNCHANGED <<listed, overlooked>>
            /\ UNCHANGED <<depth, holds, nfy, notices, walk, pendingDirs, flushing, blind>>
      BY <2>10 DEF ListDirectory
    <3>2. WatchedOrWillBe'
      BY <2>1, <3>1 DEF WatchedOrWillBe, WillBeWalked, CreationQueued
    <3>3. \A k \in 0 .. depth \ {n} : listed'[k] = listed[k] /\ (k \in overlooked => k \in overlooked')
      BY <2>0, <3>1, SMTT(30) DEF WatcherTypeOK
    <3>4. \A k \in 0 .. depth \ {n} : WillBeListed(k) => WillBeListed(k)'
      BY <3>1 DEF WillBeListed
    <3>5. n \in 0 .. depth => listed'[n] = holds'[n]
      BY <3>1 DEF WatcherTypeOK
    <3>6. ListedOrWillBe'
      BY <2>1, <3>1, <3>3, <3>4, <3>5 DEF ListedOrWillBe
    <3> QED BY <3>2, <3>6
  <2>11. CASE UNCHANGED watcherVars
    BY <2>1, <2>11
       DEF watcherVars, WatchedOrWillBe, ListedOrWillBe, WillBeWalked, CreationQueued, WillBeListed
  <2> QED BY <2>2, <2>3, <2>4, <2>5, <2>6, <2>7, <2>8, <2>9, <2>10, <2>11 DEF WatcherNext, Disk
<1> QED BY <1>1, <1>2, WatcherTypeCorrect, PTL DEF WatcherSpec

(* However deep the checkout and however its changes fall between the two  *)
(* calls of a walk, once the watcher has caught up, unless the kernel's    *)
(* queue overflowed, every directory is watched, or was kept from it by a  *)
(* refusal of the system; and every listing is current, or of a directory  *)
(* that changed while it was not watched (overlooked).                     *)
THEOREM QuietWatch == WatcherSpec => []QuietWatchIsCurrent
<1>1. WatcherTypeOK /\ WatchInv => QuietWatchIsCurrent
  BY DEF WatcherTypeOK, WatchInv, WatchedOrWillBe, ListedOrWillBe, WillBeWalked, CreationQueued,
         WillBeListed, Settled, QuietWatchIsCurrent
<1> QED BY <1>1, WatcherTypeCorrect, WatchInvariant, PTL

-----------------------------------------------------------------------------
(* Workbench, for any projects, tabs and number of calls and saves.        *)

(* Recording leaves alone what is recorded of a project whose tabs have    *)
(* not been put back and which the list shows (nextSession, recordFor).    *)
LEMMA NextSessionKeeps ==
  ASSUME NEW previous, NEW names, NEW name, NEW p \in Projects,
         p \notin hydrated', names = <<>> \/ p \in Range(names)
  PROVE  nextSession(previous, names, name).projects[p] = previous.projects[p]
BY DEF nextSession, recordFor, projectSession

(* And so does a render, for the projects that no list has left out.       *)
LEMMA RenderKeeps ==
  ASSUME NEW names, NEW chosen, NEW previous, NEW p \in Projects,
         Render(names, chosen, previous), loaded' # None, p \notin hydrated' \cup pruned'
  PROVE  p \notin pruned /\ current'.projects[p] = previous.projects[p]
<1>1. names = <<>> \/ p \in Range(names)
  BY DEF Render
<1>2. \E name : current' = nextSession(previous, names, name)
  BY DEF Render, Recorded
<1>3. p \notin pruned
  BY DEF Render
<1> QED BY <1>1, <1>2, <1>3, NextSessionKeeps

(* RecordSurvives, strengthened: a project the list has left out has been  *)
(* noted, however long ago that was.                                       *)
AbsentIsPruned == list = <<>> \/ Projects \ Range(list) \subseteq pruned

RecordInv == AbsentIsPruned /\ RecordSurvives

LEMMA AbsentStaysPruned ==
  ASSUME AbsentIsPruned, [WorkNext]_workVars
  PROVE  AbsentIsPruned'
<1>1. ASSUME NEW names, NEW chosen, NEW previous, Render(names, chosen, previous) PROVE AbsentIsPruned'
  <2>1. list' = names /\ pruned' = IF names = <<>> THEN pruned ELSE pruned \cup (Projects \ Range(names))
    BY <1>1 DEF Render
  <2> QED BY <2>1 DEF AbsentIsPruned
<1>2. CASE LoadSession
  BY <1>1, <1>2 DEF LoadSession
<1>3. ASSUME NEW tabs \in Tabs, Work(tabs) PROVE AbsentIsPruned'
  BY <1>1, <1>3 DEF Work
<1>4. ASSUME NEW q \in Projects, ShellEndsWell(q) \/ selectProject(q) \/ commitAdd(q) \/ remove(q)
      PROVE  AbsentIsPruned'
  BY <1>1, <1>4 DEF ShellEndsWell, selectProject, commitAdd, remove
<1>5. ASSUME NEW i \in DOMAIN list, move(i) PROVE AbsentIsPruned'
  BY <1>1, <1>5 DEF move
<1>6. ASSUME NEW i \in DOMAIN requests, DeliverRequest(i) PROVE AbsentIsPruned'
  BY <1>1, <1>6 DEF DeliverRequest
<1>7. ASSUME NEW i, Hydrate(i) \/ PerformRequest(i) \/ DeliverSave(i) PROVE AbsentIsPruned'
  BY <1>7 DEF Hydrate, PerformRequest, DeliverSave, AbsentIsPruned
<1>8. CASE SaveSession \/ UNCHANGED workVars
  BY <1>8 DEF SaveSession, workVars, AbsentIsPruned
<1> QED BY <1>2, <1>3, <1>4, <1>5, <1>6, <1>7, <1>8 DEF WorkNext

(* What was saved of a project is kept until its tabs have been put back,  *)
(* whatever restores, registry calls and saves are under way meanwhile.    *)
THEOREM RecordAlwaysSurvives == WorkSpec => []RecordSurvives
<1>1. WorkInit => RecordInv
  BY DEF WorkInit, RecordInv, AbsentIsPruned, RecordSurvives
<1>2. RecordInv /\ [WorkNext]_workVars => RecordInv'
  <2> SUFFICES ASSUME AbsentIsPruned, RecordSurvives, [WorkNext]_workVars, loaded' # None,
                      NEW p \in Projects, p \notin hydrated' \cup pruned'
               PROVE  current'.projects[p] = loaded'.projects[p]
    BY AbsentStaysPruned DEF RecordInv, RecordSurvives
  <2>1. CASE LoadSession
    BY <2>1, RenderKeeps DEF LoadSession
  <2>2. ASSUME loaded' = loaded, hydrated' = hydrated,
               NEW names, NEW chosen, Render(names, chosen, current)
        PROVE  current'.projects[p] = loaded'.projects[p]
    BY <2>2, RenderKeeps DEF RecordSurvives
  <2>3. ASSUME NEW tabs \in Tabs, Work(tabs) PROVE current'.projects[p] = loaded'.projects[p]
    BY <2>2, <2>3 DEF Work
  <2>4. ASSUME NEW q \in Projects, ShellEndsWell(q) \/ selectProject(q) \/ commitAdd(q) \/ remove(q)
        PROVE  current'.projects[p] = loaded'.projects[p]
    BY <2>2, <2>4 DEF ShellEndsWell, selectProject, commitAdd, remove
  <2>5. ASSUME NEW i \in DOMAIN list, move(i) PROVE current'.projects[p] = loaded'.projects[p]
    BY <2>2, <2>5 DEF move
  <2>6. ASSUME NEW i \in DOMAIN requests, DeliverRequest(i)
        PROVE  current'.projects[p] = loaded'.projects[p]
    BY <2>2, <2>6 DEF DeliverRequest
  <2>7. ASSUME NEW i \in DOMAIN hydrating, Hydrate(i)
        PROVE  current'.projects[p] = loaded'.projects[p]
    <3>1. loaded' = loaded /\ hydrated \subseteq hydrated' /\ pruned' = pruned /\ Hydration
      BY <2>7 DEF Hydrate
    <3>2. current' = nextSession(current, list, activeName)
      BY <3>1 DEF Hydration, Recorded
    <3>3. list = <<>> \/ p \in Range(list)
      BY <3>1 DEF AbsentIsPruned
    <3> QED BY <3>1, <3>2, <3>3, NextSessionKeeps DEF RecordSurvives
  <2>8. CASE SaveSession
    BY <2>8 DEF SaveSession, RecordSurvives
  <2>9. ASSUME NEW i, PerformRequest(i) \/ DeliverSave(i)
        PROVE  current'.projects[p] = loaded'.projects[p]
    BY <2>9 DEF PerformRequest, DeliverSave, RecordSurvives
  <2>10. CASE UNCHANGED workVars
    BY <2>10 DEF workVars, RecordSurvives
  <2> QED BY <2>1, <2>3, <2>4, <2>5, <2>6, <2>7, <2>8, <2>9, <2>10 DEF WorkNext
<1>3. RecordInv => RecordSurvives
  BY DEF RecordInv
<1> QED BY <1>1, <1>2, <1>3, PTL DEF WorkSpec

-----------------------------------------------------------------------------
(* The strip and the session file, for any projects and session.           *)

Requested ==
  [kind : {"list", "add", "remove", "reorder"}, arg : Projects \cup {None} \cup Seq(Projects),
   got : Seq(Projects) \cup {None, Failed}]

Restored == [project : Projects, record : Record \cup {None}]

(* A call names a project, an order, or nothing; a reload the project it   *)
(* is behind.                                                              *)
RequestOk(r) ==
  /\ r.kind \in {"add", "remove"} => r.arg \in Projects
  /\ r.kind = "reorder" => r.arg \in Seq(Projects)
  /\ r.kind = "list" => r.arg \in Projects \cup {None}

WorkTypes ==
  /\ stored \in Seq(Projects) /\ list \in Seq(Projects) /\ activeName \in Projects \cup {None}
  /\ requests \in Seq(Requested)
  /\ \A i \in DOMAIN requests : RequestOk(requests[i])
  /\ hydrating \in Seq(Restored) /\ strips \in [Projects -> Record]
  /\ loaded \in State \cup {None} /\ current \in State /\ written \in State
  /\ saves \in Seq(State) /\ onDisk \in State

(* What a render leaves typed.                                             *)
RenderTyped ==
  /\ list \in Seq(Projects) /\ activeName \in Projects \cup {None}
  /\ current \in State /\ hydrating \in Seq(Restored)

LEMMA Previous ==
  ASSUME NEW s \in State, NEW p \in Projects
  PROVE  s.projects[p] \in Record \cup {None}
BY DEF State

LEMMA RecordTyped ==
  ASSUME NEW previous \in State, NEW names, NEW name \in Projects \cup {None},
         strips' \in [Projects -> Record]
  PROVE  nextSession(previous, names, name) \in State
<1>1. \A p \in Projects : recordFor(p, previous, name) \in Record \cup {None}
  BY Previous DEF recordFor, projectSession
<1> QED  BY <1>1 DEF nextSession, State

LEMMA RenderTypes ==
  ASSUME NEW names \in Seq(Projects), NEW chosen \in Projects \cup {None}, NEW previous \in State,
         strips' \in [Projects -> Record], loaded' \in State \cup {None},
         current \in State, hydrating \in Seq(Restored), Render(names, chosen, previous)
  PROVE  RenderTyped'
<1> DEFINE landing == loaded' # None /\ restoring /\ names # <<>>
           name    == IF landing /\ loaded'.active \in Range(names) THEN loaded'.active ELSE chosen
           next    == [project |-> name, record |-> projectSession(previous, name)]
<1>1. Range(names) \subseteq Projects
  BY DEF Range
<1>2. name \in Projects \cup {None}
  BY <1>1
<1>3. /\ list' = names /\ activeName' = name
      /\ \/ hydrating' = hydrating
         \/ name \in Range(names) /\ hydrating' = Append(hydrating, next)
      /\ current' = current \/ current' = nextSession(previous, names, name)
  BY DEF Render, Recorded
<1> HIDE DEF name
<1>4. current' \in State
  BY <1>2, <1>3, RecordTyped
<1>5. hydrating' \in Seq(Restored)
  <2>1. name \in Range(names) => next \in Restored
    BY <1>1, Previous DEF projectSession, Restored
  <2> HIDE DEF next
  <2> QED  BY <1>3, <2>1, AppendedElements
<1> QED  BY <1>2, <1>3, <1>4, <1>5 DEF RenderTyped

(* A render that changes no call, tab or file.                             *)
LEMMA Rendered ==
  ASSUME WorkTypes, UNCHANGED <<stored, loaded, written, saves, onDisk>>,
         strips' \in [Projects -> Record],
         NEW names \in Seq(Projects), NEW chosen \in Projects \cup {None},
         Render(names, chosen, current),
         requests' \in Seq(Requested),
         \A i \in DOMAIN requests' : RequestOk(requests'[i])
  PROVE  WorkTypes'
<1>1. RenderTyped'
  BY RenderTypes DEF WorkTypes
<1> QED  BY <1>1 DEF WorkTypes, RenderTyped

(* A call is made.                                                         *)
LEMMA RequestTyped ==
  ASSUME WorkTypes, NEW kind \in {"list", "add", "remove", "reorder"},
         NEW arg \in Projects \cup {None} \cup Seq(Projects),
         RequestOk(Request(kind, arg)), requests' = Append(requests, Request(kind, arg))
  PROVE  /\ requests' \in Seq(Requested)
         /\ \A i \in DOMAIN requests' : RequestOk(requests'[i])
         /\ \A i \in DOMAIN requests : i \in DOMAIN requests' /\ requests'[i] = requests[i]
         /\ \E n \in DOMAIN requests' : requests'[n] = Request(kind, arg)
<1>1. Request(kind, arg) \in Requested
  BY DEF Request, Requested
<1>2. /\ requests' \in Seq(Requested)
      /\ DOMAIN requests' = DOMAIN requests \cup {Len(requests) + 1}
      /\ \A i \in DOMAIN requests : requests'[i] = requests[i]
      /\ requests'[Len(requests) + 1] = Request(kind, arg)
  BY <1>1, AppendedElements DEF WorkTypes
<1> QED  BY <1>1, <1>2 DEF WorkTypes

(* A call has been answered and may have the list read again.              *)
LEMMA RequestTaken ==
  ASSUME WorkTypes, NEW i \in DOMAIN requests, NEW arg \in Projects \cup {None},
         NEW reload \in {<<>>, <<Request("list", arg)>>}, requests' = RemoveAt(requests, i) \o reload
  PROVE  /\ requests' \in Seq(Requested)
         /\ \A j \in DOMAIN requests' : RequestOk(requests'[j])
         /\ \A m \in DOMAIN requests \ {i} : \E j \in DOMAIN requests' : requests'[j] = requests[m]
         /\ reload # <<>> => \E j \in DOMAIN requests' : requests'[j] = Request("list", arg)
<1> DEFINE left == RemoveAt(requests, i)
<1>1. /\ requests \in Seq(Requested) /\ left \in Seq(Requested)
      /\ \A j \in DOMAIN left : \E m \in DOMAIN requests : left[j] = requests[m]
      /\ \A m \in DOMAIN requests \ {i} : \E j \in DOMAIN left : left[j] = requests[m]
  <2>1. requests \in Seq(Requested)
    BY DEF WorkTypes
  <2>2. \A j \in DOMAIN left :
          LET m == IF j < i THEN j ELSE j + 1
          IN  m \in DOMAIN requests \ {i} /\ left[j] = requests[m]
    BY <2>1, RemovedElements
  <2> QED  BY <2>1, <2>2, RemovedElements
<1> HIDE DEF left
<1>2. CASE reload = <<>>
  <2>1. requests' = left
    BY <1>1, <1>2 DEF left
  <2> QED  BY <1>1, <1>2, <2>1 DEF WorkTypes
<1>3. CASE reload = <<Request("list", arg)>>
  <2> DEFINE r == Request("list", arg)
  <2>1. r \in Requested /\ RequestOk(r)
    BY DEF Request, Requested, RequestOk
  <2> HIDE DEF r
  <2>2. requests' = Append(left, r)
    BY <1>1, <1>3, <2>1 DEF left, r
  <2>3. /\ requests' \in Seq(Requested)
        /\ DOMAIN requests' = DOMAIN left \cup {Len(left) + 1}
        /\ \A j \in DOMAIN left : requests'[j] = left[j]
        /\ requests'[Len(left) + 1] = r
    BY <1>1, <2>1, <2>2, AppendedElements
  <2>4. ASSUME NEW j \in DOMAIN requests'
        PROVE  RequestOk(requests'[j])
    <3>1. CASE j \in DOMAIN left
      BY <1>1, <2>3, <3>1 DEF WorkTypes
    <3>2. CASE j \notin DOMAIN left
      BY <2>1, <2>3, <3>2
    <3> QED  BY <3>1, <3>2
  <2>5. \A m \in DOMAIN requests \ {i} : \E j \in DOMAIN requests' : requests'[j] = requests[m]
    BY <1>1, <2>3
  <2>6. \E j \in DOMAIN requests' : requests'[j] = Request("list", arg)
    BY <2>3 DEF r
  <2> QED  BY <2>3, <2>4, <2>5, <2>6
<1> QED  BY <1>2, <1>3

(* The registry's order after a call, and the answer.                      *)
LEMMA EffectTyped ==
  ASSUME WorkTypes, NEW i \in DOMAIN requests, accepts(requests[i])
  PROVE  effect(requests[i]) \in Seq(Projects)
<1>1. /\ requests[i].kind \in {"list", "add", "remove", "reorder"} /\ stored \in Seq(Projects)
      /\ RequestOk(requests[i])
  <2>1. requests[i] \in Requested /\ stored \in Seq(Projects) /\ RequestOk(requests[i])
    BY DEF WorkTypes
  <2> QED  BY <2>1 DEF Requested
<1>2. CASE requests[i].kind = "list"
  BY <1>1, <1>2 DEF effect
<1>3. CASE requests[i].kind = "add"
  BY <1>1, <1>3, AppendedElements DEF effect, RequestOk
<1>4. CASE requests[i].kind = "remove"
  <2>1. requests[i].arg \in Range(stored)
    BY <1>4 DEF accepts
  <2> DEFINE at == CHOOSE j \in DOMAIN stored : stored[j] = requests[i].arg
  <2>2. at \in DOMAIN stored
    BY <2>1 DEF Range
  <2>3. effect(requests[i]) = RemoveAt(stored, at)
    BY <1>4 DEF effect
  <2> HIDE DEF at
  <2> QED  BY <1>1, <2>2, <2>3, RemovedElements
<1>5. CASE requests[i].kind = "reorder"
  BY <1>1, <1>5 DEF effect, RequestOk
<1> QED  BY <1>1, <1>2, <1>3, <1>4, <1>5

(* Answering a call changes only what was answered.                        *)
LEMMA RequestAnswered ==
  ASSUME WorkTypes, NEW i \in DOMAIN requests, NEW got \in Seq(Projects) \cup {Failed},
         requests' = [requests EXCEPT ![i].got = got]
  PROVE  /\ requests' \in Seq(Requested) /\ DOMAIN requests' = DOMAIN requests
         /\ requests'[i].kind = requests[i].kind /\ requests'[i].arg = requests[i].arg
         /\ requests'[i].got = got
         /\ \A j \in DOMAIN requests \ {i} : requests'[j] = requests[j]
         /\ \A j \in DOMAIN requests' : RequestOk(requests'[j])
<1> DEFINE r == [requests[i] EXCEPT !.got = got]
<1>1. requests \in Seq(Requested) /\ requests[i] \in Requested
  BY DEF WorkTypes
<1>2. r \in Requested /\ r.kind = requests[i].kind /\ r.arg = requests[i].arg /\ r.got = got
  BY <1>1 DEF Requested
<1>3. requests' = [requests EXCEPT ![i] = r]
  OBVIOUS
<1> HIDE DEF r
<1>4. /\ requests' \in Seq(Requested) /\ DOMAIN requests' = DOMAIN requests
      /\ requests'[i] = r /\ \A j \in DOMAIN requests \ {i} : requests'[j] = requests[j]
  BY <1>1, <1>2, <1>3
<1>5. ASSUME NEW j \in DOMAIN requests'
      PROVE  RequestOk(requests'[j])
  BY <1>2, <1>4 DEF WorkTypes, RequestOk
<1> QED  BY <1>2, <1>4, <1>5

LEMMA HydrateTypes ==
  ASSUME WorkTypes, NEW i \in DOMAIN hydrating, Hydrate(i)
  PROVE  WorkTypes'
<1> DEFINE h == hydrating[i]
<1>1. hydrating \in Seq(Restored) /\ h.project \in Projects /\ h.record \in Record \cup {None}
  <2>1. hydrating \in Seq(Restored) /\ h \in Restored
    BY DEF WorkTypes
  <2> QED  BY <2>1 DEF Restored
<1>2. PICK found \in SUBSET restoredEditors(h.record) :
        strips' = [strips EXCEPT ![h.project].editors = @ \cup found,
                                 ![h.project].terminals = @ + restoredTerminals(h.record)]
  BY DEF Hydrate
<1>3. restoredEditors(h.record) \in SUBSET Files /\ restoredTerminals(h.record) \in Nat
  BY <1>1 DEF restoredEditors, restoredTerminals, Nothing, Record
<1>4. strips' \in [Projects -> Record]
  <2>1. strips[h.project] \in Record /\ strips \in [Projects -> Record]
    BY <1>1 DEF WorkTypes
  <2> DEFINE t == [editors |-> strips[h.project].editors \cup found,
                   terminals |-> strips[h.project].terminals + restoredTerminals(h.record)]
  <2>2. t \in Record
    BY <1>2, <1>3, <2>1 DEF Record
  <2>3. strips' = [strips EXCEPT ![h.project] = t]
    <3> DEFINE half == [strips EXCEPT ![h.project].editors = @ \cup found]
    <3>1. strips' = [half EXCEPT ![h.project].terminals = @ + restoredTerminals(h.record)]
      BY <1>2
    <3>2. half[h.project] = [editors |-> strips[h.project].editors \cup found,
                             terminals |-> strips[h.project].terminals]
      BY <1>1, <2>1 DEF Record
    <3>3. half \in [Projects -> Record] /\ \A p \in Projects \ {h.project} : half[p] = strips[p]
      BY <1>1, <1>2, <1>3, <2>1, <3>2 DEF Record
    <3>4. [half[h.project] EXCEPT !.terminals = @ + restoredTerminals(h.record)] = t
      BY <3>2, SMTT(30)
    <3>5. strips' = [half EXCEPT ![h.project] = t]
      BY <3>1, <3>4
    <3> HIDE DEF half, t
    <3> QED  BY <1>1, <2>1, <2>2, <3>3, <3>5
  <2> HIDE DEF t
  <2> QED  BY <2>1, <2>2, <2>3
<1>5. hydrating' \in Seq(Restored)
  BY <1>1, RemovedElements DEF Hydrate
<1>6. current' = current \/ current' = nextSession(current, list, activeName)
  BY DEF Hydrate, Hydration, Recorded
<1>7. current' \in State
  BY <1>4, <1>6, RecordTyped DEF WorkTypes
<1> QED  BY <1>4, <1>5, <1>7 DEF Hydrate, WorkTypes, listVars, saveVars

(* Types, in every reachable state.                                        *)
LEMMA WorkTypesStep ==
  ASSUME WorkTypes, [WorkNext]_workVars
  PROVE  WorkTypes'
<1>1. CASE LoadSession
  <2>1. loaded' \in State /\ written' = loaded' /\ Render(list, activeName, loaded')
        /\ UNCHANGED <<stored, requests, saves, onDisk, strips>>
    BY <1>1 DEF LoadSession, WorkTypes, listVars, saveVars, State, emptySession
  <2>2. RenderTyped'
    BY <2>1, RenderTypes DEF WorkTypes
  <2> QED  BY <2>1, <2>2 DEF WorkTypes, RenderTyped
<1>2. ASSUME NEW tabs \in Tabs, Work(tabs) PROVE WorkTypes'
  <2>1. tabs \in Record
    BY DEF Tabs, Record
  <2>2. /\ strips' \in [Projects -> Record] /\ requests' = requests
        /\ UNCHANGED <<stored, loaded, written, saves, onDisk>> /\ Render(list, activeName, current)
    BY <1>2, <2>1 DEF Work, WorkTypes, listVars, saveVars
  <2> QED  BY <2>2, Rendered DEF WorkTypes
<1>3. ASSUME NEW p \in Projects, ShellEndsWell(p) PROVE WorkTypes'
  <2>1. strips[p] \in Record /\ strips[p].terminals - 1 \in Nat
    BY <1>3 DEF ShellEndsWell, WorkTypes, Record
  <2>2. [strips[p] EXCEPT !.terminals = @ - 1] \in Record
    BY <2>1 DEF Record
  <2>3. /\ strips' \in [Projects -> Record] /\ requests' = requests
        /\ UNCHANGED <<stored, loaded, written, saves, onDisk>> /\ Render(list, activeName, current)
    BY <1>3, <2>2 DEF ShellEndsWell, WorkTypes, listVars, saveVars
  <2> QED  BY <2>3, Rendered DEF WorkTypes
<1>4. ASSUME NEW p \in Projects, selectProject(p) PROVE WorkTypes'
  BY <1>4, Rendered DEF selectProject, WorkTypes, listVars, saveVars
<1>5. ASSUME NEW p \in Projects, commitAdd(p) PROVE WorkTypes'
  <2>1. /\ requests' = Append(requests, Request("add", p)) /\ strips' \in [Projects -> Record]
        /\ UNCHANGED <<stored, loaded, written, saves, onDisk>> /\ Render(list, activeName, current)
    BY <1>5 DEF commitAdd, WorkTypes, saveVars
  <2>2. /\ requests' \in Seq(Requested)
        /\ \A i \in DOMAIN requests' : RequestOk(requests'[i])
    BY <2>1, RequestTyped DEF RequestOk, Request
  <2> QED  BY <2>1, <2>2, Rendered DEF WorkTypes
<1>6. ASSUME NEW p \in Projects, remove(p) PROVE WorkTypes'
  <2>1. selectionAfterRemove(p) \in Projects \cup {None}
    <3> DEFINE at   == CHOOSE i \in DOMAIN list : list[i] = p
               rest == RemoveAt(list, at)
    <3>1. list \in Seq(Projects) /\ activeName \in Projects \cup {None} /\ at \in DOMAIN list
      BY <1>6 DEF WorkTypes, remove, Range
    <3>2. selectionAfterRemove(p) = IF activeName # p THEN activeName
                                    ELSE IF rest = <<>> THEN None
                                    ELSE rest[IF at <= Len(rest) THEN at ELSE Len(rest)]
      BY DEF selectionAfterRemove
    <3> HIDE DEF at
    <3>3. rest \in Seq(Projects)
      BY <3>1, RemovedElements
    <3> HIDE DEF rest
    <3> QED  BY <3>1, <3>2, <3>3
  <2>2. /\ requests' = Append(requests, Request("remove", p)) /\ strips' \in [Projects -> Record]
        /\ UNCHANGED <<stored, loaded, written, saves, onDisk>>
        /\ Render(list, selectionAfterRemove(p), current)
    BY <1>6 DEF remove, WorkTypes, saveVars, Nothing, Record
  <2>3. /\ requests' \in Seq(Requested)
        /\ \A i \in DOMAIN requests' : RequestOk(requests'[i])
    BY <2>2, RequestTyped DEF RequestOk, Request
  <2> QED  BY <2>1, <2>2, <2>3, Rendered DEF WorkTypes
<1>7. ASSUME NEW i \in DOMAIN list, move(i) PROVE WorkTypes'
  <2> DEFINE names == [list EXCEPT ![i] = list[i + 1], ![i + 1] = list[i]]
  <2>1. names \in Seq(Projects)
    <3>1. list \in Seq(Projects) /\ i \in DOMAIN list /\ i + 1 \in DOMAIN list
      BY <1>7 DEF WorkTypes, move
    <3> QED  BY <3>1
  <2>2. /\ requests' = Append(requests, Request("reorder", names)) /\ strips' \in [Projects -> Record]
        /\ UNCHANGED <<stored, loaded, written, saves, onDisk>>
        /\ Render(names, activeName, current)
    BY <1>7 DEF move, WorkTypes, saveVars
  <2> HIDE DEF names
  <2>3. /\ requests' \in Seq(Requested)
        /\ \A j \in DOMAIN requests' : RequestOk(requests'[j])
    BY <2>1, <2>2, RequestTyped DEF RequestOk, Request
  <2> QED  BY <2>1, <2>2, <2>3, Rendered DEF WorkTypes
<1>8. ASSUME NEW i \in DOMAIN requests, PerformRequest(i) PROVE WorkTypes'
  <2>1. /\ UNCHANGED <<list, activeName, loaded, hydrating, strips, current, written, saves, onDisk>>
        /\ \/ /\ accepts(requests[i]) /\ stored' = effect(requests[i])
              /\ requests' = [requests EXCEPT ![i].got = effect(requests[i])]
           \/ stored' = stored /\ requests' = [requests EXCEPT ![i].got = Failed]
    BY <1>8 DEF PerformRequest, Performed, saveVars
  <2>2. PICK got \in Seq(Projects) \cup {Failed} : requests' = [requests EXCEPT ![i].got = got]
    BY <2>1, EffectTyped
  <2>3. /\ requests' \in Seq(Requested)
        /\ \A j \in DOMAIN requests' : RequestOk(requests'[j])
    BY <2>2, RequestAnswered
  <2>4. stored' \in Seq(Projects)
    BY <2>1, EffectTyped DEF WorkTypes
  <2> QED  BY <2>1, <2>3, <2>4 DEF WorkTypes
<1>9. ASSUME NEW i \in DOMAIN requests, DeliverRequest(i) PROVE WorkTypes'
  <2> DEFINE r == requests[i]
             shown == IF r.got # Failed /\ r.kind \in {"list", "reorder"} THEN r.got ELSE list
             added == IF r.kind = "add" THEN r.arg ELSE None
             reload == IF reloads(r) THEN <<Request("list", added)>> ELSE <<>>
  <2>1. /\ r.got # None /\ requests' = RemoveAt(requests, i) \o reload
        /\ UNCHANGED <<stored, loaded, written, saves, onDisk, strips>>
        /\ Render(shown, selection(r), current)
    BY <1>9 DEF DeliverRequest, saveVars
  <2>2. /\ r \in Requested /\ list \in Seq(Projects) /\ activeName \in Projects \cup {None}
        /\ RequestOk(r)
    BY DEF WorkTypes
  <2>3. /\ shown \in Seq(Projects) /\ added \in Projects \cup {None}
        /\ reload \in {<<>>, <<Request("list", added)>>}
    BY <2>1, <2>2 DEF Requested, RequestOk
  <2>4. selection(r) \in Projects \cup {None}
    <3>1. CASE r.kind = "list" /\ r.arg = None /\ r.got # Failed
      <4>1. r.got \in Seq(Projects)
        BY <2>1, <2>2, <3>1 DEF Requested
      <4>2. selectionAfterReload(r.got) \in Projects \cup {None}
        BY <2>2, <4>1 DEF selectionAfterReload
      <4> QED  BY <3>1, <4>2 DEF selection
    <3> QED  BY <2>2, <3>1 DEF selection, RequestOk
  <2> HIDE DEF r, shown, added, reload
  <2>5. requests' \in Seq(Requested) /\ \A j \in DOMAIN requests' : RequestOk(requests'[j])
    BY <2>1, <2>3, RequestTaken
  <2> QED  BY <2>1, <2>3, <2>4, <2>5, Rendered DEF WorkTypes
<1>10. ASSUME NEW i \in DOMAIN saves, DeliverSave(i) PROVE WorkTypes'
  <2>1. saves' \in Seq(State)
    BY <1>10, RemovedElements DEF DeliverSave, WorkTypes
  <2> QED  BY <1>10, <2>1 DEF DeliverSave, WorkTypes, listVars
<1>11. CASE SaveSession
  <2>1. saves' \in Seq(State)
    BY <1>11, AppendedElements DEF SaveSession, WorkTypes
  <2> QED  BY <1>11, <2>1 DEF SaveSession, WorkTypes, listVars
<1>12. CASE UNCHANGED workVars
  BY <1>12 DEF workVars, WorkTypes
<1> QED  BY <1>1, <1>2, <1>3, <1>4, <1>5, <1>6, <1>7, <1>8, <1>9, <1>10, <1>11, <1>12,
            HydrateTypes DEF WorkNext

(* WorkTypes is an invariant.                                              *)
LEMMA WorkTypesInit ==
  ASSUME WorkInit
  PROVE  WorkTypes
<1>1. <<Request("list", None)>> \in Seq(Requested) /\ RequestOk(Request("list", None))
  BY DEF Request, Requested, RequestOk
<1>2. emptySession \in State
  BY DEF emptySession, State
<1>3. [p \in Projects |-> Nothing] \in [Projects -> Record]
  BY DEF Nothing, Record
<1> QED  BY <1>1, <1>2, <1>3, WorkbenchAssumption DEF WorkInit, WorkTypes

(* QuietStripIsRegistry, strengthened: a strip that differs from the       *)
(* registry has a call under way that will show its order or have the list *)
(* read again.                                                             *)
Corrects(r) ==
  \/ r.kind \in {"list", "reorder"}
  \/ r.got \notin {None, Failed}

StripKnown ==
  \/ outdated \/ list = stored
  \/ \E i \in DOMAIN requests : Corrects(requests[i])

LEMMA StripStep ==
  ASSUME WorkTypes, StripKnown, [WorkNext]_workVars
  PROVE  StripKnown'
<1>1. ASSUME UNCHANGED <<stored, outdated, list, requests>> PROVE StripKnown'
  BY <1>1 DEF StripKnown
<1>2. ASSUME UNCHANGED <<stored, outdated, list>>, NEW kind \in {"list", "add", "remove", "reorder"},
             NEW arg \in Projects, requests' = Append(requests, Request(kind, arg)),
             RequestOk(Request(kind, arg))
      PROVE  StripKnown'
  <2>1. \A i \in DOMAIN requests : i \in DOMAIN requests' /\ requests'[i] = requests[i]
    BY <1>2, RequestTyped
  <2> QED  BY <1>2, <2>1 DEF StripKnown
<1>3. CASE LoadSession
  BY <1>1, <1>3 DEF LoadSession, listVars, Render
<1>4. ASSUME NEW tabs, Work(tabs) PROVE StripKnown'
  BY <1>1, <1>4 DEF Work, listVars, Render
<1>5. ASSUME NEW p \in Projects, ShellEndsWell(p) \/ selectProject(p) PROVE StripKnown'
  BY <1>1, <1>5 DEF ShellEndsWell, selectProject, listVars, Render
<1>6. ASSUME NEW p \in Projects, commitAdd(p) PROVE StripKnown'
  <2>1. UNCHANGED <<stored, outdated, list>> /\ requests' = Append(requests, Request("add", p))
    BY <1>6 DEF commitAdd, Render
  <2> QED  BY <1>2, <2>1 DEF RequestOk, Request
<1>7. ASSUME NEW p \in Projects, remove(p) PROVE StripKnown'
  <2>1. UNCHANGED <<stored, outdated, list>> /\ requests' = Append(requests, Request("remove", p))
    BY <1>7 DEF remove, Render
  <2> QED  BY <1>2, <2>1 DEF RequestOk, Request
<1>8. ASSUME NEW i \in DOMAIN list, move(i) PROVE StripKnown'
  <2>1. PICK names : requests' = Append(requests, Request("reorder", names))
    BY <1>8 DEF move
  <2>2. requests'[Len(requests) + 1].kind = "reorder" /\ Len(requests) + 1 \in DOMAIN requests'
    BY <2>1 DEF WorkTypes, Request
  <2> QED  BY <2>2 DEF StripKnown, Corrects
<1>9. ASSUME NEW i \in DOMAIN requests, PerformRequest(i) PROVE StripKnown'
  <2>1. /\ requests[i].got = None /\ UNCHANGED <<list, outdated>>
        /\ \/ /\ accepts(requests[i]) /\ stored' = effect(requests[i])
              /\ requests' = [requests EXCEPT ![i].got = effect(requests[i])]
           \/ stored' = stored /\ requests' = [requests EXCEPT ![i].got = Failed]
    BY <1>9 DEF PerformRequest, Performed
  <2>2. CASE /\ accepts(requests[i]) /\ stored' = effect(requests[i])
             /\ requests' = [requests EXCEPT ![i].got = effect(requests[i])]
    <3>1. effect(requests[i]) \in Seq(Projects)
      BY <2>2, EffectTyped
    <3>2. DOMAIN requests' = DOMAIN requests /\ requests'[i].got = effect(requests[i])
      BY <2>2, <3>1, RequestAnswered
    <3>3. requests'[i].got \notin {None, Failed}
      BY <3>1, <3>2, WorkbenchAssumption
    <3> QED  BY <3>2, <3>3 DEF StripKnown, Corrects
  <2>3. CASE stored' = stored /\ requests' = [requests EXCEPT ![i].got = Failed]
    <3>1. /\ DOMAIN requests' = DOMAIN requests /\ requests'[i].kind = requests[i].kind
          /\ \A j \in DOMAIN requests \ {i} : requests'[j] = requests[j]
      BY <2>3, RequestAnswered
    <3> QED  BY <2>1, <2>3, <3>1 DEF StripKnown, Corrects
  <2> QED  BY <2>1, <2>2, <2>3
<1>10. ASSUME NEW i \in DOMAIN requests, DeliverRequest(i) PROVE StripKnown'
  <2> DEFINE r == requests[i]
             isShown == r.got # Failed /\ r.kind \in {"list", "reorder"}
             added == IF r.kind = "add" THEN r.arg ELSE None
             reload == IF reloads(r) THEN <<Request("list", added)>> ELSE <<>>
  <2>1. /\ r.got # None /\ requests' = RemoveAt(requests, i) \o reload /\ stored' = stored
        /\ outdated' = IF isShown THEN r.got # stored ELSE (outdated \/ (r.kind = "list"))
        /\ list' = IF isShown THEN r.got ELSE list
    BY <1>10 DEF DeliverRequest, Render
  <2>2. r \in Requested /\ RequestOk(r) /\ r.kind \in {"list", "add", "remove", "reorder"}
    <3>1. r \in Requested /\ RequestOk(r)
      BY DEF WorkTypes
    <3> QED  BY <3>1 DEF Requested
  <2>3. added \in Projects \cup {None} /\ reload \in {<<>>, <<Request("list", added)>>}
    BY <2>2 DEF RequestOk
  <2>4. reloads(r) => reload # <<>>
    OBVIOUS
  <2> HIDE DEF added, reload
  <2>5. /\ \A m \in DOMAIN requests \ {i} : \E j \in DOMAIN requests' : requests'[j] = requests[m]
        /\ reload # <<>> => \E j \in DOMAIN requests' : requests'[j] = Request("list", added)
    BY <2>1, <2>3, RequestTaken
  <2>6. CASE isShown
    BY <2>1, <2>6 DEF StripKnown
  <2>7. CASE reloads(r)
    BY <2>4, <2>5, <2>7 DEF StripKnown, Corrects, Request
  <2>8. CASE ~isShown /\ ~reloads(r)
    <3>1. r.kind = "list" \/ ~Corrects(r)
      BY <2>1, <2>2, <2>8 DEF reloads, Corrects
    <3>2. CASE r.kind = "list"
      BY <2>1, <2>8, <3>2 DEF StripKnown
    <3>3. CASE ~Corrects(r)
      BY <2>1, <2>5, <2>8, <3>3 DEF StripKnown
    <3> QED  BY <3>1, <3>2, <3>3
  <2> QED  BY <2>6, <2>7, <2>8
<1>11. ASSUME NEW i, Hydrate(i) \/ DeliverSave(i) PROVE StripKnown'
  BY <1>1, <1>11 DEF Hydrate, DeliverSave, listVars
<1>12. CASE SaveSession \/ UNCHANGED workVars
  BY <1>1, <1>12 DEF SaveSession, workVars, listVars
<1> QED  BY <1>3, <1>4, <1>5, <1>6, <1>7, <1>8, <1>9, <1>10, <1>11, <1>12 DEF WorkNext

(* Once no registry call is under way the strip isShown what is on disk, in  *)
(* its order, unless the list could not be read or an older answer came    *)
(* last.                                                                   *)
THEOREM QuietStrip == WorkSpec => []QuietStripIsRegistry
<1>1. WorkInit => WorkTypes /\ StripKnown
  <2> SUFFICES ASSUME WorkInit PROVE StripKnown
    BY WorkTypesInit
  <2>1. requests = <<Request("list", None)>>
    BY DEF WorkInit
  <2>2. 1 \in DOMAIN requests /\ requests[1].kind = "list"
    BY <2>1 DEF Request
  <2> QED  BY <2>2 DEF StripKnown, Corrects
<1>2. WorkTypes /\ StripKnown /\ [WorkNext]_workVars => (WorkTypes /\ StripKnown)'
  BY WorkTypesStep, StripStep
<1>3. StripKnown => QuietStripIsRegistry
  BY DEF StripKnown, QuietStripIsRegistry
<1> QED  BY <1>1, <1>2, <1>3, PTL DEF WorkSpec

(* SavedIsShown, strengthened: the tabs on screen are recorded, a record   *)
(* that has changed has its write due, and the newest write under way, or  *)
(* the file when there is none, is what was last written.                  *)
ScreenRecorded ==
  (loaded # None /\ activeName \in hydrated \cap Range(list)) =>
    current.projects[activeName] = strips[activeName]

ChangeIsDue == (loaded # None /\ ~timer) => current = written

WriteIsNewest ==
  /\ loaded = None => saves = <<>> /\ ~timer
  /\ (loaded # None /\ ~unsaved) =>
       IF saves = <<>> THEN written \in {onDisk, emptySession}
       ELSE saves[Len(saves)] = written

SaveInv == ScreenRecorded /\ ChangeIsDue /\ WriteIsNewest

LEMMA RenderRecords ==
  ASSUME WorkTypes', NEW names, NEW chosen, NEW previous, Render(names, chosen, previous)
  PROVE  /\ ScreenRecorded' /\ ChangeIsDue'
         /\ (loaded' = None /\ ~timer) => ~timer'
<1>1. /\ list' = names /\ Recorded(previous, names, activeName')
  BY DEF Render
<1>2. ScreenRecorded'
  <2> SUFFICES ASSUME loaded' # None, activeName' \in hydrated' \cap Range(names)
               PROVE  current'.projects[activeName'] = strips'[activeName']
    BY <1>1 DEF ScreenRecorded
  <2>1. activeName' \in Projects
    BY <1>1 DEF WorkTypes, Range
  <2>2. current' = nextSession(previous, names, activeName')
    BY <1>1 DEF Recorded
  <2> QED  BY <2>1, <2>2 DEF nextSession, recordFor
<1>3. ChangeIsDue' /\ ((loaded' = None /\ ~timer) => ~timer')
  <2>1. timer' <=> (timer \/ (loaded' # None /\ current' # written'))
    BY <1>1, Zenon DEF Recorded
  <2> QED  BY <2>1 DEF ChangeIsDue
<1> QED  BY <1>2, <1>3

LEMMA SaveStep ==
  ASSUME WorkTypes, WorkTypes', SaveInv, [WorkNext]_workVars
  PROVE  SaveInv'
<1>1. ASSUME UNCHANGED <<loaded, written, saves, onDisk, unsaved>>,
             NEW names, NEW chosen, NEW previous, Render(names, chosen, previous)
      PROVE  SaveInv'
  BY <1>1, RenderRecords DEF SaveInv, WriteIsNewest
<1>2. CASE LoadSession
  <2>1. /\ loaded = None /\ loaded' \in {onDisk, emptySession} /\ written' = loaded'
        /\ UNCHANGED <<saves, onDisk, unsaved>> /\ Render(list, activeName, loaded')
    BY <1>2 DEF LoadSession, saveVars
  <2> QED  BY <2>1, RenderRecords DEF SaveInv, WriteIsNewest
<1>3. ASSUME NEW tabs, Work(tabs) PROVE SaveInv'
  BY <1>1, <1>3 DEF Work, saveVars
<1>4. ASSUME NEW p, ShellEndsWell(p) \/ selectProject(p) \/ commitAdd(p) \/ remove(p) PROVE SaveInv'
  BY <1>1, <1>4 DEF ShellEndsWell, selectProject, commitAdd, remove, saveVars
<1>5. ASSUME NEW i, move(i) PROVE SaveInv'
  BY <1>1, <1>5 DEF move, saveVars
<1>6. ASSUME NEW i, DeliverRequest(i) PROVE SaveInv'
  BY <1>1, <1>6 DEF DeliverRequest, saveVars
<1>7. ASSUME NEW i \in DOMAIN hydrating, Hydrate(i) PROVE SaveInv'
  <2>1. /\ UNCHANGED <<list, activeName, loaded, written, saves, onDisk, unsaved>>
        /\ Recorded(current, list, activeName)
    BY <1>7 DEF Hydrate, Hydration, saveVars
  <2>2. ScreenRecorded'
    <3> SUFFICES ASSUME loaded' # None, activeName' \in hydrated' \cap Range(list)
                 PROVE  current'.projects[activeName'] = strips'[activeName']
      BY <2>1 DEF ScreenRecorded
    <3>1. activeName' \in Projects
      BY DEF WorkTypes, Range
    <3>2. current' = nextSession(current, list, activeName')
      BY <2>1 DEF Recorded
    <3> QED  BY <3>1, <3>2 DEF nextSession, recordFor
  <2>3. ChangeIsDue' /\ ((loaded' = None /\ ~timer) => ~timer')
    <3>1. timer' <=> (timer \/ (loaded' # None /\ current' # written'))
      BY <2>1, Zenon DEF Recorded
    <3> QED  BY <3>1 DEF ChangeIsDue
  <2> QED  BY <2>1, <2>2, <2>3 DEF SaveInv, WriteIsNewest
<1>8. ASSUME NEW i, PerformRequest(i) PROVE SaveInv'
  BY <1>8 DEF PerformRequest, saveVars, SaveInv, ScreenRecorded, ChangeIsDue, WriteIsNewest
<1>9. CASE SaveSession
  <2>1. /\ timer /\ timer' = FALSE /\ written' = current /\ saves' = Append(saves, current)
        /\ UNCHANGED <<list, activeName, loaded, hydrated, strips, current>>
    BY <1>9 DEF SaveSession
  <2>2. loaded # None
    BY <2>1 DEF SaveInv, WriteIsNewest
  <2>3. saves' # <<>> /\ saves'[Len(saves')] = current
    <3>1. saves \in Seq(State) /\ current \in State
      BY DEF WorkTypes
    <3> QED  BY <2>1, <3>1
  <2> QED  BY <2>1, <2>2, <2>3 DEF SaveInv, ScreenRecorded, ChangeIsDue, WriteIsNewest
<1>10. ASSUME NEW i \in DOMAIN saves, DeliverSave(i) PROVE SaveInv'
  <2>1. /\ saves' = RemoveAt(saves, i)
        /\ UNCHANGED <<list, activeName, loaded, hydrated, strips, current, written, timer>>
        /\ \/ onDisk' = saves[i] /\ (unsaved' <=> unsaved \/ (i = Len(saves) /\ i > 1))
           \/ onDisk' = onDisk /\ (unsaved' <=> unsaved \/ i = Len(saves))
    BY <1>10, Zenon DEF DeliverSave
  <2>2. /\ saves \in Seq(State) /\ Len(saves) \in Nat /\ i \in 1 .. Len(saves) /\ saves # <<>>
        /\ Len(saves') = Len(saves) - 1 /\ DOMAIN saves' = 1 .. Len(saves) - 1
        /\ \A j \in DOMAIN saves' : saves'[j] = saves[IF j < i THEN j ELSE j + 1]
    <3>1. saves \in Seq(State)
      BY DEF WorkTypes
    <3>2. \A j \in DOMAIN saves' : LET m == IF j < i THEN j ELSE j + 1
                                  IN  m \in DOMAIN saves \ {i} /\ saves'[j] = saves[m]
      BY <2>1, <3>1, RemovedElements
    <3>3. Len(saves') = Len(saves) - 1 /\ DOMAIN saves' = 1 .. Len(saves) - 1
      BY <2>1, <3>1, RemovedElements
    <3> QED  BY <3>1, <3>2, <3>3
  <2>3. loaded # None
    BY <2>2 DEF SaveInv, WriteIsNewest
  <2>4. CASE i = Len(saves) /\ ~unsaved'
    <3>1. i = 1 /\ onDisk' = saves[Len(saves)] /\ ~unsaved
      BY <2>1, <2>2, <2>4
    <3>2. saves' = <<>>
      BY <2>2, <2>4, <3>1 DEF WorkTypes
    <3> QED  BY <2>1, <2>2, <2>3, <3>1, <3>2
             DEF SaveInv, ScreenRecorded, ChangeIsDue, WriteIsNewest
  <2>5. CASE i # Len(saves) /\ ~unsaved'
    <3>1. Len(saves') \in DOMAIN saves' /\ ~(Len(saves') < i) /\ Len(saves') + 1 = Len(saves)
      BY <2>2, <2>5
    <3>2. saves'[Len(saves')] = saves[Len(saves)] /\ saves' # <<>> /\ ~unsaved
      BY <2>1, <2>2, <2>5, <3>1
    <3> QED  BY <2>1, <2>2, <2>3, <3>2
             DEF SaveInv, ScreenRecorded, ChangeIsDue, WriteIsNewest
  <2>6. CASE unsaved'
    BY <2>1, <2>3, <2>6 DEF SaveInv, ScreenRecorded, ChangeIsDue, WriteIsNewest
  <2> QED  BY <2>4, <2>5, <2>6
<1>11. CASE UNCHANGED workVars
  BY <1>11 DEF workVars, SaveInv, ScreenRecorded, ChangeIsDue, WriteIsNewest
<1> QED  BY <1>2, <1>3, <1>4, <1>5, <1>6, <1>7, <1>8, <1>9, <1>10, <1>11 DEF WorkNext

(* Once no write is due or under way the file holds the tabs on screen,    *)
(* unless the newest save failed or an older one landed after it.          *)
THEOREM SavedAlwaysShown == WorkSpec => []SavedIsShown
<1>1. WorkInit => WorkTypes /\ SaveInv
  BY WorkTypesInit DEF WorkInit, SaveInv, ScreenRecorded, ChangeIsDue, WriteIsNewest
<1>2. WorkTypes /\ SaveInv /\ [WorkNext]_workVars => (WorkTypes /\ SaveInv)'
  BY WorkTypesStep, SaveStep
<1>3. WorkTypes /\ SaveInv => SavedIsShown
  <2> SUFFICES ASSUME WorkTypes, SaveInv, ~timer, saves = <<>>, ~unsaved, loaded # None,
                      activeName \in hydrated \cap Range(list)
               PROVE  onDisk.projects[activeName] = strips[activeName]
    BY DEF SavedIsShown
  <2>1. activeName \in Projects
    BY DEF WorkTypes, Range
  <2>2. /\ current = written /\ written \in {onDisk, emptySession}
        /\ current.projects[activeName] = strips[activeName]
    BY DEF SaveInv, ScreenRecorded, ChangeIsDue, WriteIsNewest
  <2>3. strips[activeName] # None
    BY <2>1, WorkbenchAssumption DEF WorkTypes
  <2>4. emptySession.projects[activeName] = None
    BY <2>1 DEF emptySession
  <2> QED  BY <2>2, <2>3, <2>4
<1> QED  BY <1>1, <1>2, <1>3, PTL DEF WorkSpec

-----------------------------------------------------------------------------
(* Blame, for any tabs, lines, edits and changes by other programs.        *)

BlameTypes ==
  /\ elsewhere \in Nat /\ apart \in BOOLEAN
  /\ worktree \in [Blamed -> Seq(Line)] /\ heads \in [Blamed -> Seq(Line)]
  /\ buffers \in [Blamed -> [content : Seq(Line), baseline : Seq(Line)]]
  /\ inFront \in Blamed \cup {None}
  /\ blaming \in [got : Seq(Commit) \cup {None, Failed}, apart : BOOLEAN] \cup {None}
  /\ blaming # None => inFront # None

(* Putting a line in or taking one out.                                    *)
LEMMA LineIn ==
  ASSUME NEW S, NEW s \in Seq(S), NEW e \in S, NEW i \in 1 .. Len(s) + 1
  PROVE  /\ InsertAt(s, i, e) \in Seq(S) /\ Len(InsertAt(s, i, e)) = Len(s) + 1
         /\ InsertAt(s, i, e)[i] = e
<1> DEFINE before == SubSeq(s, 1, i - 1)
           after  == SubSeq(s, i, Len(s))
<1>1. Len(s) \in Nat /\ i \in Int /\ \A j \in 1 .. Len(s) : s[j] \in S
  BY LenProperties, ElementOfSeq
<1>2. before \in Seq(S) /\ Len(before) = i - 1
  BY <1>1, SubSeqProperties
<1>3. after \in Seq(S) /\ Len(after) = Len(s) - i + 1
  BY <1>1, SubSeqProperties
<1>4. InsertAt(s, i, e) = (before \o <<e>>) \o after
  BY DEF InsertAt, before, after
<1> HIDE DEF before, after
<1>5. <<e>> \in Seq(S) /\ Len(<<e>>) = 1 /\ <<e>>[1] = e
  OBVIOUS
<1> DEFINE upto == before \o <<e>>
<1>6. /\ upto \in Seq(S) /\ Len(upto) = i /\ upto[i] = e
  <2>1. upto \in Seq(S) /\ Len(upto) = (i - 1) + 1
    BY <1>2, <1>5, ConcatProperties
  <2>2. i \in 1 .. Len(before) + Len(<<e>>) /\ ~(i <= Len(before))
    BY <1>1, <1>2, <1>5
  <2>3. upto[i] = <<e>>[i - Len(before)]
    BY <1>2, <1>5, <2>2, ConcatProperties
  <2>4. i - Len(before) = 1 /\ (i - 1) + 1 = i
    BY <1>1, <1>2
  <2> QED BY <1>5, <2>1, <2>3, <2>4
<1> HIDE DEF upto
<1>7. upto \o after \in Seq(S) /\ Len(upto \o after) = Len(s) + 1
  <2>1. upto \o after \in Seq(S) /\ Len(upto \o after) = Len(upto) + Len(after)
    BY <1>3, <1>6, ConcatProperties
  <2>2. Len(upto) + Len(after) = Len(s) + 1
    BY <1>1, <1>3, <1>6
  <2> QED BY <2>1, <2>2
<1>8. (upto \o after)[i] = upto[i]
  <2>1. i \in 1 .. Len(upto) + Len(after) /\ i <= Len(upto)
    BY <1>1, <1>3, <1>6
  <2> QED BY <1>3, <1>6, <2>1, ConcatProperties
<1>9. InsertAt(s, i, e) = upto \o after
  BY <1>4 DEF upto
<1> QED BY <1>1, <1>6, <1>7, <1>8, <1>9

LEMMA LineOut ==
  ASSUME NEW S, NEW s \in Seq(S), NEW i \in 1 .. Len(s)
  PROVE  RemoveAt(s, i) \in Seq(S) /\ Len(RemoveAt(s, i)) = Len(s) - 1
BY RemovedElements

(* Git says of each line what it is or nothing.                            *)
LEMMA AttributionIsCommits ==
  ASSUME NEW head, NEW lines \in Seq(Line)
  PROVE  attribution(head, lines) \in Seq(Commit)
<1>1. Len(lines) \in Nat /\ DOMAIN lines = 1 .. Len(lines) /\ \A i \in 1 .. Len(lines) : lines[i] \in Line
  BY LenProperties, ElementOfSeq
<1>2. attribution(head, lines) \in [1 .. Len(lines) -> Commit]
  BY <1>1 DEF attribution, Commit
<1> QED BY <1>1, <1>2, SeqDef

(* The answers a read can bring.                                           *)
LEMMA AnswersTyped ==
  ASSUME NEW commits \in Seq(Commit), NEW moved \in BOOLEAN
  PROVE  {[got |-> commits, apart |-> moved], [got |-> Failed, apart |-> FALSE]}
           \subseteq [got : Seq(Commit) \cup {None, Failed}, apart : BOOLEAN]
<1>1. [got |-> commits, apart |-> moved] \in [got : Seq(Commit) \cup {None, Failed}, apart : BOOLEAN]
  OBVIOUS
<1>2. [got |-> Failed, apart |-> FALSE] \in [got : Seq(Commit) \cup {None, Failed}, apart : BOOLEAN]
  OBVIOUS
<1> QED BY <1>1, <1>2

(* A stroke leaves lines, and never those it found.                        *)
LEMMA StrokeWrites ==
  ASSUME BlameTypes, Stroke
  PROVE  /\ inFront \in Blamed /\ UNCHANGED <<worktree, heads, inFront, blame, blaming, elsewhere, apart>>
         /\ \E lines \in Seq(Line) : \E moved :
              /\ Becomes(inFront, [buffers[inFront] EXCEPT !.content = lines], moved)
              /\ lines # buffers[inFront].content
<1> DEFINE tab   == buffers[inFront]
           here  == tab.content
           texts == ({Typed} \ Range(heads[inFront])) \cup (Range(tab.baseline) \ Range(tab.content))
           put(lines, moved) == Becomes(inFront, [tab EXCEPT !.content = lines], moved)
<1>1. /\ inFront \in Blamed /\ here \in Seq(Line) /\ tab.baseline \in Seq(Line)
      /\ UNCHANGED <<worktree, heads, inFront, blame, blaming, elsewhere, apart>>
  BY DEF Stroke, BlameTypes
<1>2. texts \subseteq Line
  <2>1. Range(tab.baseline) \subseteq Line
    BY <1>1, RangeOfSeq
  <2>2. Typed \in Line
    BY DEF Typed, Line
  <2> QED BY <2>1, <2>2
<1>3. Len(here) \in Nat /\ DOMAIN here = 1 .. Len(here)
  BY <1>1, LenProperties
<1>4. \/ \E i \in 1 .. Len(here) + 1, text \in texts :
            put(InsertAt(here, i, text), inserted(marks[inFront].anchors, i))
      \/ \E i \in DOMAIN here :
            \/ put(RemoveAt(here, i), deleted(marks[inFront].anchors, here, i))
            \/ \E text \in texts \ {here[i]} : put([here EXCEPT ![i] = text], marks[inFront].anchors)
  BY DEF Stroke
<1> HIDE DEF tab, here, texts, put
<1>5. \E lines \in Seq(Line) : \E moved : put(lines, moved) /\ lines # here
  <2>1. ASSUME NEW i \in 1 .. Len(here) + 1, NEW text \in texts
        PROVE  InsertAt(here, i, text) \in Seq(Line) /\ InsertAt(here, i, text) # here
    <3>1. InsertAt(here, i, text) \in Seq(Line) /\ Len(InsertAt(here, i, text)) = Len(here) + 1
      BY <1>1, <1>2, LineIn DEF here
    <3> QED BY <1>3, <3>1
  <2>2. ASSUME NEW i \in DOMAIN here
        PROVE  RemoveAt(here, i) \in Seq(Line) /\ RemoveAt(here, i) # here
    <3>1. RemoveAt(here, i) \in Seq(Line) /\ Len(RemoveAt(here, i)) = Len(here) - 1
      BY <1>1, <1>3, LineOut
    <3> QED BY <1>3, <3>1
  <2>3. ASSUME NEW i \in DOMAIN here, NEW text \in texts \ {here[i]}
        PROVE  [here EXCEPT ![i] = text] \in Seq(Line) /\ [here EXCEPT ![i] = text] # here
    <3>1. i \in 1 .. Len(here) /\ text \in Line
      BY <1>2, <1>3
    <3>2. [here EXCEPT ![i] = text] \in Seq(Line) /\ [here EXCEPT ![i] = text][i] = text
      BY <1>1, <3>1, ExceptSeq
    <3> QED BY <3>2
  <2> QED BY <1>4, <2>1, <2>2, <2>3
<1> QED BY <1>1, <1>5 DEF put, tab, here

(* What another program leaves on disk are lines, and nothing else changes.*)
LEMMA OutsideWrites ==
  ASSUME BlameTypes, NEW y \in Blamed, WriteOutside(y)
  PROVE  /\ UNCHANGED <<heads, buffers, inFront, blame, blaming, marks, apart>> /\ elsewhere' \in Nat
         /\ worktree' \in [Blamed -> Seq(Line)]
<1> DEFINE lines == worktree[y]
           new   == Foreign(elsewhere')
           texts == {InsertAt(lines, i, new) : i \in 1 .. Len(lines) + 1}
                      \cup {RemoveAt(lines, i) : i \in DOMAIN lines}
                      \cup {[lines EXCEPT ![i] = new] : i \in DOMAIN lines}
                      \cup {buffers[y].baseline, heads[y]}
<1>0. elsewhere' = elsewhere + 1 /\ elsewhere \in Nat
  BY DEF WriteOutside, BlameTypes
<1>a. elsewhere' \in Nat
  BY <1>0
<1>b. UNCHANGED <<heads, buffers, inFront, blame, blaming, marks, apart>>
  BY DEF WriteOutside
<1>c. \E text \in texts : worktree' = [worktree EXCEPT ![y] = text]
  BY Zenon DEF WriteOutside
<1>1. /\ UNCHANGED <<heads, buffers, inFront, blame, blaming, marks, apart>> /\ elsewhere' \in Nat
      /\ \E text \in texts : worktree' = [worktree EXCEPT ![y] = text]
  BY <1>a, <1>b, <1>c
<1>2. lines \in Seq(Line) /\ heads[y] \in Seq(Line) /\ buffers[y].baseline \in Seq(Line)
  BY DEF BlameTypes
<1>3. new \in Line
  BY <1>1 DEF Foreign, Line
<1>4. DOMAIN lines = 1 .. Len(lines)
  BY <1>2, LenProperties
<1> HIDE DEF lines, new
<1>5. \A i \in 1 .. Len(lines) + 1 : InsertAt(lines, i, new) \in Seq(Line)
  BY <1>2, <1>3, LineIn
<1>6. \A i \in DOMAIN lines : RemoveAt(lines, i) \in Seq(Line)
  BY <1>2, <1>4, LineOut
<1>7. \A i \in DOMAIN lines : [lines EXCEPT ![i] = new] \in Seq(Line)
  BY <1>2, <1>3, <1>4, ExceptSeq
<1>8. texts \subseteq Seq(Line)
  BY <1>2, <1>5, <1>6, <1>7
<1> HIDE DEF texts
<1>9. worktree' \in [Blamed -> Seq(Line)]
  BY <1>1, <1>8 DEF BlameTypes
<1> QED BY <1>1, <1>9

(* A tab adopts what is on disk, as its content or as its baseline only.   *)
LEMMA AdoptionTakesDisk ==
  ASSUME BlameTypes, NEW y \in Blamed, AdoptDisk(y)
  PROVE  /\ UNCHANGED <<worktree, heads, inFront, blame, elsewhere, apart>> /\ Reread(y)
         /\ \E tab \in [content : Seq(Line), baseline : Seq(Line)] :
              \/ /\ tab.content = worktree[y]
                 /\ Becomes(y, tab, replaced(marks[y].anchors, worktree[y]))
              \/ /\ ~blameIsCurrent(buffers[y])
                 /\ Becomes(y, tab, marks[y].anchors)
<1>1. /\ UNCHANGED <<worktree, heads, inFront, blame, elsewhere, apart>> /\ Reread(y)
      /\ worktree[y] \in Seq(Line) /\ buffers[y] \in [content : Seq(Line), baseline : Seq(Line)]
  BY DEF AdoptDisk, BlameTypes
<1>2. CASE Becomes(y, [content |-> worktree[y], baseline |-> worktree[y]],
                   replaced(marks[y].anchors, worktree[y]))
  <2> DEFINE tab == [content |-> worktree[y], baseline |-> worktree[y]]
  <2>1. tab \in [content : Seq(Line), baseline : Seq(Line)] /\ tab.content = worktree[y]
    BY <1>1
  <2> QED BY <1>1, <1>2, <2>1
<1>3. CASE /\ ~blameIsCurrent(buffers[y])
           /\ Becomes(y, [buffers[y] EXCEPT !.baseline = worktree[y]], marks[y].anchors)
  <2> DEFINE tab == [buffers[y] EXCEPT !.baseline = worktree[y]]
  <2>1. tab \in [content : Seq(Line), baseline : Seq(Line)]
    BY <1>1
  <2> QED BY <1>1, <1>3, <2>1
<1> QED BY <1>2, <1>3 DEF AdoptDisk

LEMMA BlameTypesCorrect == BlameSpec => []BlameTypes
<1>1. BlameInit => BlameTypes
  <2> SUFFICES ASSUME BlameInit PROVE BlameTypes
    OBVIOUS
  <2> DEFINE head(y) == [n \in 1 .. HeadLines |-> <<y, n>>]
  <2>1. ASSUME NEW y \in Blamed PROVE head(y) \in Seq(Line)
    <3>1. head(y) \in [1 .. HeadLines -> Line]
      BY BlameAssumption DEF Line
    <3> QED BY <3>1, BlameAssumption, SeqDef
  <2>2. /\ elsewhere = 0 /\ inFront = None /\ blaming = None /\ apart = FALSE
        /\ worktree = [y \in Blamed |-> head(y)] /\ heads = worktree
        /\ buffers = [y \in Blamed |-> [content |-> head(y), baseline |-> head(y)]]
    BY DEF BlameInit
  <2> HIDE DEF head
  <2> QED BY <2>1, <2>2 DEF BlameTypes
<1>2. BlameTypes /\ [BlameNext]_blameVars => BlameTypes'
  <2> SUFFICES ASSUME BlameTypes, [BlameNext]_blameVars PROVE BlameTypes'
    OBVIOUS
  <2>1. CASE Stroke
    <3>1. PICK lines \in Seq(Line) : \E moved :
            Becomes(inFront, [buffers[inFront] EXCEPT !.content = lines], moved)
      BY <2>1, StrokeWrites
    <3>2. inFront \in Blamed /\ UNCHANGED <<worktree, heads, inFront, blaming, elsewhere, apart>>
      BY <2>1, StrokeWrites
    <3>3. buffers' = [buffers EXCEPT ![inFront] = [buffers[inFront] EXCEPT !.content = lines]]
      BY <3>1 DEF Becomes
    <3> QED BY <3>2, <3>3, ZenonT(60) DEF BlameTypes
  <2>2. CASE SaveBuffer
    BY <2>2 DEF SaveBuffer, Becomes, Reread, unanswered, BlameTypes
  <2>3. CASE readBlame
    <3> DEFINE mine  == attribution(heads[inFront], worktree[inFront])
               moved == worktree[inFront] # buffers[inFront].baseline
    <3>1. /\ UNCHANGED <<worktree, heads, buffers, inFront, elsewhere, apart>> /\ blaming # None
          /\ blaming' \in {[got |-> mine, apart |-> moved],
                          [got |-> Failed, apart |-> FALSE]}
      BY <2>3 DEF readBlame
    <3>2. mine \in Seq(Commit)
      BY <3>1, AttributionIsCommits DEF BlameTypes
    <3>3. moved \in BOOLEAN
      OBVIOUS
    <3> HIDE DEF mine, moved
    <3>4. blaming' \in [got : Seq(Commit) \cup {None, Failed}, apart : BOOLEAN]
      BY <3>1, <3>2, <3>3, AnswersTyped
    <3> QED BY <3>1, <3>4 DEF BlameTypes
  <2>4. CASE DeliverBlame
    BY <2>4 DEF DeliverBlame, BlameTypes
  <2>5. ASSUME NEW y \in Blamed \cup {None}, Present(y) PROVE BlameTypes'
    BY <2>5 DEF Present, unanswered, BlameTypes
  <2>6. ASSUME NEW y \in Blamed, WriteOutside(y) PROVE BlameTypes'
    BY <2>6, OutsideWrites DEF BlameTypes
  <2>7. ASSUME NEW y \in Blamed, AdoptDisk(y) PROVE BlameTypes'
    <3>1. UNCHANGED <<worktree, heads, inFront, elsewhere, apart>> /\ Reread(y)
      BY <2>7, AdoptionTakesDisk
    <3>2. PICK tab \in [content : Seq(Line), baseline : Seq(Line)] :
            \E moved : Becomes(y, tab, moved)
      BY <2>7, AdoptionTakesDisk
    <3> QED BY <3>1, <3>2, BlameAssumption, SMTT(30) DEF Becomes, Reread, unanswered, BlameTypes
  <2>8. ASSUME NEW y \in Blamed, CommitOutside(y) PROVE BlameTypes'
    <3>1. /\ UNCHANGED <<worktree, buffers, inFront>> /\ elsewhere' = elsewhere + 1
          /\ heads' = [heads EXCEPT ![y] = worktree[y]] /\ apart' = (apart \/ y = inFront)
          /\ blaming' = IF y = inFront /\ blaming # None
                        THEN [blaming EXCEPT !.apart = blaming.got # None] ELSE blaming
      BY <2>8 DEF CommitOutside
    <3>2. heads' \in [Blamed -> Seq(Line)] /\ elsewhere' \in Nat
      BY <3>1 DEF BlameTypes
    <3>3. apart' \in BOOLEAN
      BY <3>1
    <3>4. /\ blaming' \in [got : Seq(Commit) \cup {None, Failed}, apart : BOOLEAN] \cup {None}
          /\ blaming' # None => blaming # None
      BY <3>1 DEF BlameTypes
    <3> QED BY <3>1, <3>2, <3>3, <3>4 DEF BlameTypes
  <2>9. CASE UNCHANGED blameVars
    BY <2>9 DEF blameVars, BlameTypes
  <2> QED BY <2>1, <2>2, <2>3, <2>4, <2>5, <2>6, <2>7, <2>8, <2>9 DEF BlameNext
<1> QED BY <1>1, <1>2, PTL DEF BlameSpec

(* What the editors draw, while the blame held is of the file as it is.    *)
GutterShape ==
  /\ marks = [y \in Blamed |-> marks[y]]
  /\ \A y \in Blamed : marks[y] = [installed |-> marks[y].installed, anchors |-> marks[y].anchors]

(* A buffer that matches its baseline shows nothing when no blame is held  *)
(* for it, and the blame held once nothing is being read.                  *)
PlainElsewhere ==
  \A y \in Blamed :
    blameIsCurrent(buffers[y]) /\ (y # inFront \/ blame = None) => marks[y] = unmarked(buffers[y].content)

DrawnInFront ==
  inFront # None /\ blaming = None /\ blameIsCurrent(buffers[inFront])
    => marks[inFront] = marksFor(blame, buffers[inFront].content)

(* What git has answered is about the lines the tab on screen knows of, as *)
(* they are committed, unless it is known to be otherwise.                 *)
OwnBlame == attribution(heads[inFront], buffers[inFront].baseline)

HeldIsOwn ==
  inFront # None =>
    IF blaming = None THEN apart \/ blame \in {None, OwnBlame}
    ELSE blaming.apart \/ blaming.got \in {None, Failed, OwnBlame}

GutterInv == BlameTypes /\ GutterShape /\ PlainElsewhere /\ DrawnInFront /\ HeldIsOwn

(* The tab y becomes tab: either it does not match its baseline, or it did *)
(* before, or the blame held is anchored to it.                            *)
LEMMA BecomesDraws ==
  ASSUME GutterShape, NEW y \in Blamed, NEW tab, NEW moved, Becomes(y, tab, moved),
         buffers \in [Blamed -> [content : Seq(Line), baseline : Seq(Line)]]
  PROVE  /\ GutterShape'
         /\ buffers'[y] = tab
         /\ \A z \in Blamed \ {y} : buffers'[z] = buffers[z] /\ marks'[z] = marks[z]
         /\ blameIsCurrent(tab) /\ ~blameIsCurrent(buffers[y])
              => marks'[y] = marksFor(IF y = inFront THEN blame ELSE None, tab.content)
         /\ blameIsCurrent(tab) /\ blameIsCurrent(buffers[y])
              => marks'[y] = [installed |-> marks[y].installed, anchors |-> moved]
<1> DEFINE mine == IF y = inFront THEN blame ELSE None
           drawn == IF blameIsCurrent(tab) /\ ~blameIsCurrent(buffers[y])
                    THEN marksFor(mine, tab.content) ELSE [marks[y] EXCEPT !.anchors = moved]
<1>1. buffers' = [buffers EXCEPT ![y] = tab] /\ marks' = [marks EXCEPT ![y] = drawn]
  BY DEF Becomes
<1>2. marks[y] = [installed |-> marks[y].installed, anchors |-> marks[y].anchors]
  BY DEF GutterShape
<1>3. [marks[y] EXCEPT !.anchors = moved] = [installed |-> marks[y].installed, anchors |-> moved]
  BY <1>2
<1>4. drawn = [installed |-> drawn.installed, anchors |-> drawn.anchors]
  BY <1>3 DEF marksFor, unmarked
<1> HIDE DEF drawn
<1>5. /\ marks' = [z \in Blamed |-> IF z = y THEN drawn ELSE marks[z]]
      /\ buffers' = [z \in Blamed |-> IF z = y THEN tab ELSE buffers[z]]
  BY <1>1 DEF GutterShape
<1>6. GutterShape'
  BY <1>4, <1>5 DEF GutterShape
<1>7. marks'[y] = drawn /\ buffers'[y] = tab
  BY <1>5
<1> QED BY <1>3, <1>5, <1>6, <1>7 DEF drawn

(* A document replaced whole under an editor that draws nothing leaves one *)
(* that draws nothing.                                                     *)
LEMMA ReplacedPlain ==
  ASSUME NEW S, NEW before \in Seq(S), NEW lines \in Seq(S)
  PROVE  [installed |-> unmarked(before).installed,
          anchors |-> replaced(unmarked(before).anchors, lines)] = unmarked(lines)
<1>1. /\ Len(before) \in Nat /\ DOMAIN before = 1 .. Len(before)
      /\ Len(lines) \in Nat /\ DOMAIN lines = 1 .. Len(lines)
  BY LenProperties
<1> DEFINE anchors == [i \in DOMAIN before |-> None]
<1>2. anchors # <<>> => anchors[1] = None
  <2>1. CASE Len(before) = 0
    BY <1>1, <2>1
  <2>2. CASE Len(before) # 0
    BY <1>1, <2>2
  <2> QED BY <2>1, <2>2
<1> HIDE DEF anchors
<1>3. replaced(anchors, lines) = [i \in DOMAIN lines |-> None]
  BY <1>2 DEF replaced
<1> QED BY <1>3 DEF unmarked, anchors

LEMMA GutterInvariant == BlameSpec => []GutterInv
<1>1. BlameInit /\ BlameTypes => GutterInv
  <2> SUFFICES ASSUME BlameInit, BlameTypes PROVE GutterInv
    OBVIOUS
  <2>1. \A y \in Blamed : marks[y] = unmarked(buffers[y].content)
    BY DEF BlameInit
  <2>2. inFront = None /\ GutterShape
    BY DEF BlameInit, GutterShape, unmarked
  <2> QED BY <2>1, <2>2 DEF GutterInv, PlainElsewhere, DrawnInFront, HeldIsOwn
<1>2. GutterInv /\ BlameTypes' /\ [BlameNext]_blameVars => GutterInv'
  <2> SUFFICES ASSUME GutterInv, BlameTypes', [BlameNext]_blameVars
               PROVE  GutterShape' /\ PlainElsewhere' /\ DrawnInFront' /\ HeldIsOwn'
    BY DEF GutterInv
  <2>a. /\ BlameTypes /\ GutterShape /\ PlainElsewhere /\ DrawnInFront /\ HeldIsOwn
        /\ buffers \in [Blamed -> [content : Seq(Line), baseline : Seq(Line)]]
        /\ worktree \in [Blamed -> Seq(Line)]
    BY DEF GutterInv, BlameTypes
  <2>b. /\ unanswered # None /\ unanswered.got = None /\ None \notin Blamed
        /\ heads \in [Blamed -> Seq(Line)] /\ apart \in BOOLEAN
    <3>1. unanswered \in [got : Seq(Commit) \cup {None, Failed}, apart : BOOLEAN]
      BY DEF unanswered
    <3> QED BY <2>a, <3>1, BlameAssumption DEF unanswered, BlameTypes
  <2>c. \A lines : marksFor(None, lines) = unmarked(lines)
    BY DEF marksFor
  <2>1. CASE Stroke
    <3>0. PICK lines \in Seq(Line) : \E moved :
            /\ Becomes(inFront, [buffers[inFront] EXCEPT !.content = lines], moved)
            /\ lines # buffers[inFront].content
      BY <2>a, <2>1, StrokeWrites
    <3>1. PICK moved :
            /\ Becomes(inFront, [buffers[inFront] EXCEPT !.content = lines], moved)
            /\ lines # buffers[inFront].content
      BY <3>0
    <3> DEFINE tab == [buffers[inFront] EXCEPT !.content = lines]
    <3>2. inFront \in Blamed /\ UNCHANGED <<worktree, heads, inFront, blame, blaming, apart>>
      BY <2>a, <2>1, StrokeWrites
    <3>3. /\ tab.content = lines /\ tab.baseline = buffers[inFront].baseline
          /\ blameIsCurrent(buffers[inFront]) => ~blameIsCurrent(tab)
      BY <2>a, <3>1, <3>2 DEF blameIsCurrent
    <3>4. Becomes(inFront, tab, moved)
      BY <3>1
    <3> HIDE DEF tab
    <3>5. /\ GutterShape' /\ buffers'[inFront] = tab
          /\ \A z \in Blamed \ {inFront} : buffers'[z] = buffers[z] /\ marks'[z] = marks[z]
          /\ blameIsCurrent(tab) => marks'[inFront] = marksFor(blame, tab.content)
      BY <2>a, <3>2, <3>3, <3>4, BecomesDraws
    <3>6. PlainElsewhere'
      BY <2>a, <2>c, <3>2, <3>5 DEF PlainElsewhere
    <3>7. DrawnInFront'
      BY <3>2, <3>5 DEF DrawnInFront
    <3>8. HeldIsOwn'
      BY <2>a, <3>2, <3>3, <3>5 DEF HeldIsOwn, OwnBlame
    <3> QED BY <3>5, <3>6, <3>7, <3>8
  <2>2. CASE SaveBuffer
    <3> DEFINE tab == [content |-> buffers[inFront].content, baseline |-> buffers[inFront].content]
    <3>1. /\ inFront \in Blamed /\ Becomes(inFront, tab, marks[inFront].anchors)
          /\ ~blameIsCurrent(buffers[inFront])
          /\ blaming' = unanswered /\ UNCHANGED <<inFront, blame>>
      BY <2>a, <2>2 DEF SaveBuffer, Reread, BlameTypes
    <3> HIDE DEF tab
    <3>2. /\ GutterShape' /\ buffers'[inFront] = tab
          /\ \A z \in Blamed \ {inFront} : buffers'[z] = buffers[z] /\ marks'[z] = marks[z]
          /\ blameIsCurrent(tab) => marks'[inFront] = marksFor(blame, tab.content)
      BY <2>a, <3>1, BecomesDraws
    <3>3. PlainElsewhere'
      BY <2>a, <2>c, <3>1, <3>2 DEF PlainElsewhere
    <3>4. DrawnInFront' /\ HeldIsOwn'
      BY <2>b, <3>1 DEF DrawnInFront, HeldIsOwn
    <3> QED BY <3>2, <3>3, <3>4
  <2>3. CASE readBlame
    <3> DEFINE mine  == attribution(heads[inFront], worktree[inFront])
               moved == worktree[inFront] # buffers[inFront].baseline
    <3>1. /\ UNCHANGED <<worktree, heads, buffers, inFront, blame, marks, apart>> /\ blaming # None
          /\ blaming' \in {[got |-> mine, apart |-> moved],
                          [got |-> Failed, apart |-> FALSE]}
      BY <2>3 DEF readBlame
    <3>2. inFront \in Blamed
      BY <2>a, <3>1 DEF BlameTypes
    <3>3. mine \in Seq(Commit)
      BY <2>a, <3>2, AttributionIsCommits
    <3>4. moved \in BOOLEAN /\ (~moved => mine = OwnBlame)
      BY DEF OwnBlame
    <3> HIDE DEF mine, moved
    <3>5. blaming' # None /\ (blaming'.apart \/ blaming'.got \in {Failed, OwnBlame})
      <4>1. blaming' \in [got : Seq(Commit) \cup {None, Failed}, apart : BOOLEAN]
        BY <3>1, <3>3, <3>4, AnswersTyped
      <4> QED BY <3>1, <3>4, <4>1, BlameAssumption
    <3>6. HeldIsOwn'
      BY <3>1, <3>5 DEF HeldIsOwn, OwnBlame
    <3> QED BY <2>a, <3>1, <3>5, <3>6 DEF GutterShape, PlainElsewhere, DrawnInFront
  <2>4. CASE DeliverBlame
    <3> DEFINE redraws == blameIsCurrent(buffers[inFront]) /\ (blame # None \/ blame' # None)
               drawn == IF redraws THEN marksFor(blame', buffers[inFront].content) ELSE marks[inFront]
    <3>1. /\ inFront \in Blamed /\ blaming # None /\ blaming.got # None /\ blaming' = None
          /\ UNCHANGED <<heads, buffers, inFront>> /\ apart' = blaming.apart
          /\ blame' = IF blaming.got = Failed THEN None ELSE blaming.got
          /\ marks' = [marks EXCEPT ![inFront] = drawn]
      BY <2>a, <2>4 DEF DeliverBlame, BlameTypes
    <3>2. drawn = [installed |-> drawn.installed, anchors |-> drawn.anchors]
      BY <2>a, <3>1 DEF GutterShape, marksFor, unmarked
    <3>3. blameIsCurrent(buffers[inFront]) => drawn = marksFor(blame', buffers[inFront].content)
      BY <2>a, <2>c, <3>1 DEF PlainElsewhere
    <3> HIDE DEF drawn, redraws
    <3>4. marks' = [z \in Blamed |-> IF z = inFront THEN drawn ELSE marks[z]]
      BY <2>a, <3>1 DEF GutterShape
    <3>5. GutterShape'
      BY <2>a, <3>2, <3>4 DEF GutterShape
    <3>6. PlainElsewhere'
      BY <2>a, <2>c, <3>1, <3>3, <3>4 DEF PlainElsewhere
    <3>7. DrawnInFront'
      BY <3>1, <3>3, <3>4 DEF DrawnInFront
    <3>8. HeldIsOwn'
      BY <2>a, <3>1 DEF HeldIsOwn, OwnBlame
    <3> QED BY <3>5, <3>6, <3>7, <3>8
  <2>5. ASSUME NEW y \in Blamed \cup {None}, Present(y)
        PROVE  GutterShape' /\ PlainElsewhere' /\ DrawnInFront' /\ HeldIsOwn'
    <3> DEFINE drawn(z) ==
          IF z \in {y, inFront} /\ blame # None /\ blameIsCurrent(buffers[z])
          THEN marksFor(IF z = y THEN blame ELSE None, buffers[z].content) ELSE marks[z]
    <3>1. /\ UNCHANGED <<worktree, buffers>> /\ inFront' = y /\ y # inFront
          /\ blame' = IF y = None THEN None ELSE blame
          /\ blaming' = IF y = None THEN None ELSE unanswered
          /\ marks' = [z \in Blamed |-> drawn(z)]
      BY <2>5 DEF Present
    <3>2. \A z \in Blamed : drawn(z) = [installed |-> drawn(z).installed, anchors |-> drawn(z).anchors]
      BY <2>a DEF GutterShape, marksFor, unmarked
    <3>3. \A z \in Blamed : blameIsCurrent(buffers[z]) /\ (z # y \/ blame' = None)
                              => drawn(z) = unmarked(buffers[z].content)
      BY <2>a, <2>b, <2>c, <3>1 DEF PlainElsewhere
    <3> HIDE DEF drawn
    <3>4. GutterShape'
      BY <3>1, <3>2 DEF GutterShape
    <3>5. PlainElsewhere'
      BY <3>1, <3>3 DEF PlainElsewhere
    <3>6. DrawnInFront' /\ HeldIsOwn'
      BY <2>b, <3>1 DEF DrawnInFront, HeldIsOwn
    <3> QED BY <3>4, <3>5, <3>6
  <2>6. ASSUME NEW y \in Blamed, WriteOutside(y)
        PROVE  GutterShape' /\ PlainElsewhere' /\ DrawnInFront' /\ HeldIsOwn'
    <3>1. UNCHANGED <<heads, buffers, inFront, blame, blaming, marks, apart>>
      BY <2>a, <2>6, OutsideWrites
    <3> QED BY <2>a, <3>1 DEF GutterShape, PlainElsewhere, DrawnInFront, HeldIsOwn, OwnBlame
  <2>7. ASSUME NEW y \in Blamed, AdoptDisk(y)
        PROVE  GutterShape' /\ PlainElsewhere' /\ DrawnInFront' /\ HeldIsOwn'
    <3>1. /\ UNCHANGED <<worktree, heads, inFront, blame, apart>>
          /\ blaming' = IF y = inFront THEN unanswered ELSE blaming
      BY <2>a, <2>7, AdoptionTakesDisk DEF Reread
    <3>2. PICK tab, moved :
            /\ Becomes(y, tab, moved)
            /\ \/ ~blameIsCurrent(buffers[y])
               \/ tab.content = worktree[y] /\ moved = replaced(marks[y].anchors, worktree[y])
      BY <2>a, <2>7, AdoptionTakesDisk
    <3>3. /\ GutterShape' /\ buffers'[y] = tab
          /\ \A z \in Blamed \ {y} : buffers'[z] = buffers[z] /\ marks'[z] = marks[z]
          /\ blameIsCurrent(tab) /\ ~blameIsCurrent(buffers[y])
               => marks'[y] = marksFor(IF y = inFront THEN blame ELSE None, tab.content)
          /\ blameIsCurrent(tab) /\ blameIsCurrent(buffers[y])
               => marks'[y] = [installed |-> marks[y].installed, anchors |-> moved]
      BY <2>a, <3>2, BecomesDraws
    <3>4. ASSUME blameIsCurrent(tab), y # inFront \/ blame = None
          PROVE  marks'[y] = unmarked(tab.content)
      <4>1. CASE ~blameIsCurrent(buffers[y])
        BY <2>c, <3>3, <3>4, <4>1
      <4>2. CASE blameIsCurrent(buffers[y])
        <5>1. /\ marks[y] = unmarked(buffers[y].content)
              /\ buffers[y].content \in Seq(Line) /\ worktree[y] \in Seq(Line)
          BY <2>a, <3>4, <4>2 DEF PlainElsewhere
        <5> QED BY <3>2, <3>3, <3>4, <4>2, <5>1, ReplacedPlain
      <4> QED BY <4>1, <4>2
    <3>5. PlainElsewhere'
      BY <2>a, <3>1, <3>3, <3>4 DEF PlainElsewhere
    <3>6. DrawnInFront' /\ HeldIsOwn'
      <4>1. CASE y = inFront
        BY <2>b, <3>1, <4>1 DEF DrawnInFront, HeldIsOwn
      <4>2. CASE y # inFront
        <5>1. inFront # None => inFront \in Blamed \ {y}
          BY <2>a, <4>2 DEF BlameTypes
        <5> QED BY <2>a, <3>1, <3>3, <4>2, <5>1 DEF DrawnInFront, HeldIsOwn, OwnBlame
      <4> QED BY <4>1, <4>2
    <3> QED BY <3>3, <3>5, <3>6
  <2>8. ASSUME NEW y \in Blamed, CommitOutside(y)
        PROVE  GutterShape' /\ PlainElsewhere' /\ DrawnInFront' /\ HeldIsOwn'
    <3>1. /\ UNCHANGED <<buffers, inFront, blame, marks>>
          /\ heads' = [heads EXCEPT ![y] = worktree[y]] /\ apart' = (apart \/ y = inFront)
          /\ blaming' = IF y = inFront /\ blaming # None
                        THEN [blaming EXCEPT !.apart = blaming.got # None] ELSE blaming
      BY <2>8 DEF CommitOutside
    <3>2. blaming' # None <=> blaming # None
      BY <2>a, <3>1, BlameAssumption DEF BlameTypes
    <3>3. HeldIsOwn'
      <4>1. CASE y # inFront
        <5>1. heads'[inFront] = heads[inFront]
          BY <2>b, <3>1, <4>1
        <5> QED BY <2>a, <3>1, <4>1, <5>1 DEF HeldIsOwn, OwnBlame
      <4>2. CASE y = inFront /\ blaming = None
        BY <3>1, <3>2, <4>2 DEF HeldIsOwn, OwnBlame
      <4>3. CASE y = inFront /\ blaming # None
        <5>1. blaming'.got = blaming.got /\ (blaming.got = None \/ blaming'.apart)
          BY <2>a, <3>1, <4>3 DEF BlameTypes
        <5> QED BY <3>1, <3>2, <4>3, <5>1 DEF HeldIsOwn, OwnBlame
      <4> QED BY <4>1, <4>2, <4>3
    <3> QED BY <2>a, <3>1, <3>2, <3>3 DEF GutterShape, PlainElsewhere, DrawnInFront
  <2>9. CASE UNCHANGED blameVars
    BY <2>a, <2>9 DEF blameVars, GutterShape, PlainElsewhere, DrawnInFront, HeldIsOwn, OwnBlame
  <2> QED BY <2>1, <2>2, <2>3, <2>4, <2>5, <2>6, <2>7, <2>8, <2>9 DEF BlameNext
<1> QED BY <1>1, <1>2, BlameTypesCorrect, PTL DEF BlameSpec

(* Once nothing is being read and the buffer on screen is what is on disk, *)
(* each line carries the name git gives it, for any tabs, files and edits, *)
(* and any writes and commits by other programs, but for the blame the hook*)
(* cannot know to be another's: read from a file that was put back before  *)
(* the tab noticed, or before a commit (useBlame's key, apart).            *)
THEOREM GutterAlwaysOwn == BlameSpec => []QuietBlameIsOwn
<1>1. GutterInv => QuietBlameIsOwn
  <2> SUFFICES ASSUME GutterInv, inFront # None, blaming = None, ~apart, blameIsCurrent(buffers[inFront]),
                      worktree[inFront] = buffers[inFront].baseline
               PROVE  LET lines == buffers[inFront].content IN
                      /\ marks[inFront].installed = (blame # None)
                      /\ \A i \in DOMAIN lines :
                           accountedFor(marks[inFront], lines, i) =
                             IF blame = None THEN None ELSE attribution(heads[inFront], lines)[i]
    BY DEF QuietBlameIsOwn
  <2> DEFINE lines == buffers[inFront].content
  <2>1. /\ lines = worktree[inFront] /\ inFront \in Blamed
        /\ marks[inFront] = marksFor(blame, lines) /\ blame \in {None, attribution(heads[inFront], lines)}
    BY DEF GutterInv, BlameTypes, DrawnInFront, HeldIsOwn, OwnBlame, blameIsCurrent
  <2>2. lines \in Seq(Line)
    BY <2>1 DEF GutterInv, BlameTypes
  <2>3. \A i \in DOMAIN lines : lines[i] \in Line
    BY <2>2, LenProperties, ElementOfSeq
  <2> HIDE DEF lines
  <2>4. CASE blame = None
    <3>1. marks[inFront].installed = FALSE /\ marks[inFront].anchors = [i \in DOMAIN lines |-> None]
      BY <2>1, <2>4 DEF marksFor, unmarked
    <3>2. \A i \in DOMAIN lines : accountedFor(marks[inFront], lines, i) = None
      BY <3>1 DEF accountedFor
    <3>3. \A i \in DOMAIN lines :
            accountedFor(marks[inFront], lines, i) = IF blame = None THEN None ELSE attribution(heads[inFront], lines)[i]
      BY <2>4, <3>2
    <3>4. marks[inFront].installed = (blame # None)
      BY <2>4, <3>1
    <3> QED BY <3>3, <3>4 DEF lines
  <2>5. CASE blame # None
    <3>1. blame = attribution(heads[inFront], lines) /\ DOMAIN blame = DOMAIN lines
      BY <2>1, <2>5 DEF attribution
    <3>2. \A i \in DOMAIN lines : blame[i] = IF lines[i] \in Range(heads[inFront]) THEN lines[i] ELSE None
      BY <3>1 DEF attribution
    <3>3. \A i \in DOMAIN lines : blame[i] # None => [text |-> lines[i], commit |-> blame[i]] # None
      BY <2>3, <3>2, BlameAssumption
    <3>4. /\ marks[inFront].installed = TRUE
          /\ marks[inFront].anchors =
               [i \in DOMAIN lines |-> IF blame[i] = None THEN None
                                       ELSE [text |-> lines[i], commit |-> blame[i]]]
      BY <2>1, <2>5, <3>1 DEF marksFor, commitAt
    <3>5. \A i \in DOMAIN lines : accountedFor(marks[inFront], lines, i) = blame[i]
      BY <3>3, <3>4 DEF accountedFor
    <3> HIDE DEF accountedFor, attribution
    <3>6. \A i \in DOMAIN lines : accountedFor(marks[inFront], lines, i) = attribution(heads[inFront], lines)[i]
      BY <3>1, <3>5
    <3>7. marks[inFront].installed = (blame # None)
      BY <2>1, <2>5, <3>4 DEF marksFor
    <3> QED BY <2>5, <3>6, <3>7 DEF lines
  <2> QED BY <2>4, <2>5 DEF lines
<1> QED BY <1>1, GutterInvariant, PTL

-----------------------------------------------------------------------------
(* The file tree.                                                          *)

Call == [root : Projects, dir : Dirs, got : Nat \cup {None, Failed}, outdated : BOOLEAN]

AskedTypes ==
  /\ trees \in [Projects -> TreeState \cup {None}] /\ calls \in Seq(Call)
  /\ behind \in [Projects -> SUBSET Dirs] /\ away \in [Projects -> SUBSET Dirs]

OtherTypes ==
  /\ root \in Projects \cup {None} /\ retained \in SUBSET Projects
  /\ edit \in Edit \cup {None}
  /\ batch \in SUBSET Dirs /\ (root = None => batch = {})
  /\ pending \in [Projects -> SUBSET Dirs] /\ version \in [Projects -> [Dirs -> Nat]]

TreeTypes == AskedTypes /\ OtherTypes

(* A tree is kept for a held project only.                                 *)
HeldTrees == \A r \in Projects : trees[r] # None => r \in retained

(* A change of d is still to be shown: it is unpublished, queued, or in    *)
(* one of the two histories.                                               *)
Due(r, d) == d \in pending[r] \/ (r = root /\ d \in batch) \/ d \in behind[r] \/ d \in away[r]

Asked(r, d) == \E i \in DOMAIN calls : calls[i].root = r /\ calls[i].dir = d

Tracked(r, d) == trees[r] # None /\ trees[r].dirs[d] # None

(* A call that nothing overtook belongs to a listing of the tree, and its  *)
(* answer is what the directory holds unless a change is due.              *)
CallCurrent(call) ==
  ~call.outdated =>
    /\ Tracked(call.root, call.dir)
    /\ call.got \in {None, Failed, version[call.root][call.dir]} \/ Due(call.root, call.dir)

CallsCurrent == \A i \in DOMAIN calls : CallCurrent(calls[i])

(* A listing shows what its directory holds, unless it is asked for, a     *)
(* change is due, or the listing failed.                                   *)
ListingCurrent(r, d) ==
  \/ Asked(r, d) \/ Due(r, d)
  \/ trees[r].dirs[d].status = "error"
  \/ trees[r].dirs[d].children = version[r][d]

ListingsCurrent == \A r \in Projects, d \in Dirs : Tracked(r, d) => ListingCurrent(r, d)

TreeInv == TreeTypes /\ HeldTrees /\ CallsCurrent /\ ListingsCurrent

LEMMA TreeForTyped ==
  ASSUME NEW r \in Projects, trees \in [Projects -> TreeState \cup {None}]
  PROVE  /\ treeFor(trees, r) \in TreeState
         /\ trees[r] # None => treeFor(trees, r) = trees[r]
         /\ trees[r] = None => \A d \in Dirs : treeFor(trees, r).dirs[d] = None
<1>1. initialTree \in TreeState /\ \A d \in Dirs : initialTree.dirs[d] = None
  BY DEF initialTree, TreeState, Dirs
<1>2. changedOnlyOf(trees) \in BOOLEAN
  BY DEF changedOnlyOf
<1>3. /\ [initialTree EXCEPT !.changedOnly = changedOnlyOf(trees)] \in TreeState
      /\ [initialTree EXCEPT !.changedOnly = changedOnlyOf(trees)].dirs = initialTree.dirs
  BY <1>1, <1>2 DEF TreeState
<1> QED  BY <1>1, <1>3 DEF treeFor

LEMMA StateTyped ==
  ASSUME TreeTypes, root # None
  PROVE  /\ root \in Projects /\ state = treeFor(trees, root) /\ state \in TreeState
         /\ trees[root] # None => state = trees[root]
         /\ trees[root] = None => \A d \in Dirs : state.dirs[d] = None
<1>1. root \in Projects /\ trees \in [Projects -> TreeState \cup {None}] /\ state = treeFor(trees, root)
  BY DEF TreeTypes, AskedTypes, OtherTypes, state
<1> QED  BY <1>1, TreeForTyped

(* Writing one tree leaves the listings of the others alone.               *)
LEMMA UpdatedTree ==
  ASSUME trees \in [Projects -> TreeState \cup {None}], NEW r \in Projects, NEW t \in TreeState,
         trees' = updateTree(trees, r, t)
  PROVE  /\ trees' \in [Projects -> TreeState \cup {None}]
         /\ r \in retained' => trees'[r] = t
         /\ r \notin retained' => trees' = trees
         /\ \A s \in Projects \ {r} :
              /\ (trees'[s] = None) <=> (trees[s] = None)
              /\ trees[s] # None => trees'[s].dirs = trees[s].dirs
<1>1. CASE r \notin retained'
  BY <1>1 DEF updateTree
<1>2. CASE r \in retained'
  <2>1. trees' = withTree(trees, r, t)
    BY <1>2 DEF updateTree
  <2>2. t.changedOnly \in BOOLEAN
    BY DEF TreeState
  <2>3. ASSUME NEW s \in Projects \ {r}, trees[s] # None
        PROVE  /\ [trees[s] EXCEPT !.changedOnly = t.changedOnly] \in TreeState
               /\ [trees[s] EXCEPT !.changedOnly = t.changedOnly].dirs = trees[s].dirs
    <3>1. trees[s] \in TreeState
      BY <2>3
    <3> QED  BY <2>2, <3>1 DEF TreeState
  <2>4. trees' = [s \in Projects |->
                 IF s = r THEN t ELSE IF trees[s] = None THEN None
                 ELSE [trees[s] EXCEPT !.changedOnly = t.changedOnly]]
    BY <2>1 DEF withTree
  <2>5. None \notin TreeState
    BY TreeAssumption
  <2>6. trees'[r] = t
    BY <2>4
  <2>7. ASSUME NEW s \in Projects \ {r}
        PROVE  /\ trees'[s] \in TreeState \cup {None}
               /\ (trees'[s] = None) <=> (trees[s] = None)
               /\ trees[s] # None => trees'[s].dirs = trees[s].dirs
    <3>1. CASE trees[s] = None
      BY <2>4, <3>1
    <3>2. CASE trees[s] # None
      <4>1. trees'[s] = [trees[s] EXCEPT !.changedOnly = t.changedOnly]
        BY <2>4, <3>2
      <4> QED  BY <2>3, <2>5, <3>2, <4>1
    <3> QED  BY <3>1, <3>2
  <2>8. trees' \in [Projects -> TreeState \cup {None}]
    <3>1. \A s \in Projects : trees'[s] \in TreeState \cup {None}
      BY <2>6, <2>7
    <3> QED  BY <2>4, <3>1
  <2> QED  BY <1>2, <2>6, <2>7, <2>8
<1> QED  BY <1>1, <1>2

LEMMA OutdatedCalls ==
  ASSUME NEW late, calls \in Seq(Call)
  PROVE  /\ Outdate(late) \in Seq(Call) /\ DOMAIN Outdate(late) = DOMAIN calls
         /\ \A i \in DOMAIN calls :
              /\ Outdate(late)[i].root = calls[i].root /\ Outdate(late)[i].dir = calls[i].dir
              /\ Outdate(late)[i].got = calls[i].got
              /\ ~Outdate(late)[i].outdated => ~calls[i].outdated /\ i \notin late
<1>1. ASSUME NEW i \in DOMAIN calls
      PROVE  /\ calls[i] \in Call
             /\ [calls[i] EXCEPT !.outdated = TRUE] \in Call
             /\ [calls[i] EXCEPT !.outdated = TRUE].root = calls[i].root
             /\ [calls[i] EXCEPT !.outdated = TRUE].dir = calls[i].dir
             /\ [calls[i] EXCEPT !.outdated = TRUE].got = calls[i].got
             /\ [calls[i] EXCEPT !.outdated = TRUE].outdated
  <2>1. calls[i] \in Call
    OBVIOUS
  <2> QED  BY <2>1 DEF Call
<1>2. Len(calls) \in Nat /\ DOMAIN calls = 1 .. Len(calls)
  OBVIOUS
<1>3. ASSUME NEW i \in DOMAIN calls
      PROVE  Outdate(late)[i] = IF i \in late THEN [calls[i] EXCEPT !.outdated = TRUE] ELSE calls[i]
  BY DEF Outdate
<1>4. DOMAIN Outdate(late) = DOMAIN calls
  BY DEF Outdate
<1>5. Outdate(late) \in [1 .. Len(calls) -> Call]
  BY <1>1, <1>2 DEF Outdate
<1>6. Outdate(late) \in Seq(Call)
  BY <1>2, <1>5
<1> QED  BY <1>1, <1>3, <1>4, <1>6

(* The calls after directories of r are listed: the old ones, outdated if *)
(* they are overtaken, and one for each directory.                         *)
LEMMA CallsOfList ==
  ASSUME TreeTypes, NEW r \in Projects, NEW dirs \in SUBSET Dirs,
         calls' = Overtake(r, dirs) \o SetToSeq({ListCall(r, d) : d \in dirs})
  PROVE  /\ calls' \in Seq(Call)
         /\ \A i \in DOMAIN calls :
              /\ i \in DOMAIN calls'
              /\ calls'[i].root = calls[i].root /\ calls'[i].dir = calls[i].dir
         /\ \A d \in dirs : \E i \in DOMAIN calls' : calls'[i].root = r /\ calls'[i].dir = d
         /\ \A i \in DOMAIN calls' :
              \/ \E d \in dirs : calls'[i] = ListCall(r, d)
              \/ /\ i \in DOMAIN calls
                 /\ calls'[i].root = calls[i].root /\ calls'[i].dir = calls[i].dir /\ calls'[i].got = calls[i].got
                 /\ ~calls'[i].outdated =>
                      /\ ~calls[i].outdated
                      /\ (calls[i].root = r /\ calls[i].dir \in dirs)
                           => calls[i].got \in {None, version'[r][calls[i].dir]}
<1> DEFINE new == {ListCall(r, d) : d \in dirs}
           old == Overtake(r, dirs)
<1>1. IsFiniteSet(new)
  <2>1. IsFiniteSet(Dirs)
    BY TreeAssumption, FS_AddElement DEF Dirs
  <2>2. IsFiniteSet(dirs)
    BY <2>1, FS_Subset
  <2>3. [d \in dirs |-> ListCall(r, d)] \in Surjection(dirs, new)
    BY DEF Surjection
  <2> QED  BY <2>2, <2>3, FS_Surjection
<1>2. \A d \in dirs : /\ ListCall(r, d) \in Call
                      /\ ListCall(r, d).root = r /\ ListCall(r, d).dir = d /\ ListCall(r, d).got = None
  BY DEF ListCall, Call
<1>3. /\ new \subseteq Call
      /\ \A d \in dirs : ListCall(r, d) \in new
      /\ \A e \in new : \E d \in dirs : e = ListCall(r, d)
  BY <1>2
<1>4. /\ SetToSeq(new) \in Seq(Call)
      /\ \A i \in DOMAIN SetToSeq(new) : SetToSeq(new)[i] \in new
      /\ \A x \in new : \E i \in DOMAIN SetToSeq(new) : SetToSeq(new)[i] = x
  <2>1. /\ SetToSeq(new) \in Seq(new)
        /\ \A x \in new : \E i \in DOMAIN SetToSeq(new) : SetToSeq(new)[i] = x
    BY <1>1, ListedSet
  <2> HIDE DEF new
  <2> QED  BY <1>3, <2>1
<1>5. calls \in Seq(Call)
  BY DEF TreeTypes, AskedTypes, OtherTypes
<1>6. /\ old \in Seq(Call) /\ DOMAIN old = DOMAIN calls
      /\ \A i \in DOMAIN calls :
           /\ old[i].root = calls[i].root /\ old[i].dir = calls[i].dir /\ old[i].got = calls[i].got
           /\ ~old[i].outdated =>
                /\ ~calls[i].outdated
                /\ (calls[i].root = r /\ calls[i].dir \in dirs)
                     => calls[i].got \in {None, version'[r][calls[i].dir]}
  <2> DEFINE late == {i \in DOMAIN calls : /\ calls[i].root = r /\ calls[i].dir \in dirs
                                           /\ calls[i].got \notin {None, version'[r][calls[i].dir]}}
  <2>1. old = Outdate(late)
    BY DEF Overtake
  <2>2. \A i \in DOMAIN calls :
          i \notin late <=> (calls[i].root = r /\ calls[i].dir \in dirs)
                              => calls[i].got \in {None, version'[r][calls[i].dir]}
    OBVIOUS
  <2> HIDE DEF late
  <2> QED  BY <1>5, <2>1, <2>2, OutdatedCalls
<1> DEFINE added == SetToSeq(new)
<1>a. calls' = old \o added /\ added \in Seq(Call)
  BY <1>4
<1> HIDE DEF old, added
<1>b. /\ Len(added) \in Nat /\ \A i \in DOMAIN added : added[i] \in new
      /\ \A x \in new : \E i \in DOMAIN added : added[i] = x
  <2>1. added = SetToSeq(new)
    BY DEF added
  <2> HIDE DEF new
  <2> QED  BY <1>4, <2>1
<1> HIDE DEF new
<1>7. /\ calls' \in Seq(Call) /\ Len(calls') = Len(old) + Len(added)
      /\ \A i \in 1 .. Len(old) + Len(added) :
            calls'[i] = IF i <= Len(old) THEN old[i] ELSE added[i - Len(old)]
  <2>1. old \in Seq(Call) /\ added \in Seq(Call)
    BY <1>a, <1>6
  <2>2. /\ old \o added \in Seq(Call) /\ Len(old \o added) = Len(old) + Len(added)
        /\ \A i \in 1 .. Len(old) + Len(added) :
              (old \o added)[i] = IF i <= Len(old) THEN old[i] ELSE added[i - Len(old)]
    BY <2>1, ConcatProperties
  <2> QED  BY <1>a, <2>2
<1>8. /\ Len(old) \in Nat /\ Len(added) \in Nat /\ DOMAIN calls' = 1 .. Len(old) + Len(added)
      /\ DOMAIN old = 1 .. Len(old) /\ DOMAIN added = 1 .. Len(added)
  BY <1>a, <1>6, <1>7
<1>9. \A i \in DOMAIN calls : i \in DOMAIN calls' /\ calls'[i] = old[i]
  <2> TAKE i \in DOMAIN calls
  <2>1. i \in 1 .. Len(old) + Len(added) /\ i <= Len(old)
    BY <1>6, <1>8
  <2> QED  BY <1>7, <1>8, <2>1
<1>10. ASSUME NEW d \in dirs
       PROVE  \E i \in DOMAIN calls' : calls'[i].root = r /\ calls'[i].dir = d
  <2>1. PICK i \in DOMAIN added : added[i] = ListCall(r, d)
    BY <1>3, <1>b
  <2>2. \E k \in DOMAIN calls' :
          k \in 1 .. Len(old) + Len(added) /\ ~(k <= Len(old)) /\ k - Len(old) = i
    <3>1. Len(old) + i \in DOMAIN calls'
      BY <1>8
    <3> WITNESS Len(old) + i \in DOMAIN calls'
    <3> QED  BY <1>8
  <2>3. PICK k \in DOMAIN calls' :
          k \in 1 .. Len(old) + Len(added) /\ ~(k <= Len(old)) /\ k - Len(old) = i
    BY <2>2
  <2>4. calls'[k] = ListCall(r, d)
    BY <1>7, <2>1, <2>3
  <2> QED  BY <1>2, <2>4
<1>11. ASSUME NEW i \in DOMAIN calls', i \notin DOMAIN calls
       PROVE  \E d \in dirs : calls'[i] = ListCall(r, d)
  <2>1. i - Len(old) \in DOMAIN added /\ ~(i <= Len(old)) /\ i \in 1 .. Len(old) + Len(added)
    BY <1>6, <1>8, <1>11
  <2>2. calls'[i] = added[i - Len(old)] /\ added[i - Len(old)] \in new
    BY <1>b, <1>7, <2>1
  <2> QED  BY <1>3, <2>2
<1>12. ASSUME NEW i \in DOMAIN calls
       PROVE  /\ i \in DOMAIN calls'
              /\ calls'[i].root = calls[i].root /\ calls'[i].dir = calls[i].dir /\ calls'[i].got = calls[i].got
              /\ ~calls'[i].outdated =>
                   /\ ~calls[i].outdated
                   /\ (calls[i].root = r /\ calls[i].dir \in dirs)
                        => calls[i].got \in {None, version'[r][calls[i].dir]}
  BY <1>6, <1>9
<1> QED  BY <1>7, <1>10, <1>11, <1>12

(* What a step that asks for listings of r must leave to show for every    *)
(* change that was due: it is due still, or its directory is asked for, or *)
(* the tree has no listing of it.                                          *)
LEMMA ListKeeps ==
  ASSUME TreeInv, NEW r \in Projects, NEW t \in TreeState, NEW dirs \in SUBSET Dirs,
         NEW unseen \in [Projects -> SUBSET Dirs],
         List(r, t, dirs, unseen),
         OtherTypes', retained \subseteq retained', version' = version, pending' = pending,
         trees[r] # None => t.dirs = trees[r].dirs,
         trees[r] = None => \A d \in Dirs : t.dirs[d] = None,
         \A s \in Projects, d \in Dirs :
           Due(s, d) => \/ d \in pending[s] \/ (s = root' /\ d \in batch') \/ d \in behind[s] \/ d \in unseen[s]
                        \/ s = r /\ (d \in dirs \/ t.dirs[d] = None)
  PROVE  TreeInv'
<1> DEFINE loading == withLoading(t, dirs)
<1>1. TreeTypes /\ HeldTrees /\ CallsCurrent /\ ListingsCurrent
  BY DEF TreeInv
<1>2. /\ trees \in [Projects -> TreeState \cup {None}] /\ calls \in Seq(Call)
      /\ behind \in [Projects -> SUBSET Dirs] /\ away \in [Projects -> SUBSET Dirs]
      /\ version \in [Projects -> [Dirs -> Nat]] /\ pending \in [Projects -> SUBSET Dirs]
  BY <1>1 DEF TreeTypes, AskedTypes, OtherTypes
<1>3. /\ trees' = updateTree(trees, r, loading)
      /\ calls' = Overtake(r, dirs) \o SetToSeq({ListCall(r, d) : d \in dirs})
      /\ behind' = [behind EXCEPT ![r] = @ \ dirs]
      /\ away' = [unseen EXCEPT ![r] = @ \ dirs]
  BY DEF List
<1>4. /\ loading \in TreeState
      /\ \A d \in Dirs \ dirs : loading.dirs[d] = t.dirs[d]
      /\ \A d \in dirs : loading.dirs[d] # None
  <2>1. /\ t \in TreeState /\ t.dirs \in [Dirs -> Listing \cup {None}]
    BY DEF TreeState
  <2> DEFINE found == [d \in Dirs |->
                         IF d \in dirs THEN [status |-> "loading", children |-> children(t, d)] ELSE t.dirs[d]]
  <2>2. ASSUME NEW d \in Dirs
        PROVE  [status |-> "loading", children |-> children(t, d)] \in Listing
    <3>1. children(t, d) \in Nat \cup {None}
      BY <2>1 DEF children, Listing
    <3> QED  BY <3>1 DEF Listing
  <2>3. /\ found \in [Dirs -> Listing \cup {None}]
        /\ \A d \in Dirs \ dirs : found[d] = t.dirs[d]
        /\ \A d \in dirs : found[d] \in Listing
    BY <2>1, <2>2
  <2>4. loading = [t EXCEPT !.dirs = found]
    BY DEF withLoading
  <2> HIDE DEF found, loading
  <2>5. loading \in TreeState /\ loading.dirs = found
    BY <2>1, <2>3, <2>4 DEF TreeState
  <2> QED  BY <2>3, <2>5, TreeAssumption
<1> HIDE DEF loading
<1>5. /\ trees' \in [Projects -> TreeState \cup {None}]
      /\ r \in retained' => trees'[r] = loading
      /\ r \notin retained' => trees' = trees
      /\ \A s \in Projects \ {r} :
           /\ (trees'[s] = None) <=> (trees[s] = None)
           /\ trees[s] # None => trees'[s].dirs = trees[s].dirs
  BY <1>2, <1>3, <1>4, UpdatedTree
<1>6. /\ calls' \in Seq(Call)
      /\ \A i \in DOMAIN calls :
           i \in DOMAIN calls' /\ calls'[i].root = calls[i].root /\ calls'[i].dir = calls[i].dir
      /\ \A d \in dirs : \E i \in DOMAIN calls' : calls'[i].root = r /\ calls'[i].dir = d
      /\ \A i \in DOMAIN calls' :
           \/ \E d \in dirs : calls'[i] = ListCall(r, d)
           \/ /\ i \in DOMAIN calls
              /\ calls'[i].root = calls[i].root /\ calls'[i].dir = calls[i].dir /\ calls'[i].got = calls[i].got
              /\ ~calls'[i].outdated =>
                   /\ ~calls[i].outdated
                   /\ (calls[i].root = r /\ calls[i].dir \in dirs)
                        => calls[i].got \in {None, version'[r][calls[i].dir]}
  BY <1>1, <1>3, CallsOfList
<1>7. /\ behind' \in [Projects -> SUBSET Dirs] /\ away' \in [Projects -> SUBSET Dirs]
      /\ \A s \in Projects, d \in Dirs : d \in behind[s] => d \in behind'[s] \/ (s = r /\ d \in dirs)
      /\ \A s \in Projects, d \in Dirs : d \in unseen[s] => d \in away'[s] \/ (s = r /\ d \in dirs)
  BY <1>2, <1>3
<1>8. \A s \in Projects, d \in Dirs :
        Due(s, d) => Due(s, d)' \/ (s = r /\ (d \in dirs \/ t.dirs[d] = None))
  BY <1>7 DEF Due
<1>9. \A s \in Projects, d \in Dirs : Asked(s, d) => Asked(s, d)'
  BY <1>6 DEF Asked
<1>10. HeldTrees'
  <2> SUFFICES ASSUME NEW s \in Projects, trees'[s] # None PROVE s \in retained'
    BY DEF HeldTrees
  <2> QED  BY <1>1, <1>5 DEF HeldTrees
<1>11. \A s \in Projects, d \in Dirs : Tracked(s, d) => Tracked(s, d)'
  <2> SUFFICES ASSUME NEW s \in Projects, NEW d \in Dirs, Tracked(s, d) PROVE Tracked(s, d)'
    OBVIOUS
  <2>1. CASE s # r
    BY <1>5, <2>1 DEF Tracked
  <2>2. CASE s = r
    <3>1. r \in retained' /\ t.dirs[d] # None /\ trees'[r] = loading
      BY <1>1, <1>5, <2>2 DEF Tracked, HeldTrees
    <3>2. loading.dirs[d] # None /\ loading # None
      BY <1>4, <3>1, TreeAssumption
    <3> QED  BY <2>2, <3>1, <3>2 DEF Tracked
  <2> QED  BY <2>1, <2>2
<1>12. CallsCurrent'
  <2> SUFFICES ASSUME NEW i \in DOMAIN calls', ~calls'[i].outdated
               PROVE  /\ Tracked(calls[i].root, calls[i].dir)'
                      /\ \/ calls'[i].got \in {None, Failed, version'[calls'[i].root][calls'[i].dir]}
                         \/ Due(calls[i].root, calls[i].dir)'
    BY DEF CallsCurrent, CallCurrent
  <2>1. CASE \E d \in dirs : calls'[i] = ListCall(r, d)
    <3>1. PICK d \in dirs : calls'[i] = ListCall(r, d)
      BY <2>1
    <3>2. /\ calls'[i].root = r /\ calls'[i].dir = d /\ calls'[i].got = None
          /\ calls'[i].outdated = (r \notin retained')
      BY <3>1 DEF ListCall
    <3>a. r \in retained'
      BY <3>2
    <3>3. trees'[r] = loading /\ loading # None /\ loading.dirs[d] # None
      BY <3>a, <1>4, <1>5, <3>2, TreeAssumption
    <3> QED  BY <3>2, <3>3 DEF Tracked
  <2>2. CASE /\ i \in DOMAIN calls
             /\ calls'[i].root = calls[i].root /\ calls'[i].dir = calls[i].dir /\ calls'[i].got = calls[i].got
             /\ ~calls[i].outdated
             /\ (calls[i].root = r /\ calls[i].dir \in dirs) => calls[i].got \in {None, version'[r][calls[i].dir]}
    <3> DEFINE s == calls[i].root
               d == calls[i].dir
    <3>1. s \in Projects /\ d \in Dirs
      <4>1. calls[i] \in Call
        BY <1>2, <2>2
      <4> QED  BY <4>1 DEF Call
    <3>2. /\ Tracked(s, d)
          /\ calls[i].got \in {None, Failed, version[s][d]} \/ Due(s, d)
      BY <1>1, <2>2 DEF CallsCurrent, CallCurrent
    <3>3. Tracked(s, d)'
      BY <1>11, <3>1, <3>2, <2>2
    <3>4. \/ calls[i].got \in {None, Failed, version[s][d]}
          \/ Due(s, d)'
      <4>1. CASE s = r /\ d \in dirs
        BY <2>2, <4>1
      <4>2. CASE ~(s = r /\ d \in dirs) /\ Due(s, d)
        <5>1. ~(s = r /\ t.dirs[d] = None)
          BY <3>1, <3>2 DEF Tracked
        <5>2. Due(calls[i].root, calls[i].dir)'
          BY <1>8, <2>2, <3>1, <4>2, <5>1
        <5> QED  BY <5>2
      <4> QED  BY <3>2, <4>1, <4>2
    <3> QED  BY <2>2, <3>3, <3>4
  <2> QED  BY <1>6, <2>1, <2>2
<1>13. ListingsCurrent'
  <2> SUFFICES ASSUME NEW s \in Projects, NEW d \in Dirs, Tracked(s, d)' PROVE ListingCurrent(s, d)'
    BY DEF ListingsCurrent
  <2>1. CASE s = r /\ d \in dirs
    BY <1>6, <2>1 DEF ListingCurrent, Asked
  <2>2. CASE ~(s = r /\ d \in dirs)
    <3>1. Tracked(s, d) /\ trees'[s].dirs[d] = trees[s].dirs[d] /\ ~(s = r /\ t.dirs[d] = None)
      BY <1>4, <1>5, <2>2 DEF Tracked
    <3>2. ListingCurrent(s, d)
      BY <1>1, <3>1 DEF ListingsCurrent
    <3>3. Due(s, d) => Due(s, d)'
      BY <1>8, <2>2, <3>1
    <3> QED  BY <1>9, <3>1, <3>2, <3>3 DEF ListingCurrent
  <2> QED  BY <2>1, <2>2
<1> QED  BY <1>5, <1>6, <1>7, <1>10, <1>12, <1>13 DEF TreeInv, TreeTypes, AskedTypes

(* What the user's operations do to a tree, its listings aside.            *)
LEMMA ShapedTree ==
  ASSUME NEW t \in TreeState
  PROVE  /\ \A d \in Dirs :
              /\ expand(t, d) \in TreeState /\ expand(t, d).dirs = t.dirs
              /\ collapse(t, d) \in TreeState /\ collapse(t, d).dirs = t.dirs
              /\ reveal(t, d) \in TreeState /\ reveal(t, d).dirs = t.dirs
         /\ \A x \in Paths : locate(t, x) \in TreeState /\ locate(t, x).dirs = t.dirs
         /\ \A y \in Paths \cup {None} : select(t, y) \in TreeState /\ select(t, y).dirs = t.dirs
         /\ \A saved \in SavedShapes :
              restoreTree(t, saved) \in TreeState /\ restoreTree(t, saved).dirs = t.dirs
         /\ toggleHidden(t) \in TreeState /\ toggleHidden(t).dirs = t.dirs
         /\ toggleChangedOnly(t) \in TreeState /\ toggleChangedOnly(t).dirs = t.dirs
<1>1. /\ t.dirs \in [Dirs -> Listing \cup {None}] /\ t.expanded \subseteq Dirs
      /\ t.selected \in Paths \cup {ROOT, None} /\ t.showHidden \in BOOLEAN /\ t.changedOnly \in BOOLEAN
  BY DEF TreeState
<1>2. ASSUME NEW u \in TreeState, NEW dir \in Dirs
      PROVE  reveal(u, dir) \in TreeState /\ reveal(u, dir).dirs = u.dirs
  <2> DEFINE shown == u.showHidden \/ \E z \in Range(ancestry(dir)) : isHidden(z)
  <2>1. reveal(u, dir) = [u EXCEPT !.expanded = @ \cup above(dir), !.selected = dir, !.showHidden = shown,
                                   !.changedOnly = FALSE]
    BY DEF reveal, TreeState
  <2>2. /\ u.expanded \subseteq Dirs /\ above(dir) \subseteq Dirs /\ shown \in BOOLEAN
        /\ dir \in Paths \cup {ROOT, None}
    BY TreeAssumption DEF above, TreeState, Dirs
  <2> HIDE DEF shown
  <2>3. u.expanded \cup above(dir) \in SUBSET Dirs
    BY <2>2
  <2> QED  BY <2>1, <2>2, <2>3 DEF TreeState
<1>3. ASSUME NEW d \in Dirs PROVE expand(t, d) \in TreeState /\ expand(t, d).dirs = t.dirs
  <2>1. t.expanded \cup {d} \in SUBSET Dirs
    BY <1>1
  <2> QED  BY <2>1 DEF expand, TreeState
<1>4. ASSUME NEW d \in Dirs PROVE collapse(t, d) \in TreeState /\ collapse(t, d).dirs = t.dirs
  <2>1. t.expanded \ {d} \in SUBSET Dirs
    BY <1>1
  <2> QED  BY <2>1 DEF collapse, TreeState
<1>5. ASSUME NEW x \in Paths PROVE locate(t, x) \in TreeState /\ locate(t, x).dirs = t.dirs
  <2> DEFINE u == reveal(t, Parent[x])
             shown == u.showHidden \/ \E z \in Range(ancestry(x)) : isHidden(z)
  <2>1. Parent[x] \in Dirs
    BY TreeAssumption
  <2>2. u \in TreeState /\ u.dirs = t.dirs
    BY <1>2, <2>1
  <2>3. locate(t, x) = [u EXCEPT !.selected = x, !.showHidden = shown] /\ shown \in BOOLEAN
    <3> HIDE DEF u
    <3>1. locate(t, x) = [u EXCEPT !.selected = x, !.showHidden = @ \/ \E z \in Range(ancestry(x)) : isHidden(z)]
      BY DEF locate, u
    <3> QED  BY <2>2, <3>1 DEF TreeState
  <2> HIDE DEF u, shown
  <2> QED  BY <2>2, <2>3 DEF TreeState
<1>6. ASSUME NEW y \in Paths \cup {None} PROVE select(t, y) \in TreeState /\ select(t, y).dirs = t.dirs
  BY DEF select, TreeState
<1>7. ASSUME NEW saved \in SavedShapes PROVE restoreTree(t, saved) \in TreeState /\ restoreTree(t, saved).dirs = t.dirs
  <2>1. /\ saved.expanded \in SUBSET DirPaths /\ saved.selected = None /\ saved.showHidden \in BOOLEAN
        /\ saved.changedOnly \in BOOLEAN
    BY DEF SavedShapes
  <2>2. {ROOT} \cup saved.expanded \in SUBSET Dirs
    BY <2>1 DEF Dirs
  <2> QED  BY <2>1, <2>2 DEF restoreTree, TreeState
<1>8. toggleHidden(t) \in TreeState /\ toggleHidden(t).dirs = t.dirs
  <2>1. (~t.showHidden) \in BOOLEAN
    OBVIOUS
  <2> QED  BY <2>1 DEF toggleHidden, TreeState
<1>9. toggleChangedOnly(t) \in TreeState /\ toggleChangedOnly(t).dirs = t.dirs
  <2>1. (~t.changedOnly) \in BOOLEAN
    OBVIOUS
  <2> QED  BY <2>1 DEF toggleChangedOnly, TreeState
<1> QED  BY <1>2, <1>3, <1>4, <1>5, <1>6, <1>7, <1>8, <1>9

(* A step that leaves calls and listings as they are, and leaves a change  *)
(* of a listing due.                                                       *)
LEMMA SameListings ==
  ASSUME TreeInv, calls' = calls,
         \A r \in Projects, d \in Dirs :
           /\ Tracked(r, d)' <=> Tracked(r, d)
           /\ Tracked(r, d) =>
                /\ trees'[r].dirs[d] = trees[r].dirs[d]
                /\ Due(r, d) \/ version'[r][d] # version[r][d] => Due(r, d)'
  PROVE  CallsCurrent' /\ ListingsCurrent'
<1>1. TreeTypes /\ CallsCurrent /\ ListingsCurrent
  BY DEF TreeInv
<1>2. CallsCurrent'
  <2> SUFFICES ASSUME NEW i \in DOMAIN calls, ~calls[i].outdated
               PROVE  /\ Tracked(calls[i].root, calls[i].dir)'
                      /\ \/ calls[i].got \in {None, Failed, version'[calls[i].root][calls[i].dir]}
                         \/ Due(calls[i].root, calls[i].dir)'
    BY DEF CallsCurrent, CallCurrent
  <2>1. calls[i].root \in Projects /\ calls[i].dir \in Dirs
    <3>1. calls[i] \in Call
      BY <1>1 DEF TreeTypes, AskedTypes, OtherTypes
    <3> QED  BY <3>1 DEF Call
  <2>2. /\ Tracked(calls[i].root, calls[i].dir)
        /\ \/ calls[i].got \in {None, Failed, version[calls[i].root][calls[i].dir]}
           \/ Due(calls[i].root, calls[i].dir)
    BY <1>1 DEF CallsCurrent, CallCurrent
  <2>3. Tracked(calls[i].root, calls[i].dir)'
    <3>1. \A r \in Projects, d \in Dirs : (calls'[i].root = r /\ calls'[i].dir = d /\ Tracked(r, d)) => Tracked(calls[i].root, calls[i].dir)'
      OBVIOUS
    <3> QED  BY <2>1, <2>2, <3>1
  <2>4. Due(calls[i].root, calls[i].dir) \/ version'[calls[i].root][calls[i].dir] # version[calls[i].root][calls[i].dir]
          => Due(calls[i].root, calls[i].dir)'
    <3>1. \A r \in Projects, d \in Dirs :
            (calls'[i].root = r /\ calls'[i].dir = d /\ Due(r, d)') => Due(calls[i].root, calls[i].dir)'
      OBVIOUS
    <3> QED  BY <2>1, <2>2, <3>1
  <2> QED  BY <2>2, <2>3, <2>4
<1>3. ListingsCurrent'
  <2> SUFFICES ASSUME NEW r \in Projects, NEW d \in Dirs, Tracked(r, d)' PROVE ListingCurrent(r, d)'
    BY DEF ListingsCurrent
  <2>1. Tracked(r, d) /\ ListingCurrent(r, d)
    BY <1>1 DEF ListingsCurrent
  <2>2. Asked(r, d) => Asked(r, d)'
    BY DEF Asked
  <2> QED  BY <2>1, <2>2 DEF ListingCurrent
<1> QED  BY <1>2, <1>3

(* What the user does to the tree on screen loses no change.               *)
LEMMA AskOnScreen ==
  ASSUME TreeInv, OnScreen, NEW r, r = root, NEW t \in TreeState, t.dirs = state.dirs,
         NEW dirs \in SUBSET Dirs, NEW unseen, unseen = away,
         List(r, t, dirs, unseen)
  PROVE  TreeInv'
<1>1. TreeTypes /\ HeldTrees
  BY DEF TreeInv
<1>2. /\ root # None /\ root' = root /\ retained' = retained /\ batch' = batch /\ edit' = edit
      /\ pending' = pending /\ version' = version
  BY DEF OnScreen, outside, disk
<1>3. /\ r \in Projects
      /\ trees[r] # None => t.dirs = trees[r].dirs
      /\ trees[r] = None => \A d \in Dirs : t.dirs[d] = None
  BY <1>1, <1>2, StateTyped
<1>4. retained \subseteq retained' /\ unseen \in [Projects -> SUBSET Dirs] /\ OtherTypes'
  BY <1>1, <1>2 DEF TreeTypes, AskedTypes, OtherTypes
<1>5. \A s \in Projects, d \in Dirs :
        Due(s, d) => \/ d \in pending[s] \/ (s = root' /\ d \in batch') \/ d \in behind[s] \/ d \in unseen[s]
                     \/ s = r /\ (d \in dirs \/ t.dirs[d] = None)
  BY <1>2 DEF Due
<1> QED  BY <1>2, <1>3, <1>4, <1>5, ListKeeps

LEMMA UpdateOnScreen ==
  ASSUME TreeInv, NEW t \in TreeState, Update(t), t.dirs = state.dirs
  PROVE  TreeInv'
<1>1. TreeTypes /\ HeldTrees
  BY DEF TreeInv
<1>2. /\ root # None /\ root' = root /\ retained' = retained /\ batch' = batch /\ edit' = edit
      /\ pending' = pending /\ version' = version /\ calls' = calls /\ behind' = behind /\ away' = away
      /\ trees' = updateTree(trees, root, t)
  BY DEF Update, OnScreen, outside, disk
<1>3. /\ root \in Projects
      /\ trees[root] # None => t.dirs = trees[root].dirs
      /\ trees[root] = None => \A d \in Dirs : t.dirs[d] = None
  BY <1>1, <1>2, StateTyped
<1>4. /\ trees \in [Projects -> TreeState \cup {None}]
      /\ trees' \in [Projects -> TreeState \cup {None}]
      /\ root \in retained' => trees'[root] = t
      /\ root \notin retained' => trees' = trees
      /\ \A s \in Projects \ {root} :
           /\ (trees'[s] = None) <=> (trees[s] = None)
           /\ trees[s] # None => trees'[s].dirs = trees[s].dirs
  <2>1. trees \in [Projects -> TreeState \cup {None}]
    BY <1>1 DEF TreeTypes, AskedTypes, OtherTypes
  <2> QED  BY <1>2, <1>3, <2>1, UpdatedTree
<1>5. HeldTrees'
  <2> SUFFICES ASSUME NEW s \in Projects, trees'[s] # None PROVE s \in retained'
    BY DEF HeldTrees
  <2> QED  BY <1>1, <1>2, <1>4 DEF HeldTrees
<1>6. ASSUME NEW s \in Projects, NEW d \in Dirs
      PROVE  /\ Tracked(s, d)' <=> Tracked(s, d)
             /\ Tracked(s, d) => trees'[s].dirs[d] = trees[s].dirs[d]
  <2>1. CASE s = root /\ root \in retained
    <3>1. trees'[s] = t /\ t # None
      BY <1>2, <1>4, <2>1, TreeAssumption
    <3> QED  BY <1>3, <2>1, <3>1 DEF Tracked
  <2>2. CASE s = root /\ root \notin retained
    BY <1>2, <1>4, <2>2 DEF Tracked
  <2>3. CASE s # root
    BY <1>4, <2>3 DEF Tracked
  <2> QED  BY <2>1, <2>2, <2>3
<1>7. \A s \in Projects, d \in Dirs : Due(s, d) \/ version'[s][d] # version[s][d] => Due(s, d)'
  BY <1>2 DEF Due
<1>8. CallsCurrent' /\ ListingsCurrent'
  BY <1>2, <1>6, <1>7, SameListings
<1> QED  BY <1>1, <1>2, <1>4, <1>5, <1>8 DEF TreeInv, TreeTypes, AskedTypes, OtherTypes

(* A step that leaves trees, calls and the user's edit as they are.        *)
LEMMA OutsideStep ==
  ASSUME TreeInv, retained' = retained, trees' = trees, calls' = calls, OtherTypes',
         behind' \in [Projects -> SUBSET Dirs], away' \in [Projects -> SUBSET Dirs],
         \A r \in Projects, d \in Dirs :
           Tracked(r, d) => (Due(r, d) \/ version'[r][d] # version[r][d] => Due(r, d)')
  PROVE  TreeInv'
<1>1. TreeTypes /\ HeldTrees
  BY DEF TreeInv
<1>2. \A r \in Projects, d \in Dirs :
        /\ Tracked(r, d)' <=> Tracked(r, d)
        /\ trees'[r].dirs[d] = trees[r].dirs[d]
  BY DEF Tracked
<1>3. CallsCurrent' /\ ListingsCurrent'
  BY <1>2, SameListings
<1>4. HeldTrees' /\ AskedTypes'
  BY <1>1 DEF HeldTrees, TreeTypes, AskedTypes
<1> QED  BY <1>3, <1>4 DEF TreeInv, TreeTypes

LEMMA SwitchStep ==
  ASSUME TreeInv, NEW r \in Projects, SwitchTo(r)
  PROVE  TreeInv'
<1> DEFINE left == IF root = None THEN away ELSE [away EXCEPT ![root] = @ \cup batch]
<1>1. SUFFICES ASSUME NEW t, t = treeFor(trees, r), NEW dirs, dirs = openDirs(t),
                      NEW unseen, unseen = [left EXCEPT ![r] = @ \ showing(t)]
               PROVE  TreeInv'
  OBVIOUS
<1>2. TreeTypes /\ HeldTrees
  BY DEF TreeInv
<1>3. /\ root' = r /\ retained' = retained \cup {r} /\ batch' = {} /\ edit' = edit
      /\ pending' = pending /\ version' = version /\ r # root
      /\ List(r, t, dirs, unseen)
  BY <1>1 DEF SwitchTo, outside, disk
<1>4. /\ t \in TreeState
      /\ trees[r] # None => t.dirs = trees[r].dirs
      /\ trees[r] = None => \A d \in Dirs : t.dirs[d] = None
  BY <1>1, <1>2, TreeForTyped DEF TreeTypes, AskedTypes
<1>5. dirs \in SUBSET Dirs /\ dirs = showing(t)
  BY <1>1 DEF openDirs, showing, Dirs
<1>6. /\ left \in [Projects -> SUBSET Dirs]
      /\ \A s \in Projects, d \in Dirs : d \in away[s] \/ (s = root /\ d \in batch) => d \in left[s]
  BY <1>2 DEF TreeTypes, AskedTypes, OtherTypes
<1> HIDE DEF left
<1>7. /\ unseen \in [Projects -> SUBSET Dirs]
      /\ \A s \in Projects, d \in Dirs : d \in left[s] => d \in unseen[s] \/ (s = r /\ d \in dirs)
  BY <1>1, <1>5, <1>6
<1>8. \A s \in Projects, d \in Dirs :
        Due(s, d) => \/ d \in pending[s] \/ (s = root' /\ d \in batch') \/ d \in behind[s] \/ d \in unseen[s]
                     \/ s = r /\ (d \in dirs \/ t.dirs[d] = None)
  BY <1>6, <1>7 DEF Due
<1>9. OtherTypes' /\ retained \subseteq retained'
  BY <1>2, <1>3 DEF TreeTypes, OtherTypes
<1> QED  BY <1>3, <1>4, <1>5, <1>7, <1>8, <1>9, ListKeeps

LEMMA ExpandStep ==
  ASSUME TreeInv, NEW d \in DirPaths, Expand(d)
  PROVE  TreeInv'
<1>1. SUFFICES ASSUME NEW r, r = root, NEW t, t = expand(state, d), NEW unseen, unseen = away
               PROVE  TreeInv'
  OBVIOUS
<1>2. OnScreen /\ List(r, t, {d}, unseen)
  BY <1>1 DEF Expand, List, Overtake, updateTree, ListCall
<1>3. t \in TreeState /\ t.dirs = state.dirs /\ {d} \in SUBSET Dirs
  BY <1>1, <1>2, StateTyped, ShapedTree DEF OnScreen, TreeInv, Dirs
<1> QED  BY <1>1, <1>2, <1>3, AskOnScreen

LEMMA RevealStep ==
  ASSUME TreeInv, NEW d \in Dirs, Reveal(d)
  PROVE  TreeInv'
<1>1. SUFFICES ASSUME NEW r, r = root, NEW t, t = reveal(state, d), NEW unseen, unseen = away,
                      NEW dirs, dirs = Unlisted(d)
               PROVE  TreeInv'
  OBVIOUS
<1>2. OnScreen /\ List(r, t, dirs, unseen)
  BY <1>1 DEF Reveal, List, Overtake, updateTree, ListCall
<1>3. t \in TreeState /\ t.dirs = state.dirs /\ dirs \in SUBSET Dirs
  BY <1>1, <1>2, StateTyped, ShapedTree DEF OnScreen, TreeInv, Unlisted, above
<1> QED  BY <1>1, <1>2, <1>3, AskOnScreen

LEMMA LocateStep ==
  ASSUME TreeInv, NEW x \in Paths, Locate(x)
  PROVE  TreeInv'
<1>1. SUFFICES ASSUME NEW r, r = root, NEW t, t = locate(state, x), NEW unseen, unseen = away,
                      NEW dirs, dirs = Unlisted(Parent[x])
               PROVE  TreeInv'
  OBVIOUS
<1>2. OnScreen /\ List(r, t, dirs, unseen)
  BY <1>1 DEF Locate, List, Overtake, updateTree, ListCall
<1>3. t \in TreeState /\ t.dirs = state.dirs /\ dirs \in SUBSET Dirs
  BY <1>1, <1>2, StateTyped, ShapedTree DEF OnScreen, TreeInv, Unlisted, above
<1> QED  BY <1>1, <1>2, <1>3, AskOnScreen

LEMMA RestoreStep ==
  ASSUME TreeInv, NEW saved \in SavedShapes, Restore(saved)
  PROVE  TreeInv'
<1>1. SUFFICES ASSUME NEW r, r = root, NEW t, t = restoreTree(state, saved), NEW unseen, unseen = away,
                      NEW dirs, dirs = saved.expanded \ {ROOT}
               PROVE  TreeInv'
  OBVIOUS
<1>2. OnScreen /\ List(r, t, dirs, unseen)
  BY <1>1 DEF Restore, List, Overtake, updateTree, ListCall
<1>3. t \in TreeState /\ t.dirs = state.dirs /\ dirs \in SUBSET Dirs
  BY <1>1, <1>2, StateTyped, ShapedTree DEF OnScreen, TreeInv, SavedShapes, Dirs
<1> QED  BY <1>1, <1>2, <1>3, AskOnScreen

LEMMA UpdateSteps ==
  ASSUME TreeInv,
         \/ \E x \in Picked : SelectRow(x)
         \/ \E d \in Dirs : Collapse(d)
         \/ ToggleHidden
         \/ ToggleChangedOnly
  PROVE  TreeInv'
<1>1. ASSUME NEW t, t \in TreeState /\ t.dirs = state.dirs, Update(t)
      PROVE  TreeInv'
  BY <1>1, UpdateOnScreen
<1>2. ASSUME root # None
      PROVE  state \in TreeState
  BY <1>2, StateTyped DEF TreeInv
<1>3. ASSUME NEW x \in Picked, SelectRow(x) PROVE TreeInv'
  <2>1. SUFFICES ASSUME NEW t, t = select(state, x) PROVE TreeInv'
    OBVIOUS
  <2>2. Update(t) /\ root # None
    BY <1>3, <2>1 DEF SelectRow, Update, OnScreen, updateTree
  <2>3. t \in TreeState /\ t.dirs = state.dirs
    BY <1>2, <2>1, <2>2, ShapedTree, TreeAssumption
  <2> QED  BY <1>1, <2>2, <2>3
<1>4. ASSUME NEW d \in Dirs, Collapse(d) PROVE TreeInv'
  <2>1. SUFFICES ASSUME NEW t, t = collapse(state, d) PROVE TreeInv'
    OBVIOUS
  <2>2. Update(t) /\ root # None
    BY <1>4, <2>1 DEF Collapse, Update, OnScreen, updateTree
  <2>3. t \in TreeState /\ t.dirs = state.dirs
    BY <1>2, <2>1, <2>2, ShapedTree
  <2> QED  BY <1>1, <2>2, <2>3
<1>5. ASSUME ToggleHidden PROVE TreeInv'
  <2>1. SUFFICES ASSUME NEW t, t = toggleHidden(state) PROVE TreeInv'
    OBVIOUS
  <2>2. Update(t) /\ root # None
    BY <1>5, <2>1 DEF ToggleHidden, Update, OnScreen, updateTree
  <2>3. t \in TreeState /\ t.dirs = state.dirs
    BY <1>2, <2>1, <2>2, ShapedTree
  <2> QED  BY <1>1, <2>2, <2>3
<1>6. ASSUME ToggleChangedOnly PROVE TreeInv'
  <2>1. SUFFICES ASSUME NEW t, t = toggleChangedOnly(state) PROVE TreeInv'
    OBVIOUS
  <2>2. Update(t) /\ root # None
    BY <1>6, <2>1 DEF ToggleChangedOnly, Update, OnScreen, updateTree
  <2>3. t \in TreeState /\ t.dirs = state.dirs
    BY <1>2, <2>1, <2>2, ShapedTree
  <2> QED  BY <1>1, <2>2, <2>3
<1> QED  BY <1>3, <1>4, <1>5, <1>6

LEMMA CloseStep ==
  ASSUME TreeInv, NEW r \in Projects, CloseTree(r)
  PROVE  TreeInv'
<1>1. TreeTypes /\ HeldTrees /\ CallsCurrent /\ ListingsCurrent
  BY DEF TreeInv
<1>2. /\ root' = root /\ retained' = retained \ {r} /\ batch' = batch /\ edit' = edit
      /\ pending' = pending /\ version' = version
      /\ trees' = [trees EXCEPT ![r] = None]
      /\ calls' = Outdate({i \in DOMAIN calls : calls[i].root = r})
      /\ behind' = [behind EXCEPT ![r] = {}] /\ away' = [away EXCEPT ![r] = {}]
  BY DEF CloseTree, withoutTree, outside, disk
<1>3. /\ trees \in [Projects -> TreeState \cup {None}] /\ calls \in Seq(Call)
      /\ behind \in [Projects -> SUBSET Dirs] /\ away \in [Projects -> SUBSET Dirs]
  BY <1>1 DEF TreeTypes, AskedTypes
<1>4. /\ calls' \in Seq(Call) /\ DOMAIN calls' = DOMAIN calls
      /\ \A i \in DOMAIN calls :
           /\ calls'[i].root = calls[i].root /\ calls'[i].dir = calls[i].dir /\ calls'[i].got = calls[i].got
           /\ ~calls'[i].outdated => ~calls[i].outdated /\ calls[i].root # r
  <2> DEFINE late == {i \in DOMAIN calls : calls[i].root = r}
  <2>1. calls' = Outdate(late) /\ \A i \in DOMAIN calls : i \notin late => calls[i].root # r
    BY <1>2
  <2> HIDE DEF late
  <2> QED  BY <1>3, <2>1, OutdatedCalls
<1>5. /\ trees' \in [Projects -> TreeState \cup {None}] /\ trees'[r] = None
      /\ behind' \in [Projects -> SUBSET Dirs] /\ away' \in [Projects -> SUBSET Dirs]
      /\ \A s \in Projects \ {r} : trees'[s] = trees[s] /\ behind'[s] = behind[s] /\ away'[s] = away[s]
  BY <1>2, <1>3
<1>6. \A s \in Projects \ {r}, d \in Dirs :
        (Tracked(s, d)' <=> Tracked(s, d)) /\ (Due(s, d) => Due(s, d)') /\ (Asked(s, d) => Asked(s, d)')
  BY <1>2, <1>4, <1>5 DEF Tracked, Due, Asked
<1>7. HeldTrees'
  BY <1>1, <1>2, <1>5 DEF HeldTrees
<1>8. CallsCurrent'
  <2> SUFFICES ASSUME NEW i \in DOMAIN calls, ~calls'[i].outdated PROVE CallCurrent(calls[i])'
    BY <1>4 DEF CallsCurrent, CallCurrent
  <2>1. calls[i] \in Call
    BY <1>3
  <2>2. calls[i].root \in Projects \ {r} /\ calls[i].dir \in Dirs
    BY <1>4, <2>1 DEF Call
  <2>3. CallCurrent(calls[i]) /\ ~calls[i].outdated
    BY <1>1, <1>4 DEF CallsCurrent
  <2>4. \A s \in Projects \ {r}, d \in Dirs :
          (calls[i].root = s /\ calls[i].dir = d) => CallCurrent(calls[i])'
    BY <1>2, <1>4, <1>6, <2>3 DEF CallCurrent
  <2> QED  BY <2>2, <2>4
<1>9. ListingsCurrent'
  <2> SUFFICES ASSUME NEW s \in Projects, NEW d \in Dirs, Tracked(s, d)' PROVE ListingCurrent(s, d)'
    BY DEF ListingsCurrent
  <2>1. s # r
    BY <1>5 DEF Tracked
  <2>2. Tracked(s, d) /\ ListingCurrent(s, d)
    BY <1>1, <1>6, <2>1 DEF ListingsCurrent
  <2> QED  BY <1>2, <1>5, <1>6, <2>1, <2>2 DEF ListingCurrent
<1>10. OtherTypes'
  BY <1>1, <1>2 DEF TreeTypes, OtherTypes
<1> QED  BY <1>4, <1>5, <1>7, <1>8, <1>9, <1>10 DEF TreeInv, TreeTypes, AskedTypes

LEMMA OnTreeStep ==
  ASSUME TreeInv, onTree
  PROVE  TreeInv'
<1>1. SUFFICES ASSUME NEW r, r = root, NEW t, t = state, NEW unseen, unseen = away,
                      NEW dirs, dirs = affectedTrackedDirs(state, batch)
               PROVE  TreeInv'
  OBVIOUS
<1>2. TreeTypes
  BY DEF TreeInv
<1>3. /\ batch # {} /\ root' = root /\ retained' = retained /\ batch' = {} /\ edit' = edit
      /\ pending' = pending /\ version' = version
      /\ List(r, t, dirs, unseen)
  BY <1>1 DEF onTree, outside, disk, List, Overtake, updateTree, ListCall
<1>4. /\ r \in Projects /\ t \in TreeState
      /\ trees[r] # None => t.dirs = trees[r].dirs
      /\ trees[r] = None => \A d \in Dirs : t.dirs[d] = None
  <2>1. root # None
    BY <1>2, <1>3 DEF TreeTypes, OtherTypes
  <2> QED  BY <1>1, <1>2, <2>1, StateTyped
<1>5. /\ dirs \in SUBSET Dirs
      /\ \A d \in batch : d \in dirs \/ t.dirs[d] = None
  BY <1>1, <1>2 DEF affectedTrackedDirs, TreeTypes, OtherTypes
<1>6. OtherTypes' /\ retained \subseteq retained' /\ unseen \in [Projects -> SUBSET Dirs]
  BY <1>1, <1>2, <1>3 DEF TreeTypes, OtherTypes, AskedTypes
<1>7. \A s \in Projects, d \in Dirs :
        Due(s, d) => \/ d \in pending[s] \/ (s = root' /\ d \in batch') \/ d \in behind[s] \/ d \in unseen[s]
                     \/ s = r /\ (d \in dirs \/ t.dirs[d] = None)
  BY <1>1, <1>5 DEF Due
<1> QED  BY <1>3, <1>4, <1>5, <1>6, <1>7, ListKeeps

LEMMA DeliverEditStep ==
  ASSUME TreeInv, DeliverEdit
  PROVE  TreeInv'
<1> DEFINE kept == treeFor(trees, edit.root)
           deselects == edit.gone # None /\ kept.selected = edit.gone
<1>1. SUFFICES ASSUME NEW r, r = edit.root, NEW t, t = IF deselects THEN select(kept, None) ELSE kept,
                      NEW unseen, unseen = away, NEW dirs, dirs = {edit.dir}
               PROVE  TreeInv'
  OBVIOUS
<1>2. TreeTypes
  BY DEF TreeInv
<1>3. /\ edit # None /\ root' = root /\ retained' = retained /\ batch' = batch /\ edit' = None
      /\ pending' = pending /\ version' = version
      /\ List(r, t, dirs, unseen)
  BY <1>1 DEF DeliverEdit, disk, List, Overtake, updateTree, ListCall
<1>4. r \in Projects /\ dirs \in SUBSET Dirs
  <2>1. edit \in Edit
    BY <1>2, <1>3 DEF TreeTypes, OtherTypes
  <2> QED  BY <1>1, <2>1 DEF Edit
<1>5. /\ kept \in TreeState
      /\ trees[r] # None => kept = trees[r]
      /\ trees[r] = None => \A d \in Dirs : kept.dirs[d] = None
  BY <1>1, <1>2, <1>4, TreeForTyped DEF TreeTypes, AskedTypes
<1> HIDE DEF kept
<1>6. t \in TreeState /\ t.dirs = kept.dirs
  <2>1. select(kept, None) \in TreeState /\ select(kept, None).dirs = kept.dirs
    BY <1>5, ShapedTree
  <2> QED  BY <1>1, <1>5, <2>1
<1>7. OtherTypes' /\ retained \subseteq retained' /\ unseen \in [Projects -> SUBSET Dirs]
  BY <1>1, <1>2, <1>3 DEF TreeTypes, OtherTypes, AskedTypes
<1>8. \A s \in Projects, d \in Dirs :
        Due(s, d) => \/ d \in pending[s] \/ (s = root' /\ d \in batch') \/ d \in behind[s] \/ d \in unseen[s]
                     \/ s = r /\ (d \in dirs \/ t.dirs[d] = None)
  BY <1>1, <1>3 DEF Due
<1>9. /\ trees[r] # None => t.dirs = trees[r].dirs
      /\ trees[r] = None => \A d \in Dirs : t.dirs[d] = None
  BY <1>5, <1>6
<1> QED  BY <1>3, <1>4, <1>6, <1>7, <1>8, <1>9, ListKeeps

LEMMA AnswerListStep ==
  ASSUME TreeInv, NEW i \in DOMAIN calls, AnswerList(i)
  PROVE  TreeInv'
<1>1. TreeTypes /\ HeldTrees /\ CallsCurrent /\ ListingsCurrent
  BY DEF TreeInv
<1>2. /\ root' = root /\ retained' = retained /\ trees' = trees /\ batch' = batch /\ edit' = edit
      /\ pending' = pending /\ version' = version /\ behind' = behind /\ away' = away
  BY DEF AnswerList, outside, disk
<1>3. PICK got \in {version[calls[i].root][calls[i].dir], Failed} : calls' = [calls EXCEPT ![i].got = got]
  BY DEF AnswerList
<1>4. calls \in Seq(Call) /\ calls[i] \in Call
  BY <1>1 DEF TreeTypes, AskedTypes
<1>5. got \in Nat \cup {Failed}
  BY <1>1, <1>3, <1>4 DEF TreeTypes, OtherTypes, Call
<1>6. /\ calls' \in Seq(Call) /\ DOMAIN calls' = DOMAIN calls
      /\ \A j \in DOMAIN calls :
           /\ calls'[j].root = calls[j].root /\ calls'[j].dir = calls[j].dir
           /\ calls'[j].outdated = calls[j].outdated
           /\ calls'[j].got = IF j = i THEN got ELSE calls[j].got
  <2>1. /\ [calls[i] EXCEPT !.got = got] \in Call
        /\ [calls[i] EXCEPT !.got = got].root = calls[i].root /\ [calls[i] EXCEPT !.got = got].dir = calls[i].dir
        /\ [calls[i] EXCEPT !.got = got].outdated = calls[i].outdated /\ [calls[i] EXCEPT !.got = got].got = got
    BY <1>4, <1>5 DEF Call
  <2>2. calls' = [calls EXCEPT ![i] = [calls[i] EXCEPT !.got = got]]
    BY <1>3
  <2> QED  BY <1>4, <2>1, <2>2
<1>7. \A r \in Projects, d \in Dirs : (Tracked(r, d)' <=> Tracked(r, d)) /\ (Due(r, d)' <=> Due(r, d))
  BY <1>2 DEF Tracked, Due
<1>8. CallsCurrent'
  <2> SUFFICES ASSUME NEW j \in DOMAIN calls, ~calls'[j].outdated PROVE CallCurrent(calls[j])'
    BY <1>6 DEF CallsCurrent, CallCurrent
  <2>1. calls[j] \in Call
    BY <1>4
  <2>2. calls[j].root \in Projects /\ calls[j].dir \in Dirs
    BY <2>1 DEF Call
  <2>3. CallCurrent(calls[j]) /\ ~calls[j].outdated
    BY <1>1, <1>6 DEF CallsCurrent
  <2>4. \A s \in Projects, d \in Dirs :
          (calls[j].root = s /\ calls[j].dir = d) => CallCurrent(calls[j])'
    BY <1>2, <1>3, <1>6, <1>7, <2>3 DEF CallCurrent
  <2> QED  BY <2>2, <2>4
<1>9. \A r \in Projects, d \in Dirs : Asked(r, d) => Asked(r, d)'
  BY <1>6 DEF Asked
<1>10. ListingsCurrent'
  BY <1>1, <1>2, <1>7, <1>9 DEF ListingsCurrent, ListingCurrent
<1>11. HeldTrees' /\ AskedTypes' /\ OtherTypes'
  BY <1>1, <1>2, <1>6 DEF HeldTrees, TreeTypes, AskedTypes, OtherTypes
<1> QED  BY <1>8, <1>10, <1>11 DEF TreeInv, TreeTypes

LEMMA DeliverListStep ==
  ASSUME TreeInv, NEW i \in DOMAIN calls, DeliverList(i)
  PROVE  TreeInv'
<1> DEFINE call == calls[i]
           kept == treeFor(trees, call.root)
           next == IF call.got = Failed THEN withError(kept, call.dir) ELSE withListing(kept, call.dir, call.got)
<1>1. TreeTypes /\ HeldTrees /\ CallsCurrent /\ ListingsCurrent
  BY DEF TreeInv
<1>2. /\ root' = root /\ retained' = retained /\ batch' = batch /\ edit' = edit
      /\ pending' = pending /\ version' = version /\ away' = away
      /\ calls' = RemoveAt(calls, i) /\ call.got # None
      /\ trees' = updateTree(trees, call.root, next)
      /\ behind' = IF call.outdated THEN [behind EXCEPT ![call.root] = @ \cup {call.dir}] ELSE behind
  BY DEF DeliverList, outside, disk
<1>3. /\ trees \in [Projects -> TreeState \cup {None}] /\ calls \in Seq(Call)
      /\ behind \in [Projects -> SUBSET Dirs] /\ away \in [Projects -> SUBSET Dirs]
  BY <1>1 DEF TreeTypes, AskedTypes
<1>4. call.root \in Projects /\ call.dir \in Dirs /\ call.got \in Nat \cup {None, Failed} /\ call.outdated \in BOOLEAN
  <2>1. call \in Call
    BY <1>3
  <2> HIDE DEF call
  <2> QED  BY <2>1 DEF Call
<1>5. CallCurrent(call)
  BY <1>1 DEF CallsCurrent
<1> HIDE DEF call
<1>6. /\ kept \in TreeState
      /\ trees[call.root] # None => kept = trees[call.root]
      /\ trees[call.root] = None => \A d \in Dirs : kept.dirs[d] = None
  BY <1>3, <1>4, TreeForTyped
<1> HIDE DEF kept
<1>7. /\ next \in TreeState
      /\ \A d \in Dirs \ {call.dir} : next.dirs[d] = kept.dirs[d]
      /\ next.dirs[call.dir] # None
      /\ next.dirs[call.dir].status = "error" \/ next.dirs[call.dir].children = call.got
      /\ call.got = Failed => next.dirs[call.dir].status = "error"
  <2>1. kept.dirs \in [Dirs -> Listing \cup {None}] /\ None \notin Listing
    BY <1>6, TreeAssumption DEF TreeState
  <2>2. CASE call.got = Failed
    <3> DEFINE l == [status |-> "error", children |-> children(kept, call.dir)]
    <3>1. children(kept, call.dir) \in Nat \cup {None}
      BY <1>4, <2>1 DEF children, Listing
    <3>2. l \in Listing /\ l.status = "error"
      BY <3>1 DEF Listing
    <3>3. next = [kept EXCEPT !.dirs = [kept.dirs EXCEPT ![call.dir] = l]]
      BY <2>2, <1>6 DEF withError, TreeState
    <3> HIDE DEF l, next
    <3>4. /\ [kept.dirs EXCEPT ![call.dir] = l] \in [Dirs -> Listing \cup {None}]
          /\ [kept.dirs EXCEPT ![call.dir] = l][call.dir] = l
          /\ \A d \in Dirs \ {call.dir} : [kept.dirs EXCEPT ![call.dir] = l][d] = kept.dirs[d]
      BY <1>4, <2>1, <3>2
    <3>5. next \in TreeState /\ next.dirs = [kept.dirs EXCEPT ![call.dir] = l]
      BY <1>6, <3>3, <3>4 DEF TreeState
    <3> QED  BY <2>1, <3>2, <3>4, <3>5
  <2>3. CASE call.got # Failed
    <3> DEFINE l == [status |-> "loaded", children |-> call.got]
    <3>1. call.got \in Nat \cup {None}
      BY <1>4, <2>3
    <3>2. l \in Listing /\ l.children = call.got
      BY <3>1 DEF Listing
    <3>3. next = [kept EXCEPT !.dirs = [kept.dirs EXCEPT ![call.dir] = l]]
      BY <2>3, <1>6 DEF withListing, TreeState
    <3> HIDE DEF l, next
    <3>4. /\ [kept.dirs EXCEPT ![call.dir] = l] \in [Dirs -> Listing \cup {None}]
          /\ [kept.dirs EXCEPT ![call.dir] = l][call.dir] = l
          /\ \A d \in Dirs \ {call.dir} : [kept.dirs EXCEPT ![call.dir] = l][d] = kept.dirs[d]
      BY <1>4, <2>1, <3>2
    <3>5. next \in TreeState /\ next.dirs = [kept.dirs EXCEPT ![call.dir] = l]
      BY <1>6, <3>3, <3>4 DEF TreeState
    <3> QED  BY <2>1, <2>3, <3>2, <3>4, <3>5
  <2> QED  BY <2>2, <2>3
<1> HIDE DEF next
<1>8. /\ trees' \in [Projects -> TreeState \cup {None}]
      /\ call.root \in retained' => trees'[call.root] = next
      /\ call.root \notin retained' => trees' = trees
      /\ \A s \in Projects \ {call.root} :
           /\ (trees'[s] = None) <=> (trees[s] = None)
           /\ trees[s] # None => trees'[s].dirs = trees[s].dirs
  <2>1. SUFFICES ASSUME NEW r \in Projects, r = call.root, NEW t \in TreeState, t = next
                 PROVE  /\ trees' \in [Projects -> TreeState \cup {None}]
                        /\ r \in retained' => trees'[r] = t
                        /\ r \notin retained' => trees' = trees
                        /\ \A s \in Projects \ {r} :
                             /\ (trees'[s] = None) <=> (trees[s] = None)
                             /\ trees[s] # None => trees'[s].dirs = trees[s].dirs
    BY <1>4, <1>7
  <2>2. trees' = updateTree(trees, r, t)
    BY <1>2, <2>1 DEF updateTree
  <2> QED  BY <1>3, <2>2, UpdatedTree
<1>9. /\ behind' \in [Projects -> SUBSET Dirs]
      /\ \A s \in Projects : behind[s] \subseteq behind'[s]
      /\ call.outdated => call.dir \in behind'[call.root]
  BY <1>2, <1>3, <1>4
<1>10. \A s \in Projects, d \in Dirs : Due(s, d) => Due(s, d)'
  BY <1>2, <1>9 DEF Due
<1>11. /\ calls' \in Seq(Call)
       /\ \A j \in DOMAIN calls' : \E m \in DOMAIN calls : calls'[j] = calls[m]
       /\ \A m \in DOMAIN calls \ {i} : \E j \in DOMAIN calls' : calls'[j] = calls[m]
  <2>1. /\ RemoveAt(calls, i) \in Seq(Call)
        /\ \A j \in DOMAIN RemoveAt(calls, i) :
             LET m == IF j < i THEN j ELSE j + 1
             IN  m \in DOMAIN calls \ {i} /\ RemoveAt(calls, i)[j] = calls[m]
        /\ \A m \in DOMAIN calls \ {i} : \E j \in DOMAIN RemoveAt(calls, i) : RemoveAt(calls, i)[j] = calls[m]
    BY <1>3, RemovedElements
  <2> QED  BY <1>2, <2>1
<1>12. HeldTrees'
  <2> SUFFICES ASSUME NEW s \in Projects, trees'[s] # None PROVE s \in retained'
    BY DEF HeldTrees
  <2> QED  BY <1>1, <1>2, <1>8 DEF HeldTrees
<1>13. ASSUME NEW s \in Projects, NEW d \in Dirs
       PROVE  /\ Tracked(s, d) => Tracked(s, d)'
              /\ <<s, d>> # <<call.root, call.dir>> /\ Tracked(s, d)' => Tracked(s, d) /\ trees'[s].dirs[d] = trees[s].dirs[d]
  <2>1. CASE s # call.root
    BY <1>8, <2>1 DEF Tracked
  <2>2. CASE s = call.root /\ s \notin retained
    <3>1. trees'[s] = None /\ trees[s] = None
      BY <1>1, <1>2, <1>8, <2>2 DEF HeldTrees
    <3> QED  BY <3>1 DEF Tracked
  <2>3. CASE s = call.root /\ s \in retained
    <3>1. trees'[s] = next /\ next # None
      BY <1>2, <1>7, <1>8, <2>3, TreeAssumption
    <3>2. CASE d = call.dir
      BY <1>7, <2>3, <3>1, <3>2 DEF Tracked
    <3>3. CASE d # call.dir
      BY <1>6, <1>7, <2>3, <3>1, <3>3 DEF Tracked
    <3> QED  BY <3>2, <3>3
  <2> QED  BY <2>1, <2>2, <2>3
<1>14. CallsCurrent'
  <2> SUFFICES ASSUME NEW j \in DOMAIN calls' PROVE CallCurrent(calls[j])'
    BY DEF CallsCurrent
  <2>1. PICK m \in DOMAIN calls : calls'[j] = calls[m]
    BY <1>11
  <2>2. calls[m] \in Call
    BY <1>3
  <2>3. calls[m].root \in Projects /\ calls[m].dir \in Dirs
    BY <2>2 DEF Call
  <2>4. CallCurrent(calls[m])
    BY <1>1 DEF CallsCurrent
  <2>5. \A s \in Projects, d \in Dirs :
          (calls'[j].root = s /\ calls'[j].dir = d) => CallCurrent(calls[j])'
    BY <1>2, <1>10, <1>13, <2>1, <2>4 DEF CallCurrent
  <2> QED  BY <2>1, <2>3, <2>5
<1>15. ListingsCurrent'
  <2> SUFFICES ASSUME NEW s \in Projects, NEW d \in Dirs, Tracked(s, d)' PROVE ListingCurrent(s, d)'
    BY DEF ListingsCurrent
  <2>1. CASE s = call.root /\ d = call.dir
    <3>1. s \in retained
      BY <1>2, <1>12 DEF Tracked, HeldTrees
    <3>2. trees'[s].dirs[d] = next.dirs[d]
      BY <1>2, <1>8, <2>1, <3>1
    <3>3. next.dirs[d].status = "error" \/ (call.got # Failed /\ next.dirs[d].children = call.got)
      BY <1>7, <2>1
    <3>4. call.outdated => Due(s, d)'
      BY <1>9, <2>1 DEF Due
    <3>5. ~call.outdated => call.got \in {None, Failed, version[s][d]} \/ Due(s, d)'
      <4>1. \A r \in Projects, e \in Dirs :
              (call.root = r /\ call.dir = e /\ ~call.outdated) => call.got \in {None, Failed, version[r][e]} \/ Due(r, e)
        BY <1>5 DEF CallCurrent
      <4> QED  BY <1>10, <2>1, <4>1
    <3> QED  BY <1>2, <3>2, <3>3, <3>4, <3>5 DEF ListingCurrent
  <2>2. CASE ~(s = call.root /\ d = call.dir)
    <3>1. Tracked(s, d) /\ trees'[s].dirs[d] = trees[s].dirs[d]
      BY <1>13, <2>2
    <3>2. ListingCurrent(s, d)
      BY <1>1, <3>1 DEF ListingsCurrent
    <3>3. Asked(s, d) => Asked(s, d)'
      <4> SUFFICES ASSUME NEW m \in DOMAIN calls, calls[m].root = s, calls[m].dir = d PROVE Asked(s, d)'
        BY DEF Asked
      <4>1. m # i
        BY <2>2 DEF call
      <4> QED  BY <1>11, <4>1 DEF Asked
    <3> QED  BY <1>2, <1>10, <3>1, <3>2, <3>3 DEF ListingCurrent
  <2> QED  BY <2>1, <2>2
<1>16. OtherTypes'
  BY <1>1, <1>2 DEF TreeTypes, OtherTypes
<1> QED  BY <1>2, <1>3, <1>8, <1>9, <1>11, <1>12, <1>14, <1>15, <1>16 DEF TreeInv, TreeTypes, AskedTypes

LEMMA PublishStep ==
  ASSUME TreeInv, NEW r \in Projects, PublishTree(r)
  PROVE  TreeInv'
<1> DEFINE found == affectedTrackedDirs(treeFor(trees, r), pending[r])
<1>1. TreeTypes
  BY DEF TreeInv
<1>2. /\ root' = root /\ retained' = retained /\ trees' = trees /\ calls' = calls /\ edit' = edit
      /\ version' = version
      /\ pending' = [pending EXCEPT ![r] = {}]
      /\ batch' = IF r = root /\ listener THEN batch \cup pending[r] ELSE batch
      /\ behind' = IF r = root /\ ~listener THEN [behind EXCEPT ![r] = @ \cup pending[r]] ELSE behind
      /\ away' = IF r = root THEN away ELSE [away EXCEPT ![r] = @ \cup found]
  BY DEF PublishTree
<1>3. /\ pending \in [Projects -> SUBSET Dirs] /\ behind \in [Projects -> SUBSET Dirs]
      /\ away \in [Projects -> SUBSET Dirs] /\ batch \in SUBSET Dirs
      /\ root \in Projects \cup {None} /\ (root = None => batch = {})
      /\ r # None
  BY <1>1, WindowAssumption DEF TreeTypes, AskedTypes, OtherTypes
<1>4. /\ found \in SUBSET Dirs
      /\ \A d \in pending[r] : Tracked(r, d) => d \in found
  <2>1. trees[r] # None => treeFor(trees, r) = trees[r]
    BY DEF treeFor
  <2> QED  BY <1>3, <2>1 DEF affectedTrackedDirs, Tracked
<1> HIDE DEF found
<1>5. /\ behind' \in [Projects -> SUBSET Dirs] /\ away' \in [Projects -> SUBSET Dirs]
      /\ pending' \in [Projects -> SUBSET Dirs] /\ batch' \in SUBSET Dirs /\ (root' = None => batch' = {})
  BY <1>2, <1>3, <1>4
<1>6. OtherTypes'
  BY <1>1, <1>2, <1>5 DEF TreeTypes, OtherTypes
<1>7. ASSUME NEW s \in Projects, NEW d \in Dirs, Tracked(s, d), Due(s, d) PROVE Due(s, d)'
  <2>1. CASE s # r
    <3>1. pending'[s] = pending[s] /\ behind'[s] = behind[s] /\ away'[s] = away[s] /\ batch \subseteq batch'
      BY <1>2, <1>3, <2>1
    <3> QED  BY <1>2, <1>7, <3>1 DEF Due
  <2>2. CASE s = r
    <3>1. behind[s] \subseteq behind'[s] /\ away[s] \subseteq away'[s] /\ batch \subseteq batch'
      BY <1>2, <1>3, <2>2
    <3>2. CASE d \in pending[s]
      <4>1. CASE r = root /\ listener
        BY <1>2, <2>2, <3>2, <4>1 DEF Due
      <4>2. CASE r = root /\ ~listener
        <5>1. d \in behind'[s]
          BY <1>2, <1>3, <2>2, <3>2, <4>2
        <5> QED  BY <5>1 DEF Due
      <4>3. CASE r # root
        <5>1. d \in away'[s]
          BY <1>2, <1>3, <1>4, <1>7, <2>2, <3>2, <4>3
        <5> QED  BY <5>1 DEF Due
      <4> QED  BY <4>1, <4>2, <4>3
    <3>3. CASE d \notin pending[s]
      BY <1>2, <1>7, <3>1, <3>3 DEF Due
    <3> QED  BY <3>2, <3>3
  <2> QED  BY <2>1, <2>2
<1> QED  BY <1>2, <1>5, <1>6, <1>7, OutsideStep

LEMMA EvictTreeStep ==
  ASSUME TreeInv, EvictTree
  PROVE  TreeInv'
<1>1. TreeTypes
  BY DEF TreeInv
<1>2. /\ root' = root /\ retained' = retained /\ trees' = trees /\ calls' = calls /\ edit' = edit
      /\ version' = version /\ pending' = pending /\ away' = away /\ batch # {} /\ batch' = {}
      /\ behind' = [behind EXCEPT ![root] = @ \cup batch]
  BY DEF EvictTree, outside, disk
<1>3. /\ behind \in [Projects -> SUBSET Dirs] /\ batch \in SUBSET Dirs /\ root \in Projects
  BY <1>1, <1>2 DEF TreeTypes, AskedTypes, OtherTypes
<1>4. /\ behind' \in [Projects -> SUBSET Dirs] /\ batch \subseteq behind'[root]
      /\ \A s \in Projects : behind[s] \subseteq behind'[s]
  BY <1>2, <1>3
<1>5. OtherTypes' /\ away' \in [Projects -> SUBSET Dirs]
  BY <1>1, <1>2 DEF TreeTypes, AskedTypes, OtherTypes
<1>6. \A s \in Projects, d \in Dirs : Due(s, d) => Due(s, d)'
  BY <1>2, <1>4 DEF Due
<1> QED  BY <1>2, <1>4, <1>5, <1>6, OutsideStep

(* A change of a directory is due from then on.                            *)
LEMMA TouchStep ==
  ASSUME TreeInv, NEW r \in Projects, NEW d \in Dirs, Touch(r, d),
         root' = root, retained' = retained, trees' = trees, calls' = calls, batch' = batch,
         behind' = behind, away' = away, edit' \in Edit \cup {None}
  PROVE  TreeInv'
<1>1. TreeTypes
  BY DEF TreeInv
<1>2. /\ version' = [version EXCEPT ![r][d] = @ + 1]
      /\ pending' = [pending EXCEPT ![r] = @ \cup {d}]
  BY DEF Touch
<1>3. pending \in [Projects -> SUBSET Dirs] /\ version \in [Projects -> [Dirs -> Nat]]
  BY <1>1 DEF TreeTypes, OtherTypes
<1>4. /\ pending' \in [Projects -> SUBSET Dirs] /\ d \in pending'[r]
      /\ \A s \in Projects : pending[s] \subseteq pending'[s]
  BY <1>2, <1>3
<1>5. /\ version' \in [Projects -> [Dirs -> Nat]]
      /\ \A s \in Projects, e \in Dirs : version'[s][e] # version[s][e] => s = r /\ e = d
  <2>1. [version[r] EXCEPT ![d] = @ + 1] \in [Dirs -> Nat]
    BY <1>3
  <2>2. version' = [version EXCEPT ![r] = [version[r] EXCEPT ![d] = @ + 1]]
    BY <1>2, <1>3
  <2> QED  BY <1>3, <2>1, <2>2
<1>6. \A s \in Projects, e \in Dirs : Due(s, e) \/ version'[s][e] # version[s][e] => Due(s, e)'
  BY <1>4, <1>5 DEF Due
<1>7. OtherTypes' /\ behind' \in [Projects -> SUBSET Dirs] /\ away' \in [Projects -> SUBSET Dirs]
  BY <1>1, <1>4, <1>5 DEF TreeTypes, AskedTypes, OtherTypes
<1> QED  BY <1>6, <1>7, OutsideStep

LEMMA TreeStep ==
  ASSUME TreeInv, [TreeNext]_treeVars
  PROVE  TreeInv'
<1>1. TreeTypes
  BY DEF TreeInv
<1>2. /\ behind \in [Projects -> SUBSET Dirs] /\ away \in [Projects -> SUBSET Dirs]
      /\ edit \in Edit \cup {None} /\ None \notin Edit
  BY <1>1, TreeAssumption DEF TreeTypes, AskedTypes, OtherTypes
<1>3. ASSUME NEW r \in Projects, SwitchTo(r) \/ CloseTree(r) \/ PublishTree(r) PROVE TreeInv'
  BY <1>3, SwitchStep, CloseStep, PublishStep
<1>4. ASSUME NEW r \in Projects, NEW d \in Dirs, ChangeDir(r, d) PROVE TreeInv'
  <2>1. /\ Touch(r, d) /\ root' = root /\ retained' = retained /\ trees' = trees /\ calls' = calls
        /\ batch' = batch /\ behind' = behind /\ away' = away /\ edit' = edit
    BY <1>4 DEF ChangeDir
  <2> QED  BY <1>2, <2>1, TouchStep
<1>5. ASSUME NEW d \in Dirs, Reveal(d) PROVE TreeInv'
  BY <1>5, RevealStep
<1>6. ASSUME NEW d \in Dirs, NEW gone \in Picked \cup {None}, EditEntry(d, gone) PROVE TreeInv'
  <2>1. /\ root # None /\ root' = root /\ retained' = retained /\ trees' = trees /\ calls' = calls
        /\ batch' = batch /\ behind' = behind /\ away' = away /\ pending' = pending /\ version' = version
        /\ edit' = [root |-> root, dir |-> d, gone |-> gone, done |-> FALSE]
    BY <1>6 DEF EditEntry, disk
  <2>2. edit' \in Edit
    BY <1>1, <2>1, TreeAssumption DEF TreeTypes, OtherTypes, Edit
  <2>3. OtherTypes'
    BY <1>1, <2>1, <2>2 DEF TreeTypes, OtherTypes
  <2>4. \A s \in Projects, e \in Dirs : Due(s, e) \/ version'[s][e] # version[s][e] => Due(s, e)'
    BY <2>1 DEF Due
  <2> QED  BY <1>2, <2>1, <2>3, <2>4, OutsideStep
<1>7. ASSUME AnswerEdit PROVE TreeInv'
  <2>1. /\ edit # None /\ root' = root /\ retained' = retained /\ trees' = trees /\ calls' = calls
        /\ batch' = batch /\ behind' = behind /\ away' = away
    BY <1>7 DEF AnswerEdit
  <2>2. edit \in Edit
    BY <1>2, <2>1
  <2>3. CASE edit' = [edit EXCEPT !.done = TRUE] /\ Touch(edit.root, edit.dir)
    <3>1. SUFFICES ASSUME NEW r, r = edit.root, NEW d, d = edit.dir PROVE TreeInv'
      OBVIOUS
    <3>2. Touch(r, d)
      BY <2>3, <3>1 DEF Touch
    <3>3. r \in Projects /\ d \in Dirs /\ edit' \in Edit
      BY <2>2, <2>3, <3>1 DEF Edit
    <3> QED  BY <2>1, <3>2, <3>3, TouchStep
  <2>4. CASE edit' = None /\ pending' = pending /\ version' = version
    <3>1. OtherTypes'
      BY <1>1, <2>1, <2>4 DEF TreeTypes, OtherTypes
    <3>2. \A s \in Projects, e \in Dirs : Due(s, e) \/ version'[s][e] # version[s][e] => Due(s, e)'
      BY <2>1, <2>4 DEF Due
    <3> QED  BY <1>2, <2>1, <3>1, <3>2, OutsideStep
  <2> QED  BY <1>7, <2>3, <2>4 DEF AnswerEdit, disk
<1>8. ASSUME RegisterTree PROVE TreeInv'
  <2>1. /\ root' = root /\ retained' = retained /\ trees' = trees /\ calls' = calls /\ edit' = edit
        /\ batch' = batch /\ behind' = behind /\ away' = away /\ pending' = pending /\ version' = version
    BY <1>8 DEF RegisterTree, outside, disk
  <2>2. OtherTypes'
    BY <1>1, <2>1 DEF TreeTypes, OtherTypes
  <2>3. \A s \in Projects, e \in Dirs : Due(s, e) \/ version'[s][e] # version[s][e] => Due(s, e)'
    BY <2>1 DEF Due
  <2> QED  BY <1>2, <2>1, <2>2, <2>3, OutsideStep
<1>9. ASSUME UNCHANGED treeVars PROVE TreeInv'
  <2>1. /\ root' = root /\ retained' = retained /\ trees' = trees /\ calls' = calls /\ edit' = edit
        /\ batch' = batch /\ behind' = behind /\ away' = away /\ pending' = pending /\ version' = version
    BY <1>9 DEF treeVars
  <2>2. OtherTypes'
    BY <1>1, <2>1 DEF TreeTypes, OtherTypes
  <2>3. \A s \in Projects, e \in Dirs : Due(s, e) \/ version'[s][e] # version[s][e] => Due(s, e)'
    BY <2>1 DEF Due
  <2> QED  BY <1>2, <2>1, <2>2, <2>3, OutsideStep
<1>10. ASSUME NEW x \in Paths, Locate(x) PROVE TreeInv'
  BY <1>10, LocateStep
<1>11. ASSUME NEW d \in DirPaths, Expand(d) PROVE TreeInv'
  BY <1>11, ExpandStep
<1>12. ASSUME NEW saved \in SavedShapes, Restore(saved) PROVE TreeInv'
  BY <1>12, RestoreStep
<1>13. ASSUME NEW i \in DOMAIN calls, AnswerList(i) \/ DeliverList(i) PROVE TreeInv'
  BY <1>13, AnswerListStep, DeliverListStep
<1>14. ASSUME \/ \E x \in Picked : SelectRow(x)
              \/ \E d \in Dirs : Collapse(d)
              \/ ToggleHidden
              \/ ToggleChangedOnly
       PROVE  TreeInv'
  BY <1>14, UpdateSteps
<1> QED  BY <1>3, <1>4, <1>5, <1>6, <1>7, <1>8, <1>9, <1>10, <1>11, <1>12, <1>13, <1>14,
            DeliverEditStep, EvictTreeStep, OnTreeStep DEF TreeNext

THEOREM TreeInvariant == TreeSpec => []TreeInv
<1>1. TreeInit => TreeInv
  <2> SUFFICES ASSUME TreeInit PROVE TreeInv
    OBVIOUS
  <2>1. TreeTypes
    BY DEF TreeInit, TreeTypes, AskedTypes, OtherTypes, Call
  <2> QED  BY <2>1 DEF TreeInit, TreeInv, HeldTrees, CallsCurrent, ListingsCurrent, Tracked
<1> QED  BY <1>1, TreeStep, PTL DEF TreeSpec

(* The tree of every project keeps its shape (projectTrees.ts): of each of *)
(* its listings there is one, of a directory of its own checkout.          *)
THEOREM TreesTyped == TreeSpec => []TreeTypeOK
<1>1. TreeInv => TreeTypeOK
  BY DEF TreeInv, TreeTypes, AskedTypes, OtherTypes, TreeTypeOK
<1> QED  BY <1>1, TreeInvariant, PTL

(* A listing on screen is what its directory holds once nothing more is to *)
(* come for it, however the answers of overlapping calls, the events and   *)
(* the user's switches fall: useFileTree compares no answer with a newer   *)
(* one, so this rests on its asking again after every event.               *)
THEOREM QuietListing == TreeSpec => []QuietListingIsCurrent
<1>1. TreeInv => QuietListingIsCurrent
  <2> SUFFICES ASSUME TreeInv, root # None, NEW d \in Dirs, state.dirs[d] # None,
                      batch = {}, d \notin pending[root], d \notin behind[root] \cup away[root],
                      \A i \in DOMAIN calls : <<calls[i].root, calls[i].dir>> # <<root, d>>
               PROVE  state.dirs[d].status = "error" \/ state.dirs[d].children = version[root][d]
    BY DEF QuietListingIsCurrent
  <2>1. /\ root \in Projects
        /\ trees[root] # None => state = trees[root]
        /\ trees[root] = None => \A e \in Dirs : state.dirs[e] = None
    BY StateTyped DEF TreeInv
  <2>2. Tracked(root, d) /\ state = trees[root]
    BY <2>1 DEF Tracked
  <2>3. ListingCurrent(root, d)
    BY <2>1, <2>2 DEF TreeInv, ListingsCurrent
  <2>4. ~Due(root, d) /\ ~Asked(root, d)
    BY DEF Due, Asked
  <2> QED  BY <2>2, <2>3, <2>4 DEF ListingCurrent
<1> QED  BY <1>1, TreeInvariant, PTL
=============================================================================
