-------------------------- MODULE EditorTabs_proofs --------------------------
(***************************************************************************)
(* Unsaved edits survive every answer, a baseline was on disk, and a quiet *)
(* tab agrees with the disk or says that it does not, for any number of    *)
(* files, tabs, calls and writers.                                         *)
(***************************************************************************)
EXTENDS EditorTabs, FunctionTheorems, FiniteSetTheorems, SequenceTheorems, TLAPS

-----------------------------------------------------------------------------
(* The invariant.                                                          *)

EditorCall ==
  [op : {"load", "reconcile", "restore", "save"}, key : Keys, path : Files,
   text : Text \cup {None}, got : Text \cup {None, Failed}, closes : BOOLEAN,
   outdated : BOOLEAN]

RestoreOk ==
  /\ restore.todo \in Seq(Files) /\ restore.opened \in Seq([key : Keys, path : Files])
  /\ restore = [todo |-> restore.todo, opened |-> restore.opened, saved |-> restore.saved]

(* The tabs that may be behind the disk without a call to come.            *)
Excused == late \cup stale

Types ==
  /\ tab \in [Keys -> EditorTab \cup {None}]
  /\ strip \in Seq(Keys) /\ queue \in Seq(Keys) /\ keys \in 0 .. MaxKeys
  /\ calls \in Seq(EditorCall) /\ RestoreOk
  /\ disk \in [Files -> Text \cup {None}]
  /\ onDisk \in [Files -> SUBSET Text]
  /\ changed \subseteq Files /\ Excused \subseteq Keys

(* A key in the strip is a tab, was given out, and the close prompt asks   *)
(* about open tabs only.                                                   *)
StripOk ==
  /\ \A k \in Keys : (k \in Open) <=> tab[k] # None
  /\ \A k \in Open : k <= keys
  /\ Range(queue) \subseteq Open

(* What a call under way says about the tab it is for.                     *)
CallOk(c) ==
  /\ c.key <= keys
  /\ c.key \in Open => tab[c.key].path = c.path
  /\ (c.op = "load" /\ c.key \in Open) => tab[c.key].status = "loading"
  /\ c.op = "restore" => c.key \notin Open
  /\ c.op = "save" =>
       /\ c.text \in Text /\ c.got \in {None, Failed, c.text}
       /\ c.key \in Open => tab[c.key].status = "ready" /\ tab[c.key].saving

(* Two calls of one tab: one read opened it, one write is under way, and   *)
(* nothing else happens to it while it is restored.                        *)
Apart(c, d) ==
  c.key = d.key =>
    /\ c.op # "restore" /\ d.op # "restore"
    /\ c.op = "reconcile" \/ d.op = "reconcile"

CallsOk ==
  /\ \A i \in DOMAIN calls : CallOk(calls[i])
  /\ \A i, j \in DOMAIN calls : i # j => Apart(calls[i], calls[j])

(* What tabs and calls hold of a file, the file has held.                  *)
TabOnDisk(t) ==
  /\ t.status = "ready" => t.baseline \in onDisk[t.path]
  /\ t.conflict # None => t.conflict \in onDisk[t.path]

CallOnDisk(c) == c.got \in Text => c.got \in onDisk[c.path]

HeldWasOnDisk ==
  /\ \A f \in Files : disk[f] # None => disk[f] \in onDisk[f]
  /\ \A k \in Open : TabOnDisk(tab[k])
  /\ \A i \in DOMAIN calls : CallOnDisk(calls[i])

(* Why a tab may be behind the disk: an event is due, or it is being read. *)
Due(f) == \E g \in changed : Dir[g] = Dir[f]

Rereads(c, k) == c.key = k /\ c.op = "reconcile" /\ ~c.outdated

BeingRead(k) == \E i \in DOMAIN calls : Rereads(calls[i], k)

Agrees(t) ==
  \/ disk[t.path] = None
  \/ t.conflict = None /\ t.baseline = disk[t.path]
  \/ t.conflict = disk[t.path]

(* An answer no event has outdated is the disk's.                          *)
AnswerIsDisk(c) ==
  (c.op # "save" /\ c.got # None /\ ~c.outdated) =>
    Due(c.path) \/ c.got = IF disk[c.path] = None THEN Failed ELSE disk[c.path]

(* A write that is done but not told yet will be read again.               *)
WriteIsRead(c) ==
  (c.op = "save" /\ c.got \in Text /\ c.key \in Open \ Excused) => Due(c.path) \/ BeingRead(c.key)

Known ==
  /\ \A i \in DOMAIN calls : AnswerIsDisk(calls[i]) /\ WriteIsRead(calls[i])
  /\ \A k \in Open \ Excused : tab[k].status = "ready" =>
       Due(tab[k].path) \/ BeingRead(k) \/ Agrees(tab[k])

EditorInv == Types /\ StripOk /\ CallsOk /\ HeldWasOnDisk /\ Known

-----------------------------------------------------------------------------
(* The operators.                                                          *)

(* Filtering keeps the elements that are in the set and no others.         *)
LEMMA FilteredElements ==
  ASSUME NEW A, NEW s \in Seq(A), NEW S
  PROVE  /\ filtered(s, S) \in Seq(A)
         /\ Range(filtered(s, S)) = Range(s) \cap S
<1> DEFINE at      == {i \in DOMAIN s : s[i] \in S}
           upTo(i) == Cardinality({j \in at : j <= i})
           N       == Cardinality(at)
           rank    == [i \in at |-> upTo(i)]
           nth(n)  == CHOOSE i \in at : upTo(i) = n
<1> DEFINE kept == [n \in 1 .. N |-> s[nth(n)]]
<1>1. /\ DOMAIN s = 1 .. Len(s) /\ Len(s) \in Nat
      /\ \A i \in DOMAIN s : s[i] \in A
  OBVIOUS
<1>2. at \subseteq 1 .. Len(s) /\ IsFiniteSet(at) /\ N \in Nat
  <2>1. 1 \in Int /\ Len(s) \in Int /\ at \in SUBSET (1 .. Len(s))
    BY <1>1
  <2>2. IsFiniteSet(1 .. Len(s))
    BY <2>1, FS_Interval
  <2>3. IsFiniteSet(at)
    BY <2>1, <2>2, FS_Subset
  <2> QED  BY <2>1, <2>3, FS_CardinalityType
<1>3. \A i \in at : upTo(i) \in 1 .. N
  <2> TAKE i \in at
  <2> DEFINE first == {j \in at : j <= i}
  <2>1. first \subseteq at /\ i \in first
    BY <1>1, <1>2
  <2>2. IsFiniteSet(first) /\ Cardinality(first) <= N /\ Cardinality(first) \in Nat
    BY <1>2, <2>1, FS_Subset, FS_CardinalityType
  <2>3. Cardinality(first) # 0
    BY <2>1, <2>2, FS_EmptySet
  <2> HIDE DEF first
  <2>4. Cardinality(first) \in 1 .. N
    BY <1>2, <2>2, <2>3
  <2> QED  BY <2>4 DEF first
<1>4. \A i, k \in at : i < k => upTo(i) < upTo(k)
  <2> TAKE i, k \in at
  <2> HAVE i < k
  <2> DEFINE F == {j \in at : j <= i}
             G == {j \in at : j <= k}
  <2>1. F \subseteq G /\ k \in G /\ k \notin F /\ G \subseteq at
    BY <1>1, <1>2
  <2>2. IsFiniteSet(G) /\ Cardinality(G) \in Nat /\ IsFiniteSet(F) /\ Cardinality(F) \in Nat
    BY <1>2, <2>1, FS_Subset, FS_CardinalityType
  <2> HIDE DEF F, G
  <2>3. Cardinality(F) <= Cardinality(G) /\ Cardinality(F) # Cardinality(G)
    BY <2>1, <2>2, FS_Subset
  <2>4. Cardinality(F) < Cardinality(G)
    BY <2>2, <2>3
  <2> QED  BY <2>4 DEF F, G
<1> HIDE DEF upTo
<1>5. \A i, k \in at : upTo(i) = upTo(k) => i = k
  <2> TAKE i, k \in at
  <2>1. i \in Nat /\ k \in Nat /\ upTo(i) \in Nat /\ upTo(k) \in Nat
    BY <1>1, <1>2, <1>3
  <2> QED  BY <1>4, <2>1
<1> HIDE DEF at, N
<1>6. rank \in Injection(at, 1 .. N)
  <2>1. rank \in [at -> 1 .. N]
    BY <1>3
  <2>2. \A i, k \in at : rank[i] = rank[k] => i = k
    BY <1>5
  <2> QED  BY <2>1, <2>2, Fun_IsInj
<1>7. rank \in Surjection(at, 1 .. N)
  <2>1. IsFiniteSet(1 .. N) /\ Cardinality(1 .. N) = N
    <3>1. 1 \in Int /\ N \in Int
      BY <1>2
    <3> QED  BY <1>2, <3>1, FS_Interval
  <2>2. Cardinality(at) = N
    BY DEF N
  <2> QED  BY <1>6, <2>1, <2>2, FS_Injection
<1>8. \A n \in 1 .. N : nth(n) \in at /\ upTo(nth(n)) = n
  <2> TAKE n \in 1 .. N
  <2>1. \A i \in at : rank[i] = upTo(i)
    OBVIOUS
  <2> HIDE DEF rank
  <2>2. \E i \in at : rank[i] = n
    BY <1>7, Fun_SurjectionProperties DEF Surjection
  <2> QED  BY <2>1, <2>2
<1>9. \A i \in at : nth(upTo(i)) = i
  BY <1>3, <1>5, <1>8
<1> HIDE DEF nth
<1>10. filtered(s, S) = kept
  BY DEF filtered, nth, upTo, N, at
<1>11. \A i \in at : i \in DOMAIN s /\ s[i] \in S
  BY DEF at
<1>12. kept \in Seq(A)
  <2>1. kept \in [1 .. N -> A]
    BY <1>1, <1>8, <1>11
  <2> QED  BY <1>2, <2>1, SeqDef
<1>13. DOMAIN kept = 1 .. N
  OBVIOUS
<1>14. \A n \in DOMAIN kept : \E i \in DOMAIN s : kept[n] = s[i] /\ s[i] \in S
  BY <1>8, <1>11
<1>15. \A i \in DOMAIN s : s[i] \in S => \E n \in DOMAIN kept : kept[n] = s[i]
  <2> TAKE i \in DOMAIN s
  <2> HAVE s[i] \in S
  <2>1. i \in at
    BY DEF at
  <2> QED  BY <1>3, <1>9, <2>1
<1> HIDE DEF kept
<1> QED  BY <1>10, <1>12, <1>14, <1>15 DEF Range

(* Taking out an element keeps the others, each once.                      *)
LEMMA RemovedElements ==
  ASSUME NEW A, NEW s \in Seq(A), NEW i \in DOMAIN s
  PROVE  /\ RemoveAt(s, i) \in Seq(A)
         /\ \A j \in DOMAIN RemoveAt(s, i) :
              LET m == IF j < i THEN j ELSE j + 1
              IN  m \in DOMAIN s \ {i} /\ RemoveAt(s, i)[j] = s[m]
         /\ \A m \in DOMAIN s \ {i} : \E j \in DOMAIN RemoveAt(s, i) : RemoveAt(s, i)[j] = s[m]
<1> DEFINE before == SubSeq(s, 1, i - 1)
           after  == SubSeq(s, i + 1, Len(s))
<1>1. i \in 1 .. Len(s) /\ Len(s) \in Nat /\ DOMAIN s = 1 .. Len(s)
  OBVIOUS
<1>2. before \in Seq(A) /\ Len(before) = i - 1 /\ \A j \in 1 .. i - 1 : before[j] = s[j]
  BY <1>1
<1>3. after \in Seq(A) /\ Len(after) = Len(s) - i /\ \A j \in 1 .. Len(s) - i : after[j] = s[i + j]
  BY <1>1
<1>4. RemoveAt(s, i) = before \o after
  BY DEF RemoveAt
<1> HIDE DEF before, after
<1> DEFINE r == before \o after
<1>5. /\ r \in Seq(A) /\ Len(r) = Len(s) - 1 /\ DOMAIN r = 1 .. Len(s) - 1
      /\ \A j \in 1 .. Len(before) + Len(after) :
           r[j] = IF j <= Len(before) THEN before[j] ELSE after[j - Len(before)]
  <2>1. r \in Seq(A) /\ Len(r) = Len(before) + Len(after)
    BY <1>2, <1>3, ConcatProperties
  <2>2. \A j \in 1 .. Len(before) + Len(after) :
           r[j] = IF j <= Len(before) THEN before[j] ELSE after[j - Len(before)]
    BY <1>2, <1>3, ConcatProperties
  <2>3. Len(r) = Len(s) - 1
    BY <1>1, <1>2, <1>3, <2>1
  <2> QED  BY <2>1, <2>2, <2>3, LenProperties
<1> HIDE DEF r
<1>6. \A j \in DOMAIN r : r[j] = s[IF j < i THEN j ELSE j + 1]
  <2> TAKE j \in DOMAIN r
  <2>0. j \in 1 .. Len(s) - 1 /\ Len(before) + Len(after) = Len(s) - 1
    BY <1>1, <1>2, <1>3, <1>5
  <2>1. CASE j < i
    BY <1>1, <1>2, <1>5, <2>0, <2>1
  <2>2. CASE ~(j < i)
    <3>1. r[j] = after[j - (i - 1)] /\ j - (i - 1) \in 1 .. Len(s) - i
      BY <1>1, <1>2, <1>5, <2>0, <2>2, SMTT(30)
    <3>2. i + (j - (i - 1)) = j + 1
      BY <1>1, <2>0
    <3> QED  BY <1>3, <2>2, <3>1, <3>2
  <2> QED  BY <2>1, <2>2
<1>7. \A m \in DOMAIN s \ {i} : \E j \in DOMAIN r : r[j] = s[m]
  <2> TAKE m \in DOMAIN s \ {i}
  <2>1. CASE m < i
    BY <1>1, <1>5, <1>6, <2>1
  <2>2. CASE m > i
    <3>1. m - 1 \in DOMAIN r /\ ~(m - 1 < i) /\ m - 1 + 1 = m
      BY <1>1, <1>5, <2>2
    <3> QED  BY <1>6, <3>1
  <2> QED  BY <1>1, <2>1, <2>2
<1>8. \A j \in DOMAIN r :
        LET m == IF j < i THEN j ELSE j + 1
        IN  m \in DOMAIN s \ {i} /\ r[j] = s[m]
  BY <1>1, <1>5, <1>6
<1> QED  BY <1>4, <1>5, <1>7, <1>8 DEF r

(* An operation on a tab leaves a tab of the same file.                    *)
LEMMA TabOperations ==
  /\ \A f \in Files : newTab(f) \in EditorTab /\ newTab(f).path = f
  /\ \A t \in EditorTab, text \in Text :
       /\ withLoaded(t, text) \in EditorTab /\ withLoaded(t, text).path = t.path
       /\ withEdit(t, text) \in EditorTab /\ withEdit(t, text).path = t.path
       /\ withSaved(t, text) \in EditorTab /\ withSaved(t, text).path = t.path
       /\ withExternalChange(t, text) \in EditorTab
       /\ withExternalChange(t, text).path = t.path
  /\ \A t \in EditorTab :
       /\ withError(t) \in EditorTab /\ withError(t).path = t.path
       /\ withSaving(t) \in EditorTab /\ withSaving(t).path = t.path
       /\ withSaveFailed(t) \in EditorTab /\ withSaveFailed(t).path = t.path
<1>1. FirstText \in Text
  BY EditorAssumption
<1>2. \A f \in Files : newTab(f) \in EditorTab /\ newTab(f).path = f
  BY <1>1 DEF newTab, EditorTab
<1>3. ASSUME NEW t \in EditorTab, NEW text \in Text
      PROVE  withLoaded(t, text) \in EditorTab /\ withLoaded(t, text).path = t.path
  <2> DEFINE mixed == text \in MixedText
  <2>1. mixed \in BOOLEAN
    OBVIOUS
  <2>2. withLoaded(t, text) = [t EXCEPT !.status = "ready", !.content = text, !.baseline = text,
                                        !.readOnly = mixed, !.conflict = None]
    BY DEF withLoaded
  <2> HIDE DEF mixed
  <2> QED  BY <2>1, <2>2 DEF EditorTab
<1>4. ASSUME NEW t \in EditorTab, NEW text \in Text
      PROVE  /\ withEdit(t, text) \in EditorTab /\ withEdit(t, text).path = t.path
             /\ withSaved(t, text) \in EditorTab /\ withSaved(t, text).path = t.path
  <2>1. [t EXCEPT !.content = text] \in EditorTab /\ [t EXCEPT !.content = text].path = t.path
    BY DEF EditorTab
  <2>2. withSaved(t, text) \in EditorTab /\ withSaved(t, text).path = t.path
    BY DEF withSaved, EditorTab
  <2> QED  BY <2>1, <2>2 DEF withEdit
<1>5. ASSUME NEW t \in EditorTab, NEW text \in Text
      PROVE  /\ withExternalChange(t, text) \in EditorTab
             /\ withExternalChange(t, text).path = t.path
  <2>1. [t EXCEPT !.conflict = text] \in EditorTab /\ [t EXCEPT !.conflict = text].path = t.path
    BY DEF EditorTab
  <2> QED  BY <1>3, <2>1 DEF withExternalChange
<1>6. ASSUME NEW t \in EditorTab
      PROVE  /\ withError(t) \in EditorTab /\ withError(t).path = t.path
             /\ withSaving(t) \in EditorTab /\ withSaving(t).path = t.path
             /\ withSaveFailed(t) \in EditorTab /\ withSaveFailed(t).path = t.path
  BY DEF withError, withSaving, withSaveFailed, EditorTab
<1> QED  BY <1>2, <1>3, <1>4, <1>5, <1>6

(* An open tab is one, and what it holds has its type.                     *)
LEMMA OpenTab ==
  ASSUME Types, StripOk, NEW k \in Open
  PROVE  /\ k \in Keys /\ k \in Nat /\ k <= keys /\ tab[k] \in EditorTab
         /\ tab[k].path \in Files /\ tab[k].baseline \in Text
         /\ tab[k].conflict \in Text \cup {None}
<1>1. k \in Keys
  BY DEF Open, Range, Types
<1>2. tab[k] \in EditorTab
  BY <1>1 DEF Types, StripOk
<1> QED  BY <1>1, <1>2 DEF EditorTab, StripOk, Keys

LEMMA CallTypes ==
  ASSUME Types, NEW i \in DOMAIN calls
  PROVE  /\ calls[i] \in EditorCall
         /\ calls[i].op \in {"load", "reconcile", "restore", "save"}
         /\ calls[i].key \in Keys /\ calls[i].key \in Nat /\ calls[i].path \in Files
         /\ calls[i].text \in Text \cup {None} /\ calls[i].got \in Text \cup {None, Failed}
         /\ calls[i].outdated \in BOOLEAN
<1>1. calls[i] \in EditorCall
  BY DEF Types
<1> QED  BY <1>1 DEF EditorCall, Keys

(* Some of the open tabs are closed.                                       *)
LEMMA ClosedTabs ==
  ASSUME Types, NEW closing, NEW asked \in Seq(Keys), Range(asked) \subseteq Open, StripOk,
         CloseTabs(closing, asked)
  PROVE  /\ strip' \in Seq(Keys) /\ Open' = Open \ closing
         /\ queue' \in Seq(Keys) /\ Range(queue') = Range(asked) \ closing
         /\ tab' \in [Keys -> EditorTab \cup {None}]
         /\ \A k \in Keys : tab'[k] = IF k \in closing THEN None ELSE tab[k]
<1>1. strip \in Seq(Keys)
  BY DEF Types
<1>2. Range(strip) \subseteq Keys /\ Range(asked) \subseteq Keys
  BY <1>1 DEF Range
<1>3. /\ strip' \in Seq(Keys) /\ Range(strip') = Range(strip) \cap (Keys \ closing)
      /\ queue' \in Seq(Keys) /\ Range(queue') = Range(asked) \cap (Keys \ closing)
  BY <1>1, FilteredElements DEF CloseTabs
<1>4. tab' = [k \in Keys |-> IF k \in closing THEN None ELSE tab[k]]
  BY DEF CloseTabs
<1> QED  BY <1>2, <1>3, <1>4 DEF Open, Types

LEMMA AppendedElements ==
  ASSUME NEW A, NEW s \in Seq(A), NEW e \in A
  PROVE  /\ Append(s, e) \in Seq(A)
         /\ DOMAIN Append(s, e) = DOMAIN s \cup {Len(s) + 1} /\ Len(s) + 1 \notin DOMAIN s
         /\ \A i \in DOMAIN s : Append(s, e)[i] = s[i]
         /\ Append(s, e)[Len(s) + 1] = e
         /\ Range(Append(s, e)) = Range(s) \cup {e}
<1>1. /\ Len(s) \in Nat /\ DOMAIN s = 1 .. Len(s)
      /\ Append(s, e) \in Seq(A) /\ Len(Append(s, e)) = Len(s) + 1
      /\ DOMAIN Append(s, e) = 1 .. Len(s) + 1
      /\ \A i \in 1 .. Len(s) : Append(s, e)[i] = s[i]
      /\ Append(s, e)[Len(s) + 1] = e
  OBVIOUS
<1>2. 1 .. Len(s) + 1 = (1 .. Len(s)) \cup {Len(s) + 1} /\ Len(s) + 1 \notin 1 .. Len(s)
  BY <1>1
<1>3. Range(Append(s, e)) = Range(s) \cup {e}
  BY <1>1, <1>2 DEF Range
<1> QED  BY <1>1, <1>2, <1>3

-----------------------------------------------------------------------------
(* The steps that change little.                                           *)

(* What the invariant is about stays as it is.                             *)
LEMMA Undisturbed ==
  ASSUME EditorInv, UNCHANGED <<tab, strip, keys, calls, disk, changed, onDisk, Excused>>,
         queue' \in Seq(Keys), Range(queue') \subseteq Range(queue),
         RestoreOk'
  PROVE  EditorInv'
<1>1. Types'
  BY DEF EditorInv, Types, RestoreOk
<1>2. StripOk'
  BY DEF EditorInv, StripOk, Open
<1>3. CallsOk'
  BY DEF EditorInv, CallsOk, CallOk, Open
<1>4. HeldWasOnDisk'
  BY DEF EditorInv, HeldWasOnDisk, TabOnDisk, CallOnDisk, Open
<1>5. Known'
  BY DEF EditorInv, Known, AnswerIsDisk, WriteIsRead, Due, BeingRead, Agrees, Open
<1> QED  BY <1>1, <1>2, <1>3, <1>4, <1>5 DEF EditorInv

(* The user works on one tab: what a save sees of it stays, and it does    *)
(* not fall behind the disk.                                               *)
LEMMA Worked ==
  ASSUME EditorInv, NEW k \in Open, NEW t \in EditorTab,
         tab' = [tab EXCEPT ![k] = t],
         UNCHANGED <<strip, keys, queue, calls, restore, disk, changed, onDisk, Excused>>,
         t.path = tab[k].path, t.status = tab[k].status, t.saving = tab[k].saving,
         TabOnDisk(t), Agrees(tab[k]) => Agrees(t)
  PROVE  EditorInv'
<1>1. /\ Types /\ StripOk /\ k \in Keys /\ t # None
      /\ tab' \in [Keys -> EditorTab \cup {None}]
      /\ tab'[k] = t /\ \A o \in Keys \ {k} : tab'[o] = tab[o]
      /\ Open' = Open
  BY OpenTab, EditorAssumption DEF EditorInv, Types, Open
<1>2. Types'
  BY <1>1 DEF Types, RestoreOk
<1>3. StripOk'
  BY <1>1 DEF StripOk
<1>4. CallsOk'
  <2> SUFFICES ASSUME NEW i \in DOMAIN calls PROVE CallOk(calls[i])'
    BY DEF EditorInv, CallsOk, Apart
  <2>1. CallOk(calls[i]) /\ calls[i].key \in Keys
    BY CallTypes DEF EditorInv, CallsOk
  <2>2. CASE calls[i].key = k
    BY <1>1, <2>1, <2>2 DEF CallOk
  <2>3. CASE calls[i].key # k
    BY <1>1, <2>1, <2>3 DEF CallOk
  <2> QED  BY <2>2, <2>3
<1>5. HeldWasOnDisk'
  BY <1>1, OpenTab DEF EditorInv, HeldWasOnDisk, TabOnDisk, CallOnDisk
<1>6. Known'
  <2>1. \A i \in DOMAIN calls' : AnswerIsDisk(calls[i])' /\ WriteIsRead(calls[i])'
    BY <1>1 DEF EditorInv, Known, AnswerIsDisk, WriteIsRead, Due, BeingRead
  <2>2. ASSUME NEW o \in Open' \ Excused', tab'[o].status = "ready"
        PROVE  Due(tab[o].path)' \/ BeingRead(o)' \/ Agrees(tab[o])'
    <3>1. tab[o].status = "ready" /\ o \in Open \ Excused /\ tab'[o].path = tab[o].path /\ o \in Keys
      BY <1>1, <2>2, OpenTab
    <3>2. Due(tab[o].path) \/ BeingRead(o) \/ Agrees(tab[o])
      BY <3>1 DEF EditorInv, Known
    <3>3. Agrees(tab[o]) => Agrees(tab[o])'
      BY <1>1, <3>1 DEF Agrees
    <3> QED  BY <3>1, <3>2, <3>3 DEF Due, BeingRead
  <2> QED  BY <2>1, <2>2 DEF Known
<1> QED  BY <1>2, <1>3, <1>4, <1>5, <1>6 DEF EditorInv

-----------------------------------------------------------------------------
(* A call is answered and gone.                                            *)

(* What is left of the calls.                                              *)
FewerCalls ==
  /\ calls' \in Seq(EditorCall)
  /\ \A j \in DOMAIN calls' : \E i \in DOMAIN calls : calls'[j] = calls[i]
  /\ \A j, l \in DOMAIN calls' : j # l => Apart(calls'[j], calls'[l])

LEMMA CallTaken ==
  ASSUME EditorInv, NEW i \in DOMAIN calls, calls' = RemoveAt(calls, i)
  PROVE  /\ FewerCalls
         /\ \A j \in DOMAIN calls' : \E m \in DOMAIN calls \ {i} : calls'[j] = calls[m]
         /\ \A k \in Keys : (BeingRead(k) /\ ~Rereads(calls[i], k)) => BeingRead(k)'
<1>1. calls \in Seq(EditorCall)
  BY DEF EditorInv, Types
<1>2. /\ calls' \in Seq(EditorCall)
      /\ \A j \in DOMAIN calls' :
           LET m == IF j < i THEN j ELSE j + 1 IN m \in DOMAIN calls \ {i} /\ calls'[j] = calls[m]
      /\ \A m \in DOMAIN calls \ {i} : \E j \in DOMAIN calls' : calls'[j] = calls[m]
  BY <1>1, RemovedElements
<1>3. \A j, l \in DOMAIN calls' : j # l => Apart(calls'[j], calls'[l])
  <2> SUFFICES ASSUME NEW j \in DOMAIN calls', NEW l \in DOMAIN calls', j # l
               PROVE  Apart(calls'[j], calls'[l])
    OBVIOUS
  <2> DEFINE m == IF j < i THEN j ELSE j + 1
             n == IF l < i THEN l ELSE l + 1
  <2>1. /\ m \in DOMAIN calls /\ n \in DOMAIN calls
        /\ calls'[j] = calls[m] /\ calls'[l] = calls[n]
    BY <1>2
  <2>2. j \in Nat /\ l \in Nat /\ i \in Nat
    BY <1>1, <1>2
  <2>3. m # n
    BY <2>2
  <2> HIDE DEF m, n
  <2> QED  BY <2>1, <2>3 DEF EditorInv, CallsOk
<1>4. \A k \in Keys : (BeingRead(k) /\ ~Rereads(calls[i], k)) => BeingRead(k)'
  BY <1>2 DEF BeingRead, Rereads
<1> QED  BY <1>2, <1>3, <1>4 DEF FewerCalls

(* The answer changes at most the tab it is for.                           *)
LEMMA Delivered ==
  ASSUME EditorInv, NEW i \in DOMAIN calls, NEW k \in Keys, k = calls[i].key, NEW t,
         calls' = RemoveAt(calls, i), Patch(k, t),
         UNCHANGED <<strip, keys, queue, restore, disk, changed, onDisk>>,
         Excused' \in SUBSET Keys, Excused' \cup {k} = Excused \cup {k},
         k \in Open => t \in EditorTab /\ t.path = tab[k].path /\ TabOnDisk(t),
         k \in Open => \A j \in DOMAIN calls \ {i} : calls[j].key = k =>
           /\ calls[j].op = "load" => t.status = "loading"
           /\ calls[j].op = "save" => t.status = "ready" /\ t.saving
           /\ (calls[j].op = "save" /\ calls[j].got \in Text /\ k \notin Excused') =>
                Due(tab[k].path) \/ BeingRead(k)',
         (k \in Open \ Excused' /\ t.status = "ready") =>
           Due(tab[k].path) \/ BeingRead(k)' \/ Agrees(t)
  PROVE  EditorInv'
<1>1. Types /\ StripOk /\ Open' = Open
  BY DEF EditorInv, Open
<1>2. FewerCalls
  BY CallTaken
<1>3. \A j \in DOMAIN calls' : \E m \in DOMAIN calls \ {i} : calls'[j] = calls[m]
  BY CallTaken
<1>4. \A o \in Keys \ {k} : BeingRead(o) => BeingRead(o)'
  <2>1. \A o \in Keys \ {k} : ~Rereads(calls[i], o)
    BY DEF Rereads
  <2> QED  BY <2>1, CallTaken
<1>5. /\ tab' \in [Keys -> EditorTab \cup {None}]
      /\ \A o \in Keys \ {k} : tab'[o] = tab[o]
      /\ k \in Open => tab'[k] = t /\ tab'[k] # None
      /\ k \notin Open => tab'[k] = tab[k]
  BY <1>1, EditorAssumption DEF Types, Patch
<1>6. Types'
  BY <1>1, <1>2, <1>5 DEF Types, FewerCalls, RestoreOk
<1>7. StripOk'
  BY <1>1, <1>5 DEF StripOk
<1>8. CallsOk'
  <2>1. ASSUME NEW j \in DOMAIN calls' PROVE CallOk(calls[j])'
    <3>1. PICK m \in DOMAIN calls \ {i} : calls'[j] = calls[m]
      BY <1>3
    <3>2. CallOk(calls[m]) /\ calls[m].key \in Keys
      BY <1>1, CallTypes DEF EditorInv, CallsOk
    <3>3. CASE calls[m].key = k
      BY <1>1, <1>5, <3>1, <3>2, <3>3 DEF CallOk
    <3>4. CASE calls[m].key # k
      BY <1>1, <1>5, <3>1, <3>2, <3>4 DEF CallOk
    <3> QED  BY <3>3, <3>4
  <2> QED  BY <1>2, <2>1 DEF CallsOk, FewerCalls, Apart
<1>9. HeldWasOnDisk'
  <2>1. \A f \in Files : disk'[f] # None => disk'[f] \in onDisk'[f]
    BY DEF EditorInv, HeldWasOnDisk
  <2>2. \A o \in Open' : TabOnDisk(tab[o])'
    BY <1>1, <1>5, OpenTab DEF EditorInv, HeldWasOnDisk, TabOnDisk
  <2>3. \A j \in DOMAIN calls' : CallOnDisk(calls[j])'
    BY <1>3 DEF EditorInv, HeldWasOnDisk, CallOnDisk
  <2> QED  BY <2>1, <2>2, <2>3 DEF HeldWasOnDisk
<1>10. Known'
  <2>1. ASSUME NEW j \in DOMAIN calls' PROVE AnswerIsDisk(calls[j])' /\ WriteIsRead(calls[j])'
    <3>1. PICK m \in DOMAIN calls \ {i} : calls'[j] = calls[m]
      BY <1>3
    <3>2. /\ AnswerIsDisk(calls[m]) /\ WriteIsRead(calls[m]) /\ CallOk(calls[m])
          /\ calls[m].key \in Keys
      BY <1>1, CallTypes DEF EditorInv, Known, CallsOk
    <3>3. AnswerIsDisk(calls[j])'
      <4>1. AnswerIsDisk(calls[m])
        BY <3>2
      <4> QED  BY <3>1, <4>1 DEF AnswerIsDisk, Due
    <3>4. CASE calls[m].key = k
      <4>1. (k \in Open \ Excused' /\ calls[m].op = "save" /\ calls[m].got \in Text) =>
              Due(tab[k].path) \/ BeingRead(k)'
        BY <3>4
      <4>2. k \in Open => tab[k].path = calls[m].path
        BY <3>2, <3>4 DEF CallOk
      <4> QED  BY <1>1, <3>1, <3>3, <3>4, <4>1, <4>2 DEF WriteIsRead, Due
    <3>5. CASE calls[m].key # k
      BY <1>1, <1>4, <3>1, <3>3, <3>2, <3>5 DEF WriteIsRead, Due
    <3> QED  BY <3>3, <3>4, <3>5
  <2>2. ASSUME NEW o \in Open' \ Excused', tab'[o].status = "ready"
        PROVE  Due(tab[o].path)' \/ BeingRead(o)' \/ Agrees(tab[o])'
    <3>1. o \in Open /\ o \in Keys
      BY <1>1, OpenTab
    <3>2. CASE o = k
      BY <1>5, <2>2, <3>1, <3>2 DEF Due, Agrees
    <3>3. CASE o # k
      <4>1. o \in Open \ Excused /\ tab'[o] = tab[o]
        BY <1>5, <3>1, <3>3, <2>2
      <4>2. Due(tab[o].path) \/ BeingRead(o) \/ Agrees(tab[o])
        BY <2>2, <4>1 DEF EditorInv, Known
      <4> QED  BY <1>4, <3>1, <3>3, <4>1, <4>2 DEF Due, Agrees
    <3> QED  BY <3>2, <3>3
  <2> QED  BY <2>1, <2>2 DEF Known
<1> QED  BY <1>6, <1>7, <1>8, <1>9, <1>10 DEF EditorInv

(* Tabs are closed, perhaps because the save they waited for is done.      *)
LEMMA Closed ==
  ASSUME EditorInv, NEW closing,
         strip' \in Seq(Keys), Open' = Open \ closing,
         queue' \in Seq(Keys), Range(queue') \subseteq Open',
         tab' \in [Keys -> EditorTab \cup {None}],
         \A k \in Keys : tab'[k] = IF k \in closing THEN None ELSE tab[k],
         FewerCalls, \A k \in Keys \ closing : BeingRead(k) => BeingRead(k)',
         RestoreOk', UNCHANGED <<keys, disk, changed, onDisk, Excused>>
  PROVE  EditorInv'
<1>1. Types /\ StripOk
  BY DEF EditorInv
<1>2. Types'
  BY <1>1 DEF Types, FewerCalls, RestoreOk
<1>3. StripOk'
  BY <1>1 DEF StripOk
<1>4. CallsOk'
  <2>1. ASSUME NEW j \in DOMAIN calls' PROVE CallOk(calls[j])'
    <3>1. PICK i \in DOMAIN calls : calls'[j] = calls[i]
      BY DEF FewerCalls
    <3>2. CallOk(calls[i]) /\ calls[i].key \in Keys
      BY <1>1, CallTypes DEF EditorInv, CallsOk
    <3> QED  BY <3>1, <3>2 DEF CallOk
  <2> QED  BY <2>1 DEF CallsOk, FewerCalls, Apart
<1>5. HeldWasOnDisk'
  <2>1. \A k \in Open' : k \in Open /\ tab'[k] = tab[k]
    BY <1>1, OpenTab
  <2>2. \A k \in Open' : TabOnDisk(tab[k])'
    BY <2>1 DEF EditorInv, HeldWasOnDisk, TabOnDisk
  <2>3. \A j \in DOMAIN calls' : CallOnDisk(calls[j])'
    BY DEF EditorInv, HeldWasOnDisk, CallOnDisk, FewerCalls
  <2> QED  BY <2>2, <2>3 DEF EditorInv, HeldWasOnDisk
<1>6. Known'
  <2>1. ASSUME NEW j \in DOMAIN calls' PROVE AnswerIsDisk(calls[j])' /\ WriteIsRead(calls[j])'
    <3>1. PICK i \in DOMAIN calls : calls'[j] = calls[i]
      BY DEF FewerCalls
    <3>2. AnswerIsDisk(calls[i]) /\ WriteIsRead(calls[i]) /\ calls[i].key \in Keys
      BY <1>1, CallTypes DEF EditorInv, Known
    <3>3. AnswerIsDisk(calls[j])'
      <4>1. AnswerIsDisk(calls[i])
        BY <3>2
      <4> QED  BY <3>1, <4>1 DEF AnswerIsDisk, Due
    <3>4. WriteIsRead(calls[j])'
      <4>1. WriteIsRead(calls[i])
        BY <3>2
      <4> QED  BY <3>1, <3>2, <4>1 DEF WriteIsRead, Due
    <3> QED  BY <3>3, <3>4
  <2>2. ASSUME NEW k \in Open' \ Excused', tab'[k].status = "ready"
        PROVE  Due(tab[k].path)' \/ BeingRead(k)' \/ Agrees(tab[k])'
    <3>1. k \in Open \ Excused /\ k \in Keys /\ tab'[k] = tab[k]
      BY <1>1, OpenTab
    <3>2. Due(tab[k].path) \/ BeingRead(k) \/ Agrees(tab[k])
      BY <2>2, <3>1 DEF EditorInv, Known
    <3> QED  BY <3>1, <3>2 DEF Due, Agrees
  <2> QED  BY <2>1, <2>2 DEF Known
<1> QED  BY <1>2, <1>3, <1>4, <1>5, <1>6 DEF EditorInv

(* The same calls go on.                                                   *)
LEMMA SameCalls ==
  ASSUME EditorInv, calls' = calls
  PROVE  FewerCalls /\ \A k \in Keys : BeingRead(k) => BeingRead(k)'
  BY DEF EditorInv, Types, CallsOk, FewerCalls, BeingRead

(* A call under way is still right about its tab.                          *)
StillOk(c) ==
  /\ keys <= keys'
  /\ c.key \in Open' <=> c.key \in Open
  /\ c.key \in Open =>
       /\ tab'[c.key].path = tab[c.key].path
       /\ c.op = "load" => tab'[c.key].status = tab[c.key].status
       /\ c.op = "save" => tab'[c.key].status = tab[c.key].status /\ tab'[c.key].saving

(* A call starts.                                                          *)
LEMMA Asked ==
  ASSUME EditorInv, keys' \in Nat, NEW c \in EditorCall, calls' = Append(calls, c), c.got = None,
         \A i \in DOMAIN calls : Apart(calls[i], c) /\ StillOk(calls[i]),
         NEW n, n = Len(calls) + 1, CallOk(calls[n])',
         UNCHANGED <<disk, changed, onDisk, Excused>>
  PROVE  /\ calls' \in Seq(EditorCall) /\ CallsOk'
         /\ \A k \in Keys : BeingRead(k) => BeingRead(k)'
         /\ \A i \in DOMAIN calls' :
              CallOnDisk(calls[i])' /\ AnswerIsDisk(calls[i])' /\ WriteIsRead(calls[i])'
<1>1. /\ calls' \in Seq(EditorCall) /\ DOMAIN calls' = DOMAIN calls \cup {n}
      /\ \A i \in DOMAIN calls : calls'[i] = calls[i]
      /\ calls'[n] = c /\ n \notin DOMAIN calls
  BY AppendedElements DEF EditorInv, Types
<1>2. \A k \in Keys : BeingRead(k) => BeingRead(k)'
  BY <1>1 DEF BeingRead
<1>3. ASSUME NEW i \in DOMAIN calls
      PROVE  /\ CallOk(calls[i])'
             /\ CallOnDisk(calls[i])' /\ AnswerIsDisk(calls[i])' /\ WriteIsRead(calls[i])'
  <2>1. /\ CallOk(calls[i]) /\ StillOk(calls[i]) /\ calls'[i] = calls[i]
        /\ calls[i].key \in Keys /\ calls[i].key \in Nat /\ keys \in Nat
    BY <1>1, CallTypes DEF EditorInv, CallsOk, Types
  <2>2. CallOk(calls[i])'
    BY <2>1 DEF CallOk, StillOk
  <2>3. CallOnDisk(calls[i])'
    <3>1. CallOnDisk(calls[i])
      BY DEF EditorInv, HeldWasOnDisk
    <3> QED  BY <2>1, <3>1 DEF CallOnDisk
  <2>4. AnswerIsDisk(calls[i])'
    <3>1. AnswerIsDisk(calls[i])
      BY DEF EditorInv, Known
    <3> QED  BY <2>1, <3>1 DEF AnswerIsDisk, Due
  <2>5. WriteIsRead(calls[i])'
    <3>1. WriteIsRead(calls[i])
      BY DEF EditorInv, Known
    <3> QED  BY <1>2, <2>1, <3>1 DEF WriteIsRead, Due, StillOk
  <2> QED  BY <2>2, <2>3, <2>4, <2>5
<1>4. CallOnDisk(calls[n])' /\ AnswerIsDisk(calls[n])' /\ WriteIsRead(calls[n])'
  BY <1>1, EditorAssumption DEF CallOnDisk, AnswerIsDisk, WriteIsRead
<1>5. \A i, j \in DOMAIN calls' : i # j => Apart(calls'[i], calls'[j])
  BY <1>1 DEF EditorInv, CallsOk, Apart
<1>6. \A i \in DOMAIN calls' : CallOk(calls[i])'
  BY <1>1, <1>3
<1>7. CallsOk'
  BY <1>5, <1>6 DEF CallsOk, Apart
<1> QED  BY <1>1, <1>2, <1>3, <1>4, <1>7

-----------------------------------------------------------------------------
(* The steps of the user.                                                  *)

LEMMA OpenFileInv ==
  ASSUME EditorInv, NEW f \in Files, OpenFile(f)
  PROVE  EditorInv'
<1>1. CASE findTab(f) # {} /\ UNCHANGED <<tab, strip, keys, calls>>
  BY <1>1, Undisturbed DEF history, Excused, OpenFile, world, EditorInv, Types, RestoreOk
<1>2. CASE findTab(f) = {} /\ keys < MaxKeys
  <2>0. PICK n \in Keys : n = keys + 1
    BY <1>2, EditorAssumption DEF EditorInv, Types, Keys
  <2> DEFINE c == Call("load", n, f, None)
  <2>1. /\ keys' = n /\ tab' = [tab EXCEPT ![n] = newTab(f)] /\ strip' = Append(strip, n)
        /\ calls' = Append(calls, c)
        /\ UNCHANGED <<queue, restore, disk, changed, onDisk, Excused>>
    BY <1>2, <2>0 DEF history, Excused, OpenFile, world
  <2>2. n \in Keys /\ n \notin Open /\ newTab(f) \in EditorTab /\ newTab(f) # None
    <3>1. keys \in Nat /\ n \in Nat /\ n > keys
      BY <2>0, EditorAssumption DEF EditorInv, Types, Keys
    <3>2. \A k \in Open : k <= keys
      BY DEF EditorInv, StripOk
    <3>3. newTab(f) \in EditorTab /\ newTab(f) # None
      BY TabOperations, EditorAssumption
    <3>4. n \notin Open
      BY <3>1, <3>2
    <3> QED  BY <3>3, <3>4
  <2>3. /\ c \in EditorCall /\ c.op = "load" /\ c.key = n /\ c.path = f /\ c.got = None
    BY <2>2 DEF Call, EditorCall
  <2>4. /\ strip' \in Seq(Keys) /\ Open' = Open \cup {n}
        /\ tab' \in [Keys -> EditorTab \cup {None}]
        /\ tab'[n] = newTab(f) /\ \A k \in Keys \ {n} : tab'[k] = tab[k]
    BY <2>1, <2>2, AppendedElements DEF EditorInv, Types, Open
  <2>5. keys' \in 0 .. MaxKeys /\ keys <= keys' /\ keys' \in Nat /\ n <= keys'
    BY <1>2, <2>0, <2>1, EditorAssumption DEF EditorInv, Types
  <2>6. \A k \in Open : k \in Keys \ {n} /\ k <= keys' /\ tab'[k] = tab[k]
    BY <2>1, <2>2, <2>4, <2>5, OpenTab DEF EditorInv, Types
  <2>7. \A i \in DOMAIN calls : calls[i].key \in Keys \ {n} /\ StillOk(calls[i])
    <3> TAKE i \in DOMAIN calls
    <3>1. CallOk(calls[i]) /\ calls[i].key \in Keys /\ calls[i].key # n /\ keys \in Nat
      BY <2>0, CallTypes DEF EditorInv, CallsOk, CallOk, Types
    <3>2. (calls[i].op = "save" /\ calls[i].key \in Open) => tab[calls[i].key].saving
      BY <3>1 DEF CallOk
    <3> QED  BY <2>4, <2>5, <2>6, <3>1, <3>2 DEF StillOk
  <2>8. PICK m : m = Len(calls) + 1
    OBVIOUS
  <2>9. /\ calls' \in Seq(EditorCall) /\ CallsOk'
        /\ \A k \in Keys : BeingRead(k) => BeingRead(k)'
        /\ \A i \in DOMAIN calls' :
             CallOnDisk(calls[i])' /\ AnswerIsDisk(calls[i])' /\ WriteIsRead(calls[i])'
    <3>1. \A i \in DOMAIN calls : Apart(calls[i], c)
      BY <2>3, <2>7 DEF Apart
    <3>2. calls'[m] = c
      BY <2>1, <2>3, <2>8, AppendedElements DEF EditorInv, Types
    <3>3. newTab(f).status = "loading" /\ newTab(f).path = f
      BY DEF newTab
    <3>4. CallOk(calls[m])'
      BY <2>3, <2>4, <2>5, <3>2, <3>3 DEF CallOk
    <3> QED  BY <2>1, <2>3, <2>5, <2>7, <2>8, <3>1, <3>4, Asked
  <2>10. Types'
    BY <2>1, <2>4, <2>5, <2>9 DEF EditorInv, Types, RestoreOk
  <2>11. StripOk'
    <3>1. \A k \in Keys : (k \in Open') <=> tab'[k] # None
      BY <2>2, <2>4 DEF EditorInv, StripOk
    <3>2. Range(queue') \subseteq Open'
      BY <2>1, <2>4 DEF EditorInv, StripOk
    <3> QED  BY <2>4, <2>5, <2>6, <3>1, <3>2 DEF StripOk
  <2>12. HeldWasOnDisk'
    <3>1. \A k \in Open : TabOnDisk(tab[k])'
      BY <2>1, <2>6 DEF EditorInv, HeldWasOnDisk, TabOnDisk
    <3>2. TabOnDisk(tab[n])'
      BY <2>1, <2>4 DEF TabOnDisk, newTab
    <3> QED  BY <2>1, <2>4, <2>9, <3>1, <3>2 DEF EditorInv, HeldWasOnDisk
  <2>13. Known'
    <3>1. ASSUME NEW k \in Open' \ Excused', tab'[k].status = "ready"
          PROVE  Due(tab[k].path)' \/ BeingRead(k)' \/ Agrees(tab[k])'
      <4>1. k # n
        BY <2>4, <3>1 DEF newTab
      <4>2. k \in Open \ Excused /\ k \in Keys /\ tab'[k] = tab[k]
        BY <2>1, <2>4, <2>6, <3>1, <4>1
      <4>3. Due(tab[k].path) \/ BeingRead(k) \/ Agrees(tab[k])
        BY <3>1, <4>2 DEF EditorInv, Known
      <4> QED  BY <2>1, <2>9, <4>2, <4>3 DEF Due, Agrees
    <3> QED  BY <2>9, <3>1 DEF Known
  <2> QED  BY <2>10, <2>11, <2>12, <2>13, <2>9 DEF EditorInv
<1> QED  BY <1>1, <1>2 DEF OpenFile

LEMMA EditInv ==
  ASSUME EditorInv, NEW k \in Keys, NEW text \in Text, Edit(k, text)
  PROVE  EditorInv'
<1>1. k \in Open /\ tab' = [tab EXCEPT ![k] = withEdit(tab[k], text)]
  BY DEF Edit, InPane, Patch
<1>2. /\ withEdit(tab[k], text) \in EditorTab /\ withEdit(tab[k], text).path = tab[k].path
      /\ tab[k] \in EditorTab
  BY <1>1, OpenTab, TabOperations DEF EditorInv
<1>3. /\ withEdit(tab[k], text).status = tab[k].status
      /\ withEdit(tab[k], text).saving = tab[k].saving
      /\ withEdit(tab[k], text).baseline = tab[k].baseline
      /\ withEdit(tab[k], text).conflict = tab[k].conflict
  BY <1>2 DEF withEdit, EditorTab
<1>4. TabOnDisk(tab[k])
  BY <1>1 DEF EditorInv, HeldWasOnDisk
<1>5. TabOnDisk(withEdit(tab[k], text))
  BY <1>2, <1>3, <1>4 DEF TabOnDisk
<1>6. Agrees(tab[k]) => Agrees(withEdit(tab[k], text))
  BY <1>2, <1>3 DEF Agrees
<1>7. UNCHANGED <<strip, keys, queue, calls, restore, disk, changed, onDisk, Excused>>
  BY DEF history, Excused, Edit, InPane, world
<1> QED  BY <1>1, <1>2, <1>3, <1>5, <1>6, <1>7, Worked

(* Either answer to a conflict leaves the tab with what the disk holds.    *)
LEMMA ResolveInv ==
  ASSUME EditorInv, NEW k \in Keys, KeepMine(k) \/ TakeDisk(k)
  PROVE  EditorInv'
<1>1. /\ k \in Open /\ tab[k].conflict # None
      /\ UNCHANGED <<strip, keys, queue, calls, restore, disk, changed, onDisk, Excused>>
      /\ \/ tab' = [tab EXCEPT ![k] = resolveKeepMine(tab[k])]
         \/ tab' = [tab EXCEPT ![k] = resolveTakeDisk(tab[k])]
  BY DEF history, Excused, KeepMine, TakeDisk, InPane, Patch, world
<1>2. tab[k] \in EditorTab /\ tab[k].conflict \in Text
  BY <1>1, OpenTab DEF EditorInv
<1>3. tab[k].conflict \in onDisk[tab[k].path]
  BY <1>1 DEF EditorInv, HeldWasOnDisk, TabOnDisk
<1>4. ASSUME NEW t, t = resolveKeepMine(tab[k]) \/ t = resolveTakeDisk(tab[k])
      PROVE  /\ t \in EditorTab /\ t.path = tab[k].path /\ t.status = tab[k].status
             /\ t.saving = tab[k].saving /\ t.baseline = tab[k].conflict /\ t.conflict = None
  BY <1>2, <1>4 DEF resolveKeepMine, resolveTakeDisk, EditorTab
<1>5. ASSUME NEW t, t = resolveKeepMine(tab[k]) \/ t = resolveTakeDisk(tab[k]),
             tab' = [tab EXCEPT ![k] = t]
      PROVE  EditorInv'
  <2>1. TabOnDisk(t)
    BY <1>3, <1>4, <1>5 DEF TabOnDisk
  <2>2. Agrees(tab[k]) => Agrees(t)
    BY <1>1, <1>4, <1>5 DEF Agrees
  <2> QED  BY <1>1, <1>4, <1>5, <2>1, <2>2, Worked
<1> QED  BY <1>1, <1>5

LEMMA StartSaveInv ==
  ASSUME EditorInv, NEW k \in Open, NEW closes \in BOOLEAN, StartSave(k, closes),
         queue' \in Seq(Keys), Range(queue') \subseteq Range(queue),
         UNCHANGED <<strip, keys, restore, disk, changed, onDisk, Excused>>
  PROVE  EditorInv'
<1> DEFINE t == withSaving(tab[k])
           c == [Call("save", k, tab[k].path, tab[k].content) EXCEPT !.closes = closes]
<1>1. /\ k \in Keys /\ k \in Nat /\ k <= keys /\ keys \in Nat /\ tab[k] \in EditorTab
      /\ tab[k].path \in Files /\ tab[k].content \in Text
      /\ Open' = Open
  BY OpenTab DEF EditorInv, Types, EditorTab, Open
<1>2. /\ tab' = [tab EXCEPT ![k] = t] /\ calls' = Append(calls, c)
      /\ tab[k].status = "ready" /\ ~tab[k].saving
  BY DEF StartSave, canSave, isDirty
<1>3. /\ t \in EditorTab /\ t # None /\ t.path = tab[k].path /\ t.status = tab[k].status
      /\ t.saving /\ t.baseline = tab[k].baseline /\ t.conflict = tab[k].conflict
  BY <1>1, EditorAssumption DEF withSaving, EditorTab
<1>4. /\ c \in EditorCall /\ c.op = "save" /\ c.key = k /\ c.path = tab[k].path
      /\ c.text \in Text /\ c.got = None
  BY <1>1 DEF Call, EditorCall
<1> HIDE DEF t, c
<1>5. /\ tab' \in [Keys -> EditorTab \cup {None}] /\ tab'[k] = t
      /\ \A o \in Keys \ {k} : tab'[o] = tab[o]
  BY <1>1, <1>2, <1>3 DEF EditorInv, Types
<1>6. \A i \in DOMAIN calls : Apart(calls[i], c) /\ StillOk(calls[i])
  <2> TAKE i \in DOMAIN calls
  <2>1. CallOk(calls[i]) /\ calls[i].key \in Keys
    BY CallTypes DEF EditorInv, CallsOk
  <2>2. CASE calls[i].key = k
    <3>1. calls[i].op \notin {"load", "restore", "save"}
      BY <1>2, <2>1, <2>2 DEF CallOk
    <3>2. calls[i].op = "reconcile"
      BY <3>1, CallTypes DEF EditorInv
    <3> QED  BY <1>1, <1>3, <1>4, <1>5, <2>2, <3>2 DEF Apart, StillOk
  <2>3. CASE calls[i].key # k
    <3>1. tab'[calls[i].key] = tab[calls[i].key]
      BY <1>5, <2>1, <2>3
    <3>2. (calls[i].op = "save" /\ calls[i].key \in Open) => tab[calls[i].key].saving
      BY <2>1 DEF CallOk
    <3>3. StillOk(calls[i])
      BY <1>1, <3>1, <3>2 DEF StillOk
    <3> QED  BY <1>4, <2>3, <3>3 DEF Apart
  <2> QED  BY <2>2, <2>3
<1>7. PICK n : n = Len(calls) + 1
  OBVIOUS
<1>8. /\ calls' \in Seq(EditorCall) /\ CallsOk'
      /\ \A o \in Keys : BeingRead(o) => BeingRead(o)'
      /\ \A i \in DOMAIN calls' :
           CallOnDisk(calls[i])' /\ AnswerIsDisk(calls[i])' /\ WriteIsRead(calls[i])'
  <2>1. calls'[n] = c
    BY <1>2, <1>4, <1>7, AppendedElements DEF EditorInv, Types
  <2>2. CallOk(calls[n])'
    BY <1>1, <1>2, <1>3, <1>4, <1>5, <2>1 DEF CallOk
  <2> QED  BY <1>1, <1>2, <1>4, <1>6, <1>7, <2>2, Asked
<1>9. Types'
  BY <1>5, <1>8 DEF EditorInv, Types, RestoreOk
<1>10. StripOk'
  BY <1>1, <1>3, <1>5 DEF EditorInv, StripOk
<1>11. HeldWasOnDisk'
  <2>1. \A o \in Open' : TabOnDisk(tab[o])'
    BY <1>1, <1>3, <1>5, OpenTab DEF EditorInv, HeldWasOnDisk, TabOnDisk
  <2> QED  BY <1>8, <2>1 DEF EditorInv, HeldWasOnDisk
<1>12. Known'
  <2>1. ASSUME NEW o \in Open' \ Excused', tab'[o].status = "ready"
        PROVE  Due(tab[o].path)' \/ BeingRead(o)' \/ Agrees(tab[o])'
    <3>1. /\ o \in Open \ Excused /\ o \in Keys /\ tab[o].status = "ready"
          /\ tab'[o].path = tab[o].path /\ tab'[o].baseline = tab[o].baseline
          /\ tab'[o].conflict = tab[o].conflict
      <4>1. o \in Open \ Excused /\ o \in Keys
        BY <1>1, <2>1, OpenTab DEF EditorInv
      <4>2. CASE o = k
        BY <1>2, <1>3, <1>5, <4>1, <4>2
      <4>3. CASE o # k
        BY <1>5, <2>1, <4>1, <4>3
      <4> QED  BY <4>1, <4>2, <4>3
    <3>2. Due(tab[o].path) \/ BeingRead(o) \/ Agrees(tab[o])
      BY <3>1 DEF EditorInv, Known
    <3> QED  BY <1>8, <3>1, <3>2 DEF Due, Agrees
  <2> QED  BY <1>8, <2>1 DEF Known
<1> QED  BY <1>8, <1>9, <1>10, <1>11, <1>12 DEF EditorInv

LEMMA SaveAndCloseInv ==
  ASSUME EditorInv, SaveAndClose
  PROVE  EditorInv'
<1>1. queue \in Seq(Keys) /\ queue # <<>> /\ Range(queue) \subseteq Open
  BY DEF EditorInv, Types, StripOk, SaveAndClose
<1>2. /\ Head(queue) \in Range(queue)
      /\ Tail(queue) \in Seq(Keys) /\ Range(Tail(queue)) \subseteq Range(queue)
  <2>1. /\ Len(queue) \in Nat \ {0} /\ DOMAIN queue = 1 .. Len(queue) /\ Head(queue) = queue[1]
        /\ Tail(queue) \in Seq(Keys) /\ DOMAIN Tail(queue) = 1 .. Len(queue) - 1
        /\ \A i \in 1 .. Len(queue) - 1 : Tail(queue)[i] = queue[i + 1]
    BY <1>1
  <2> QED  BY <2>1 DEF Range
<1>3. Head(queue) \in Open
  BY <1>1, <1>2
<1>4. /\ StartSave(Head(queue), TRUE) /\ queue' = Tail(queue)
      /\ UNCHANGED <<strip, keys, restore, disk, changed, onDisk, Excused>>
  BY DEF history, Excused, SaveAndClose, world
<1> QED  BY <1>2, <1>3, <1>4, StartSaveInv

LEMMA RequestCloseInv ==
  ASSUME EditorInv, RequestClose
  PROVE  EditorInv'
<1>1. PICK k \in Open : \E closing \in {{k}, Open \ {k}, Open, {o \in Open : ~isDirty(tab[o])}} :
        closing # {} /\ requestClose(closing)
  BY DEF RequestClose
<1>2. PICK closing \in {{k}, Open \ {k}, Open, {o \in Open : ~isDirty(tab[o])}} :
        requestClose(closing)
  BY <1>1
<1> DEFINE dirty == {o \in closing : isDirty(tab[o])}
           fresh == filtered(strip, dirty \ Range(queue))
<1>3. /\ strip \in Seq(Keys) /\ queue \in Seq(Keys) /\ Range(queue) \subseteq Open
      /\ Types /\ StripOk
  BY DEF EditorInv, Types, StripOk
<1>4. fresh \in Seq(Keys) /\ Range(fresh) \subseteq Open
  BY <1>3, FilteredElements DEF Open
<1>5. CloseTabs(closing \ dirty, queue \o fresh)
  BY <1>2 DEF requestClose
<1> HIDE DEF dirty, fresh
<1>6. queue \o fresh \in Seq(Keys) /\ Range(queue \o fresh) \subseteq Open
  <2>1. /\ queue \o fresh \in Seq(Keys) /\ DOMAIN (queue \o fresh) = 1 .. Len(queue) + Len(fresh)
        /\ \A i \in DOMAIN (queue \o fresh) :
             \/ i \in DOMAIN queue /\ (queue \o fresh)[i] = queue[i]
             \/ i - Len(queue) \in DOMAIN fresh /\ (queue \o fresh)[i] = fresh[i - Len(queue)]
    BY <1>3, <1>4
  <2> QED  BY <1>3, <1>4, <2>1 DEF Range
<1>7. FewerCalls /\ \A o \in Keys : BeingRead(o) => BeingRead(o)'
  BY SameCalls DEF RequestClose
<1>8. RestoreOk' /\ UNCHANGED <<keys, disk, changed, onDisk, Excused>>
  BY DEF history, Excused, RequestClose, world, EditorInv, Types, RestoreOk
<1> DEFINE gone == closing \ dirty
<1>9. /\ strip' \in Seq(Keys) /\ Open' = Open \ gone
      /\ queue' \in Seq(Keys) /\ Range(queue') = Range(queue \o fresh) \ gone
      /\ tab' \in [Keys -> EditorTab \cup {None}]
      /\ \A o \in Keys : tab'[o] = IF o \in gone THEN None ELSE tab[o]
  BY <1>3, <1>5, <1>6, ClosedTabs
<1> HIDE DEF gone
<1>10. Range(queue') \subseteq Open'
  BY <1>6, <1>9
<1> QED  BY <1>7, <1>8, <1>9, <1>10, Closed

LEMMA DiscardInv ==
  ASSUME EditorInv, Discard
  PROVE  EditorInv'
<1>1. /\ queue \in Seq(Keys) /\ queue # <<>> /\ Range(queue) \subseteq Open
      /\ Types /\ StripOk /\ CloseTabs({Head(queue)}, Tail(queue))
  BY DEF EditorInv, Types, StripOk, Discard
<1>2. Tail(queue) \in Seq(Keys) /\ Range(Tail(queue)) \subseteq Range(queue)
  BY <1>1 DEF Range
<1>3. FewerCalls /\ \A o \in Keys : BeingRead(o) => BeingRead(o)'
  BY SameCalls DEF Discard
<1> DEFINE gone == {Head(queue)}
<1>4. /\ strip' \in Seq(Keys) /\ Open' = Open \ gone
      /\ queue' \in Seq(Keys) /\ Range(queue') = Range(Tail(queue)) \ gone
      /\ tab' \in [Keys -> EditorTab \cup {None}]
      /\ \A o \in Keys : tab'[o] = IF o \in gone THEN None ELSE tab[o]
  BY <1>1, <1>2, ClosedTabs
<1>5. Range(queue') \subseteq Open'
  BY <1>1, <1>2, <1>4
<1>6. RestoreOk' /\ UNCHANGED <<keys, disk, changed, onDisk, Excused>>
  BY DEF history, Excused, Discard, world, EditorInv, Types, RestoreOk
<1> HIDE DEF gone
<1> QED  BY <1>3, <1>4, <1>5, <1>6, Closed

LEMMA CloseProjectInv ==
  ASSUME EditorInv, closeProject
  PROVE  EditorInv'
<1>1. /\ strip' = <<>> /\ queue' = <<>> /\ tab' = [k \in Keys |-> None]
      /\ UNCHANGED <<keys, calls, restore, disk, changed, onDisk, Excused>>
  BY DEF history, Excused, closeProject, world
<1>2. FewerCalls /\ \A o \in Keys : BeingRead(o) => BeingRead(o)'
  BY <1>1, SameCalls
<1>3. /\ strip' \in Seq(Keys) /\ Open' = Open \ Keys
      /\ queue' \in Seq(Keys) /\ Range(queue') \subseteq Open'
      /\ tab' \in [Keys -> EditorTab \cup {None}]
      /\ \A o \in Keys : tab'[o] = IF o \in Keys THEN None ELSE tab[o]
  BY <1>1, OpenTab DEF EditorInv, Open, Range
<1>4. RestoreOk'
  BY <1>1 DEF EditorInv, Types, RestoreOk
<1> QED  BY <1>1, <1>2, <1>3, <1>4, Closed

-----------------------------------------------------------------------------
(* Restoring, and the change event.                                        *)

LEMMA RestoreInv ==
  ASSUME EditorInv, Restore
  PROVE  EditorInv'
<1>1. PICK todo \in SetToAllKPermutations(Saved) :
        \E saved \in Range(todo) : restore' = [todo |-> todo, opened |-> <<>>, saved |-> saved]
  BY DEF Restore
<1>2. todo \in Seq(Files)
  <2>1. PICK S \in SUBSET Saved : todo \in SetToSeqs(S)
    BY DEF SetToAllKPermutations
  <2>2. IsFiniteSet(S)
    BY <2>1, EditorAssumption, FS_Subset
  <2>3. Cardinality(S) \in Nat
    BY <2>2, FS_CardinalityType
  <2>4. todo \in [1 .. Cardinality(S) -> S]
    BY <2>1 DEF SetToSeqs
  <2>5. todo \in [1 .. Cardinality(S) -> Files]
    BY <2>1, <2>4, EditorAssumption
  <2> QED  BY <2>3, <2>5, SeqDef
<1>3. RestoreOk'
  BY <1>1, <1>2 DEF RestoreOk
<1>4. /\ queue' \in Seq(Keys) /\ queue' = queue
      /\ UNCHANGED <<tab, strip, keys, calls, disk, changed, onDisk, Excused>>
  BY DEF history, Excused, Restore, world, EditorInv, Types
<1> QED  BY <1>3, <1>4, Undisturbed

LEMMA RestoreEndsInv ==
  ASSUME EditorInv, RestoreEnds
  PROVE  EditorInv'
<1>1. /\ restore' = [todo |-> <<>>, opened |-> <<>>, saved |-> None]
      /\ queue' \in Seq(Keys) /\ queue' = queue /\ RestoreOk'
      /\ UNCHANGED <<tab, strip, keys, calls, disk, changed, onDisk, Excused>>
  BY DEF history, Excused, RestoreEnds, world, EditorInv, Types, RestoreOk
<1> QED  BY <1>1, Undisturbed

LEMMA RestoreNextInv ==
  ASSUME EditorInv, RestoreNext
  PROVE  EditorInv'
<1> DEFINE f == Head(restore.todo)
<1>1. f \in Files /\ restore.todo \in Seq(Files) /\ restore.todo # <<>>
  BY DEF EditorInv, Types, RestoreNext, RestoreOk
<1>2. CASE findTab(f) # {}
  <2>1. /\ restore' = [todo |-> Tail(restore.todo), opened |-> restore.opened,
                       saved |-> restore.saved]
        /\ RestoreOk'
    <3>1. restore' = [restore EXCEPT !.todo = Tail(@)]
      BY <1>2 DEF RestoreNext
    <3>2. RestoreOk /\ Tail(restore.todo) \in Seq(Files)
      BY <1>1 DEF EditorInv, Types
    <3>3. restore' = [todo |-> Tail(restore.todo), opened |-> restore.opened,
                      saved |-> restore.saved]
      BY <3>1, <3>2 DEF RestoreOk
    <3> QED  BY <3>2, <3>3 DEF RestoreOk
  <2>2. /\ queue' \in Seq(Keys) /\ queue' = queue
        /\ UNCHANGED <<tab, strip, keys, calls, disk, changed, onDisk, Excused>>
    BY <1>2 DEF history, Excused, RestoreNext, world, EditorInv, Types
  <2> QED  BY <2>1, <2>2, Undisturbed
<1>3. CASE findTab(f) = {}
  <2>0. keys < MaxKeys /\ \E n \in Keys : n = keys + 1
    BY <1>3, EditorAssumption DEF EditorInv, Types, Keys, RestoreNext
  <2> PICK n \in Keys : n = keys + 1
    BY <2>0
  <2> DEFINE c == Call("restore", n, f, None)
  <2>1. /\ keys' = n /\ calls' = Append(calls, c)
        /\ UNCHANGED <<tab, strip, queue, restore, disk, changed, onDisk, Excused>>
        /\ Open' = Open
    BY <1>3, <2>0 DEF history, Excused, RestoreNext, world, Open
  <2>2. /\ c \in EditorCall /\ c.op = "restore" /\ c.key = n /\ c.got = None
    BY <1>1 DEF Call, EditorCall
  <2> HIDE DEF c
  <2>3. /\ keys' \in 0 .. MaxKeys /\ keys <= keys' /\ keys' \in Nat /\ n <= keys' /\ n \in Nat
        /\ \A k \in Open : k <= keys' /\ k # n
    BY <2>0, <2>1, EditorAssumption, OpenTab DEF EditorInv, Types
  <2>4. \A i \in DOMAIN calls : Apart(calls[i], c) /\ StillOk(calls[i])
    <3> TAKE i \in DOMAIN calls
    <3>1. CallOk(calls[i]) /\ calls[i].key \in Keys /\ calls[i].key # n
      BY <2>0, CallTypes DEF EditorInv, CallsOk, CallOk, Types
    <3> QED  BY <2>1, <2>2, <2>3, <3>1 DEF StillOk, CallOk, Apart
  <2>5. PICK m : m = Len(calls) + 1
    OBVIOUS
  <2>6. /\ calls' \in Seq(EditorCall) /\ CallsOk'
        /\ \A k \in Keys : BeingRead(k) => BeingRead(k)'
        /\ \A i \in DOMAIN calls' :
             CallOnDisk(calls[i])' /\ AnswerIsDisk(calls[i])' /\ WriteIsRead(calls[i])'
    <3>1. calls'[m] = c
      BY <2>1, <2>2, <2>5, AppendedElements DEF EditorInv, Types
    <3>2. CallOk(calls[m])'
      BY <2>1, <2>2, <2>3, <3>1 DEF CallOk
    <3> QED  BY <2>1, <2>2, <2>3, <2>4, <2>5, <3>2, Asked
  <2>7. Types'
    BY <2>1, <2>3, <2>6 DEF EditorInv, Types, RestoreOk
  <2>8. StripOk'
    BY <2>1, <2>3 DEF EditorInv, StripOk
  <2>9. HeldWasOnDisk'
    BY <2>1, <2>6 DEF EditorInv, HeldWasOnDisk, TabOnDisk
  <2>10. Known'
    <3>1. ASSUME NEW k \in Open' \ Excused', tab'[k].status = "ready"
          PROVE  Due(tab[k].path)' \/ BeingRead(k)' \/ Agrees(tab[k])'
      <4>1. k \in Open \ Excused /\ k \in Keys
        BY <2>1, OpenTab DEF EditorInv
      <4>2. Due(tab[k].path) \/ BeingRead(k) \/ Agrees(tab[k])
        BY <2>1, <3>1, <4>1 DEF EditorInv, Known
      <4> QED  BY <2>1, <2>6, <4>1, <4>2 DEF Due, Agrees
    <3> QED  BY <2>6, <3>1 DEF Known
  <2> QED  BY <2>6, <2>7, <2>8, <2>9, <2>10 DEF EditorInv
<1> QED  BY <1>2, <1>3

(* Every tab of a changed directory is read again, and an answer taken     *)
(* before the event no longer counts.                                      *)
LEMMA TreeEventInv ==
  ASSUME EditorInv, TreeEvent
  PROVE  EditorInv'
<1> DEFINE again  == tabsInChangedDirs
           old(c) == c.got # None /\ Dir[c.path] \in {Dir[f] : f \in changed}
           marked == [i \in DOMAIN calls |->
                        IF old(calls[i]) THEN [calls[i] EXCEPT !.outdated = TRUE] ELSE calls[i]]
           fresh  == [j \in DOMAIN again |-> Call("reconcile", again[j], tab[again[j]].path, None)]
<1>1. /\ calls \in Seq(EditorCall) /\ strip \in Seq(Keys) /\ Types /\ StripOk
      /\ \A i \in DOMAIN calls : calls[i] \in EditorCall /\ CallOk(calls[i])
  BY CallTypes DEF EditorInv, Types, CallsOk
<1>2. /\ calls' = marked \o fresh /\ changed' = {}
      /\ UNCHANGED <<tab, strip, keys, queue, restore, disk, onDisk, Excused>>
      /\ Open' = Open
  BY DEF history, Excused, TreeEvent, Open
<1>3. again \in Seq(Keys) /\ Range(again) = {k \in Open : Due(tab[k].path)}
  <2>1. /\ again \in Seq(Keys)
        /\ Range(again) = Open \cap {k \in Open : Dir[tab[k].path] \in {Dir[f] : f \in changed}}
    BY <1>1, FilteredElements DEF tabsInChangedDirs, Open
  <2> QED  BY <2>1 DEF Due
<1>4. \A c \in EditorCall : old(c) <=> c.got # None /\ Due(c.path)
  BY DEF Due
<1> HIDE DEF again, old
<1>5. ASSUME NEW i \in DOMAIN calls
      PROVE  /\ marked[i] \in EditorCall
             /\ marked[i].op = calls[i].op /\ marked[i].key = calls[i].key
             /\ marked[i].path = calls[i].path /\ marked[i].text = calls[i].text
             /\ marked[i].got = calls[i].got
             /\ old(calls[i]) => marked[i].outdated
             /\ ~old(calls[i]) => marked[i].outdated = calls[i].outdated
  BY <1>1 DEF EditorCall
<1>6. ASSUME NEW j \in DOMAIN again
      PROVE  /\ again[j] \in Open /\ Due(tab[again[j]].path)
             /\ fresh[j] \in EditorCall /\ fresh[j].op = "reconcile" /\ fresh[j].key = again[j]
             /\ fresh[j].path = tab[again[j]].path /\ fresh[j].got = None /\ ~fresh[j].outdated
  <2>1. again[j] \in Open /\ Due(tab[again[j]].path)
    BY <1>3 DEF Range
  <2>2. again[j] \in Keys /\ tab[again[j]].path \in Files
    BY <1>1, <2>1, OpenTab
  <2> QED  BY <2>1, <2>2 DEF Call, EditorCall
<1> DEFINE n == Len(calls)
<1>7. /\ n \in Nat /\ DOMAIN calls = 1 .. n
      /\ marked \in Seq(EditorCall) /\ Len(marked) = n
      /\ fresh \in Seq(EditorCall) /\ DOMAIN fresh = DOMAIN again
  <2>1. n \in Nat /\ DOMAIN calls = 1 .. n
    BY <1>1
  <2>2. marked \in [1 .. n -> EditorCall]
    BY <1>5, <2>1
  <2>3. Len(again) \in Nat /\ DOMAIN again = 1 .. Len(again)
    BY <1>3
  <2>4. fresh \in [1 .. Len(again) -> EditorCall]
    BY <1>6, <2>3
  <2>5. marked \in Seq(EditorCall) /\ fresh \in Seq(EditorCall)
    BY <2>1, <2>2, <2>3, <2>4, SeqDef
  <2>6. Len(marked) = n
    BY <2>1, <2>2, <2>5
  <2> QED  BY <2>1, <2>5, <2>6
<1> HIDE DEF marked, fresh
<1>8. /\ calls' \in Seq(EditorCall)
      /\ \A i \in DOMAIN calls : i \in DOMAIN calls' /\ calls'[i] = marked[i]
      /\ \A j \in DOMAIN again : \E i \in DOMAIN calls' : calls'[i] = fresh[j]
      /\ \A i \in DOMAIN calls' \ DOMAIN calls : \E j \in DOMAIN again : calls'[i] = fresh[j]
  <2>1. /\ calls' \in Seq(EditorCall) /\ Len(fresh) \in Nat /\ DOMAIN fresh = 1 .. Len(fresh)
        /\ DOMAIN calls' = 1 .. n + Len(fresh)
        /\ \A i \in 1 .. n : calls'[i] = marked[i]
        /\ \A j \in 1 .. Len(fresh) : calls'[n + j] = fresh[j]
    <3>1. /\ calls' \in Seq(EditorCall) /\ Len(calls') = Len(marked) + Len(fresh)
          /\ \A i \in 1 .. Len(marked) + Len(fresh) :
               calls'[i] = IF i <= Len(marked) THEN marked[i] ELSE fresh[i - Len(marked)]
      BY <1>2, <1>7, ConcatProperties
    <3>2. Len(fresh) \in Nat /\ DOMAIN fresh = 1 .. Len(fresh) /\ DOMAIN calls' = 1 .. Len(calls')
      BY <1>7, <3>1, LenProperties
    <3> QED  BY <1>7, <3>1, <3>2, SMTT(30)
  <2>2. \A j \in DOMAIN again : \E i \in DOMAIN calls' : calls'[i] = fresh[j]
    <3> TAKE j \in DOMAIN again
    <3>1. j \in 1 .. Len(fresh) /\ n + j \in DOMAIN calls'
      BY <1>7, <2>1
    <3> QED  BY <2>1, <3>1
  <2>3. ASSUME NEW i \in DOMAIN calls' \ DOMAIN calls
        PROVE  \E j \in DOMAIN again : calls'[i] = fresh[j]
    <3>1. i - n \in 1 .. Len(fresh) /\ n + (i - n) = i
      BY <1>7, <2>1, <2>3
    <3> QED  BY <1>7, <2>1, <3>1
  <2> QED  BY <1>7, <2>1, <2>2, <2>3
<1> HIDE DEF n
<1>9. \A k \in Open : (Due(tab[k].path) \/ BeingRead(k)) => BeingRead(k)'
  <2> TAKE k \in Open
  <2>1. ASSUME Due(tab[k].path) PROVE BeingRead(k)'
    <3>1. PICK j \in DOMAIN again : again[j] = k
      BY <1>3, <2>1 DEF Range
    <3> QED  BY <1>6, <1>8, <3>1 DEF BeingRead, Rereads
  <2>2. ASSUME BeingRead(k) PROVE BeingRead(k)'
    <3>1. PICK i \in DOMAIN calls : Rereads(calls[i], k)
      BY <2>2 DEF BeingRead
    <3>2. CASE old(calls[i])
      <4>1. Due(tab[k].path)
        BY <1>1, <1>4, <3>1, <3>2 DEF CallOk, Rereads
      <4> QED  BY <2>1, <4>1
    <3>3. CASE ~old(calls[i])
      BY <1>5, <1>8, <3>1, <3>3 DEF BeingRead, Rereads
    <3> QED  BY <3>2, <3>3
  <2> QED  BY <2>1, <2>2
<1>10. Types'
  BY <1>1, <1>2, <1>8 DEF Types, RestoreOk
<1>11. StripOk'
  BY <1>1, <1>2 DEF StripOk
<1>12. CallsOk'
  <2>1. ASSUME NEW i \in DOMAIN calls' PROVE CallOk(calls[i])'
    <3>1. CASE i \in DOMAIN calls
      <4>1. CallOk(calls[i])
        BY <1>1, <3>1
      <4> QED  BY <1>2, <1>5, <1>8, <3>1, <4>1 DEF CallOk
    <3>2. CASE i \notin DOMAIN calls
      <4>1. PICK j \in DOMAIN again : calls'[i] = fresh[j]
        BY <1>8, <3>2
      <4>2. again[j] <= keys
        BY <1>1, <1>6, OpenTab
      <4> QED  BY <1>2, <1>6, <4>1, <4>2 DEF CallOk
    <3> QED  BY <3>1, <3>2
  <2>2. ASSUME NEW i \in DOMAIN calls', NEW j \in DOMAIN calls', i # j
        PROVE  Apart(calls'[i], calls'[j])
    <3>1. \A m \in DOMAIN calls' \ DOMAIN calls :
            calls'[m].op = "reconcile" /\ calls'[m].key \in Open
      BY <1>6, <1>8
    <3>2. \A m \in DOMAIN calls : calls'[m].op = "restore" => calls'[m].key \notin Open
      BY <1>1, <1>5, <1>8 DEF CallOk
    <3>3. CASE i \in DOMAIN calls /\ j \in DOMAIN calls
      <4>1. Apart(calls[i], calls[j])
        BY <2>2, <3>3 DEF EditorInv, CallsOk
      <4> QED  BY <1>5, <1>8, <3>3, <4>1 DEF Apart
    <3>4. CASE ~(i \in DOMAIN calls /\ j \in DOMAIN calls)
      BY <3>1, <3>2, <3>4 DEF Apart
    <3> QED  BY <3>3, <3>4
  <2> QED  BY <2>1, <2>2 DEF CallsOk, Apart
<1>13. HeldWasOnDisk'
  <2>1. ASSUME NEW i \in DOMAIN calls' PROVE CallOnDisk(calls[i])'
    <3>1. CASE i \in DOMAIN calls
      <4>1. CallOnDisk(calls[i])
        BY <3>1 DEF EditorInv, HeldWasOnDisk
      <4> QED  BY <1>2, <1>5, <1>8, <3>1, <4>1 DEF CallOnDisk
    <3>2. CASE i \notin DOMAIN calls
      <4>1. calls'[i].got = None
        BY <1>6, <1>8, <3>2
      <4> QED  BY <4>1, EditorAssumption DEF CallOnDisk
    <3> QED  BY <3>1, <3>2
  <2> QED  BY <1>2, <2>1 DEF EditorInv, HeldWasOnDisk, TabOnDisk
<1>14. Known'
  <2>1. ASSUME NEW i \in DOMAIN calls' PROVE AnswerIsDisk(calls[i])' /\ WriteIsRead(calls[i])'
    <3>1. CASE i \in DOMAIN calls
      <4>1. /\ calls'[i] = marked[i] /\ CallOk(calls[i]) /\ AnswerIsDisk(calls[i])
            /\ WriteIsRead(calls[i]) /\ calls[i] \in EditorCall
        BY <1>1, <1>8, <3>1 DEF EditorInv, Known
      <4>2. AnswerIsDisk(calls[i])'
        <5>1. SUFFICES ASSUME calls'[i].op # "save", calls'[i].got # None, ~calls'[i].outdated
                       PROVE  calls'[i].got = IF disk[calls'[i].path] = None THEN Failed
                                              ELSE disk[calls'[i].path]
          BY <1>2 DEF AnswerIsDisk
        <5>2. ~old(calls[i])
          BY <1>5, <3>1, <4>1, <5>1
        <5>3. ~Due(calls[i].path) /\ ~calls[i].outdated
          BY <1>4, <1>5, <3>1, <4>1, <5>1, <5>2
        <5> QED  BY <1>5, <3>1, <4>1, <5>1, <5>3 DEF AnswerIsDisk
      <4>3. WriteIsRead(calls[i])'
        <5>1. SUFFICES ASSUME calls[i].op = "save", calls[i].got \in Text,
                              calls[i].key \in Open \ Excused
                       PROVE  BeingRead(calls[i].key)'
          <6>1. calls'[i].key = calls[i].key
            BY <1>5, <3>1, <4>1
          <6> QED  BY <1>2, <1>5, <3>1, <4>1, <6>1 DEF WriteIsRead
        <5>2. PICK k \in Open : k = calls[i].key
          BY <5>1
        <5>3. Due(tab[k].path) \/ BeingRead(k)
          BY <4>1, <5>1, <5>2 DEF WriteIsRead, CallOk
        <5>4. BeingRead(k)'
          BY <1>9, <5>3
        <5> QED  BY <1>5, <3>1, <4>1, <5>2, <5>4
      <4> QED  BY <4>2, <4>3
    <3>2. CASE i \notin DOMAIN calls
      <4>1. calls'[i].got = None
        BY <1>6, <1>8, <3>2
      <4> QED  BY <4>1, EditorAssumption DEF AnswerIsDisk, WriteIsRead
    <3> QED  BY <3>1, <3>2
  <2>2. ASSUME NEW k \in Open' \ Excused', tab'[k].status = "ready"
        PROVE  Due(tab[k].path)' \/ BeingRead(k)' \/ Agrees(tab[k])'
    <3>1. Due(tab[k].path) \/ BeingRead(k) \/ Agrees(tab[k])
      BY <1>2, <2>2 DEF EditorInv, Known
    <3>2. Agrees(tab[k]) => Agrees(tab[k])'
      BY <1>2 DEF Agrees
    <3> QED  BY <1>2, <1>9, <3>1, <3>2
  <2> QED  BY <2>1, <2>2 DEF Known
<1> QED  BY <1>10, <1>11, <1>12, <1>13, <1>14 DEF EditorInv

-----------------------------------------------------------------------------
(* The backend.                                                            *)

(* A call gets its answer, and a file may have been written.               *)
LEMMA Answered ==
  ASSUME EditorInv, NEW i \in DOMAIN calls, calls[i].got = None,
         NEW answer \in Text \cup {Failed}, calls' = [calls EXCEPT ![i].got = answer],
         UNCHANGED <<tab, strip, keys, queue, restore, Excused>>,
         disk' \in [Files -> Text \cup {None}], onDisk' \in [Files -> SUBSET Text],
         changed \subseteq changed', changed' \subseteq Files,
         \A f \in Files : onDisk[f] \subseteq onDisk'[f],
         \A f \in Files : disk'[f] # None => disk'[f] \in onDisk'[f],
         \A f \in Files : disk'[f] = disk[f] \/ f \in changed',
         answer \in Text => answer \in onDisk'[calls[i].path],
         calls[i].op = "save" =>
           answer \in {Failed, calls[i].text} /\ (answer \in Text => calls[i].path \in changed'),
         calls[i].op # "save" =>
           answer = IF disk'[calls[i].path] = None THEN Failed ELSE disk'[calls[i].path]
  PROVE  EditorInv'
<1>1. Types /\ StripOk /\ Open' = Open
  BY DEF EditorInv, Open
<1>2. /\ calls' \in Seq(EditorCall) /\ DOMAIN calls' = DOMAIN calls
      /\ \A j \in DOMAIN calls : j # i => calls'[j] = calls[j]
      /\ calls'[i] \in EditorCall /\ calls'[i].op = calls[i].op /\ calls'[i].key = calls[i].key
      /\ calls'[i].path = calls[i].path /\ calls'[i].text = calls[i].text
      /\ calls'[i].outdated = calls[i].outdated /\ calls'[i].got = answer
  <2> DEFINE c == [calls[i] EXCEPT !.got = answer]
  <2>1. /\ calls \in Seq(EditorCall) /\ Len(calls) \in Nat /\ DOMAIN calls = 1 .. Len(calls)
        /\ calls[i] \in EditorCall
    BY <1>1 DEF Types
  <2>2. /\ c \in EditorCall /\ c.op = calls[i].op /\ c.key = calls[i].key
        /\ c.path = calls[i].path /\ c.text = calls[i].text
        /\ c.outdated = calls[i].outdated /\ c.got = answer
    BY <2>1 DEF EditorCall
  <2> HIDE DEF c
  <2>3. calls' = [calls EXCEPT ![i] = c]
    BY DEF c
  <2>4. calls \in [1 .. Len(calls) -> EditorCall]
    BY <2>1
  <2>5. calls' \in [1 .. Len(calls) -> EditorCall]
    BY <2>2, <2>3, <2>4
  <2>6. calls' \in Seq(EditorCall)
    BY <2>1, <2>5, SeqDef
  <2> QED  BY <2>1, <2>2, <2>3, <2>4, <2>5, <2>6
<1>3. \A f \in Files : Due(f) => Due(f)'
  BY DEF Due
<1>4. \A f \in Files : disk'[f] = disk[f] \/ Due(f)'
  BY DEF Due
<1>5. \A k \in Keys : BeingRead(k) => BeingRead(k)'
  <2> SUFFICES ASSUME NEW k \in Keys, NEW j \in DOMAIN calls, Rereads(calls[j], k)
               PROVE  Rereads(calls'[j], k)
    BY <1>2 DEF BeingRead, Rereads
  <2> QED  BY <1>2 DEF Rereads
<1>6. Types'
  BY <1>1, <1>2 DEF Types, RestoreOk
<1>7. StripOk'
  BY <1>1 DEF StripOk
<1>8. CallsOk'
  <2>1. ASSUME NEW j \in DOMAIN calls' PROVE CallOk(calls[j])'
    <3>1. CallOk(calls[j])
      BY <1>2 DEF EditorInv, CallsOk
    <3>2. CASE j = i
      BY <1>1, <1>2, <3>1, <3>2 DEF CallOk
    <3>3. CASE j # i
      BY <1>1, <1>2, <3>1, <3>3 DEF CallOk
    <3> QED  BY <3>2, <3>3
  <2>2. ASSUME NEW j \in DOMAIN calls', NEW l \in DOMAIN calls', j # l
        PROVE  Apart(calls'[j], calls'[l])
    <3>1. Apart(calls[j], calls[l])
      BY <1>2, <2>2 DEF EditorInv, CallsOk
    <3>2. /\ calls'[j].op = calls[j].op /\ calls'[j].key = calls[j].key
          /\ calls'[l].op = calls[l].op /\ calls'[l].key = calls[l].key
      BY <1>2
    <3> QED  BY <3>1, <3>2 DEF Apart
  <2> QED  BY <2>1, <2>2 DEF CallsOk, Apart
<1>9. HeldWasOnDisk'
  <2>1. \A k \in Open' : TabOnDisk(tab[k])'
    <3> SUFFICES ASSUME NEW k \in Open PROVE TabOnDisk(tab[k])'
      BY <1>1
    <3>1. TabOnDisk(tab[k]) /\ tab[k].path \in Files
      BY <1>1, OpenTab DEF EditorInv, HeldWasOnDisk
    <3> QED  BY <3>1 DEF TabOnDisk
  <2>2. ASSUME NEW j \in DOMAIN calls' PROVE CallOnDisk(calls[j])'
    <3>1. CallOnDisk(calls[j]) /\ calls[j].path \in Files
      BY <1>1, <1>2, CallTypes DEF EditorInv, HeldWasOnDisk
    <3>2. CASE j = i
      BY <1>2, <3>1, <3>2 DEF CallOnDisk
    <3>3. CASE j # i
      BY <1>2, <3>1, <3>3 DEF CallOnDisk
    <3> QED  BY <3>2, <3>3
  <2> QED  BY <2>1, <2>2 DEF HeldWasOnDisk
<1>10. Known'
  <2>1. ASSUME NEW j \in DOMAIN calls' PROVE AnswerIsDisk(calls[j])' /\ WriteIsRead(calls[j])'
    <3>1. /\ AnswerIsDisk(calls[j]) /\ WriteIsRead(calls[j]) /\ calls[j].path \in Files
          /\ calls[j].key \in Keys
      BY <1>1, <1>2, CallTypes DEF EditorInv, Known
    <3>2. CASE j = i
      <4>1. AnswerIsDisk(calls[j])'
        <5>1. CASE calls[i].op = "save"
          BY <1>2, <3>2, <5>1 DEF AnswerIsDisk
        <5>2. CASE calls[i].op # "save"
          <6>1. answer = IF disk'[calls[i].path] = None THEN Failed ELSE disk'[calls[i].path]
            BY <5>2
          <6> QED  BY <1>2, <3>2, <6>1 DEF AnswerIsDisk
        <5> QED  BY <5>1, <5>2
      <4>2. (calls[i].op = "save" /\ answer \in Text) => Due(calls[i].path)'
        BY <1>2, <3>1, <3>2 DEF Due
      <4>3. WriteIsRead(calls[j])'
        BY <1>2, <3>2, <4>2 DEF WriteIsRead, Due
      <4> QED  BY <4>1, <4>3
    <3>3. CASE j # i
      <4>1. AnswerIsDisk(calls[j])'
        <5>1. AnswerIsDisk(calls[j]) /\ calls'[j] = calls[j]
          BY <1>2, <3>1, <3>3
        <5>2. CASE Due(calls[j].path)'
          BY <5>1, <5>2 DEF AnswerIsDisk, Due
        <5>3. CASE ~Due(calls[j].path)'
          <6>1. disk'[calls[j].path] = disk[calls[j].path] /\ ~Due(calls[j].path)
            BY <1>3, <1>4, <3>1, <5>1, <5>3 DEF Due
          <6> QED  BY <5>1, <6>1 DEF AnswerIsDisk
        <5> QED  BY <5>2, <5>3
      <4>2. WriteIsRead(calls[j])'
        <5>1. WriteIsRead(calls[j]) /\ calls'[j] = calls[j]
          BY <1>2, <3>1, <3>3
        <5> QED  BY <1>1, <1>5, <3>1, <5>1 DEF WriteIsRead, Due
      <4> QED  BY <4>1, <4>2
    <3> QED  BY <3>2, <3>3
  <2>2. ASSUME NEW k \in Open' \ Excused', tab'[k].status = "ready"
        PROVE  Due(tab[k].path)' \/ BeingRead(k)' \/ Agrees(tab[k])'
    <3>1. k \in Open \ Excused /\ k \in Keys /\ tab[k].path \in Files /\ tab[k].status = "ready"
      BY <1>1, <2>2, OpenTab
    <3>2. Due(tab[k].path) \/ BeingRead(k) \/ Agrees(tab[k])
      BY <3>1 DEF EditorInv, Known
    <3>3. CASE \E f \in Files : f = tab[k].path /\ Due(f)'
      BY <3>3 DEF Due
    <3>4. CASE ~\E f \in Files : f = tab[k].path /\ Due(f)'
      BY <1>3, <1>4, <1>5, <3>1, <3>2, <3>4 DEF Agrees
    <3> QED  BY <3>3, <3>4
  <2> QED  BY <2>1, <2>2 DEF Known
<1> QED  BY <1>6, <1>7, <1>8, <1>9, <1>10 DEF EditorInv

LEMMA AnswerReadInv ==
  ASSUME EditorInv, NEW i \in DOMAIN calls, AnswerRead(i)
  PROVE  EditorInv'
<1>1. PICK answer : answer = IF disk[calls[i].path] = None THEN Failed ELSE disk[calls[i].path]
  OBVIOUS
<1>2. /\ calls[i].got = None /\ calls[i].op # "save" /\ calls' = [calls EXCEPT ![i].got = answer]
      /\ UNCHANGED <<tab, strip, keys, queue, restore, disk, changed, onDisk, Excused>>
  BY <1>1 DEF history, Excused, AnswerRead, world
<1>3. calls[i].path \in Files /\ Types
  BY CallTypes DEF EditorInv
<1>4. /\ answer \in Text \cup {Failed}
      /\ answer \in Text => answer \in onDisk[calls[i].path]
  BY <1>1, <1>3, EditorAssumption DEF Types, EditorInv, HeldWasOnDisk
<1>5. /\ disk \in [Files -> Text \cup {None}] /\ onDisk \in [Files -> SUBSET Text]
      /\ changed \subseteq Files /\ \A f \in Files : disk[f] # None => disk[f] \in onDisk[f]
  BY <1>3 DEF Types, EditorInv, HeldWasOnDisk
<1> QED  BY <1>1, <1>2, <1>4, <1>5, Answered

LEMMA PerformWriteInv ==
  ASSUME EditorInv, NEW i \in DOMAIN calls, PerformWrite(i)
  PROVE  EditorInv'
<1>1. /\ calls[i].path \in Files /\ calls[i].text \in Text /\ Types
      /\ calls[i].got = None /\ calls[i].op = "save"
  BY CallTypes DEF EditorInv, CallsOk, CallOk, PerformWrite
<1>2. /\ disk \in [Files -> Text \cup {None}] /\ onDisk \in [Files -> SUBSET Text]
      /\ changed \subseteq Files /\ \A f \in Files : disk[f] # None => disk[f] \in onDisk[f]
  BY <1>1 DEF Types, EditorInv, HeldWasOnDisk
<1>3. UNCHANGED <<tab, strip, keys, queue, restore, Excused>>
  BY DEF history, Excused, PerformWrite
<1>4. CASE calls' = [calls EXCEPT ![i].got = Failed] /\ UNCHANGED <<disk, changed, onDisk>>
  BY <1>1, <1>2, <1>3, <1>4, EditorAssumption, Answered
<1> DEFINE f == calls[i].path
<1>5. CASE /\ calls' = [calls EXCEPT ![i].got = calls[i].text]
           /\ disk' = [disk EXCEPT ![f] = calls[i].text]
           /\ changed' = changed \cup {f}
           /\ onDisk' = [onDisk EXCEPT ![f] = @ \cup {calls[i].text}]
  <2>1. /\ disk' \in [Files -> Text \cup {None}] /\ onDisk' \in [Files -> SUBSET Text]
        /\ changed \subseteq changed' /\ changed' \subseteq Files
        /\ \A g \in Files : onDisk[g] \subseteq onDisk'[g]
        /\ \A g \in Files : disk'[g] # None => disk'[g] \in onDisk'[g]
        /\ \A g \in Files : disk'[g] = disk[g] \/ g \in changed'
        /\ calls[i].text \in onDisk'[calls[i].path] /\ calls[i].path \in changed'
    BY <1>1, <1>2, <1>5
  <2> QED  BY <1>1, <1>3, <1>5, <2>1, Answered
<1> QED  BY <1>4, <1>5 DEF PerformWrite

LEMMA ExternalChangeInv ==
  ASSUME EditorInv, NEW f \in Files, NEW text \in Others \cup {None}, ExternalChange(f, text)
  PROVE  EditorInv'
<1>1. /\ Types /\ StripOk /\ Open' = Open /\ text \in Text \cup {None}
      /\ disk' = [disk EXCEPT ![f] = text] /\ changed' = changed \cup {f}
      /\ onDisk' = [onDisk EXCEPT ![f] = IF text = None THEN @ ELSE @ \cup {text}]
      /\ UNCHANGED <<tab, strip, keys, queue, calls, restore, Excused>>
  BY EditorAssumption DEF history, Excused, EditorInv, ExternalChange, Open
<1>2. /\ disk' \in [Files -> Text \cup {None}] /\ onDisk' \in [Files -> SUBSET Text]
      /\ changed \subseteq changed' /\ changed' \subseteq Files
      /\ \A g \in Files : onDisk[g] \subseteq onDisk'[g]
      /\ \A g \in Files : disk'[g] # None => disk'[g] \in onDisk'[g]
      /\ \A g \in Files : disk'[g] = disk[g] \/ g \in changed'
  BY <1>1, EditorAssumption DEF Types, EditorInv, HeldWasOnDisk
<1>3. \A g \in Files : (Due(g) => Due(g)') /\ (disk'[g] = disk[g] \/ Due(g)')
  BY <1>2 DEF Due
<1>4. \A k \in Keys : BeingRead(k) => BeingRead(k)'
  BY <1>1 DEF BeingRead
<1>5. Types'
  BY <1>1, <1>2 DEF Types, RestoreOk
<1>6. StripOk'
  BY <1>1 DEF StripOk
<1>7. CallsOk'
  BY <1>1 DEF EditorInv, CallsOk, CallOk
<1>8. HeldWasOnDisk'
  <2>1. ASSUME NEW k \in Open PROVE TabOnDisk(tab[k])'
    <3>1. TabOnDisk(tab[k]) /\ tab[k].path \in Files
      BY <1>1, OpenTab DEF EditorInv, HeldWasOnDisk
    <3> QED  BY <1>1, <1>2, <3>1 DEF TabOnDisk
  <2>2. ASSUME NEW j \in DOMAIN calls PROVE CallOnDisk(calls[j])'
    <3>1. CallOnDisk(calls[j]) /\ calls[j].path \in Files
      BY <1>1, CallTypes DEF EditorInv, HeldWasOnDisk
    <3> QED  BY <1>1, <1>2, <3>1 DEF CallOnDisk
  <2> QED  BY <1>1, <1>2, <2>1, <2>2 DEF HeldWasOnDisk
<1>9. Known'
  <2>1. ASSUME NEW j \in DOMAIN calls PROVE AnswerIsDisk(calls[j])' /\ WriteIsRead(calls[j])'
    <3>1. PICK g \in Files : g = calls[j].path
      BY <1>1, CallTypes
    <3>2. AnswerIsDisk(calls[j]) /\ WriteIsRead(calls[j]) /\ calls[j].key \in Keys
      BY <1>1, CallTypes DEF EditorInv, Known
    <3>3. AnswerIsDisk(calls[j])'
      <4>1. AnswerIsDisk(calls[j])
        BY <3>2
      <4>2. CASE Due(g)'
        BY <1>1, <3>1, <4>2 DEF AnswerIsDisk, Due
      <4>3. CASE ~Due(g)'
        BY <1>1, <1>3, <3>1, <4>1, <4>3 DEF AnswerIsDisk
      <4> QED  BY <4>2, <4>3
    <3>4. WriteIsRead(calls[j])'
      <4>1. WriteIsRead(calls[j])
        BY <3>2
      <4>2. CASE Due(g)'
        BY <1>1, <3>1, <4>2 DEF WriteIsRead, Due
      <4>3. CASE ~Due(g)'
        BY <1>1, <1>3, <1>4, <3>1, <3>2, <4>1, <4>3 DEF WriteIsRead
      <4> QED  BY <4>2, <4>3
    <3> QED  BY <3>3, <3>4
  <2>2. ASSUME NEW k \in Open \ Excused, tab[k].status = "ready"
        PROVE  Due(tab[k].path)' \/ BeingRead(k)' \/ Agrees(tab[k])'
    <3>1. PICK g \in Files : g = tab[k].path
      BY <1>1, OpenTab
    <3>2. k \in Keys /\ (Due(tab[k].path) \/ BeingRead(k) \/ Agrees(tab[k]))
      BY <1>1, <2>2, OpenTab DEF EditorInv, Known
    <3>3. CASE Due(g)'
      BY <1>1, <3>1, <3>3 DEF Due
    <3>4. CASE ~Due(g)'
      BY <1>1, <1>3, <1>4, <3>1, <3>2, <3>4 DEF Agrees
    <3> QED  BY <3>3, <3>4
  <2> QED  BY <1>1, <2>1, <2>2 DEF Known
<1> QED  BY <1>5, <1>6, <1>7, <1>8, <1>9 DEF EditorInv

-----------------------------------------------------------------------------
(* The answers arrive.                                                     *)

(* What an answer that no event has outdated says of the disk.             *)
LEMMA AnswerSays ==
  ASSUME EditorInv, NEW i \in DOMAIN calls, calls[i].got # None
  PROVE  /\ CallOk(calls[i])
         /\ calls[i].got \in Text \cup {Failed}
         /\ calls[i].got # Failed => calls[i].got \in Text /\ calls[i].got \in onDisk[calls[i].path]
         /\ (calls[i].op # "save" /\ ~calls[i].outdated) =>
              \/ Due(calls[i].path)
              \/ calls[i].got = Failed /\ disk[calls[i].path] = None
              \/ calls[i].got = disk[calls[i].path]
<1>1. /\ CallOk(calls[i]) /\ AnswerIsDisk(calls[i]) /\ CallOnDisk(calls[i])
      /\ calls[i].got \in Text \cup {None, Failed}
  BY CallTypes DEF EditorInv, CallsOk, Known, HeldWasOnDisk
<1> QED  BY <1>1, EditorAssumption DEF AnswerIsDisk, CallOnDisk

(* The other calls for a tab that is open, when one of them is not a read. *)
LEMMA OtherCalls ==
  ASSUME EditorInv, NEW i \in DOMAIN calls, calls[i].op # "reconcile"
  PROVE  \A j \in DOMAIN calls \ {i} : calls[j].key = calls[i].key => calls[j].op = "reconcile"
<1>1. \A j \in DOMAIN calls \ {i} : Apart(calls[i], calls[j])
  BY DEF EditorInv, CallsOk
<1> QED  BY <1>1 DEF Apart

(* The rest of a list is one.                                              *)
LEMMA TailType ==
  ASSUME NEW A, NEW s \in Seq(A)
  PROVE  Tail(s) \in Seq(A)
<1>1. CASE s = <<>>
  <2>1. Tail(<<>>) = <<>>
    OBVIOUS
  <2> QED  BY <1>1, <2>1
<1>2. CASE s # <<>>
  BY <1>2
<1> QED  BY <1>1, <1>2

LEMMA DeliverLoadInv ==
  ASSUME EditorInv, NEW i \in DOMAIN calls, DeliverLoad(i)
  PROVE  EditorInv'
<1> DEFINE c == calls[i]
           t == IF c.got = Failed THEN withError(tab[c.key]) ELSE withLoaded(tab[c.key], c.got)
<1>0. calls[i].op = "load" /\ calls[i].got # None
  BY DEF DeliverLoad, Deliver
<1>1. /\ c.op = "load" /\ c.got # None /\ calls' = RemoveAt(calls, i)
      /\ Patch(c.key, t) /\ Mark(c, FALSE, FALSE)
      /\ UNCHANGED <<strip, keys, queue, restore, disk, changed, onDisk>>
  BY DEF DeliverLoad, Deliver, world
<1>2. PICK k \in Keys : k = c.key
  BY CallTypes DEF EditorInv
<1>3. Excused' \in SUBSET Keys /\ Excused' \cup {k} = Excused \cup {k} /\ (k \notin Excused' => ~c.outdated)
  BY <1>1, <1>2 DEF Mark, Excused, EditorInv, Types
<1>4. /\ CallOk(c) /\ c.got \in Text \cup {Failed}
      /\ c.got # Failed => c.got \in Text /\ c.got \in onDisk[c.path]
      /\ ~c.outdated => \/ Due(c.path)
                        \/ c.got = Failed /\ disk[c.path] = None
                        \/ c.got = disk[c.path]
  BY <1>0, AnswerSays
<1>5. \A j \in DOMAIN calls \ {i} : calls[j].key = k => calls[j].op = "reconcile"
  BY <1>1, <1>2, OtherCalls
<1> HIDE DEF c
<1>6. ASSUME k \in Open
      PROVE  /\ t \in EditorTab /\ t.path = tab[k].path /\ TabOnDisk(t)
             /\ (k \notin Excused' /\ t.status = "ready") => Due(tab[k].path) \/ Agrees(t)
  <2>1. tab[k] \in EditorTab /\ tab[k].path = c.path
    BY <1>2, <1>4, <1>6, OpenTab DEF EditorInv, CallOk
  <2>2. CASE c.got = Failed
    <3>1. /\ t = withError(tab[k]) /\ t \in EditorTab /\ t.path = tab[k].path
          /\ t.status = "error" /\ t.conflict = tab[k].conflict
      BY <1>2, <2>1, <2>2, TabOperations DEF withError, EditorTab
    <3>2. TabOnDisk(tab[k])
      BY <1>6 DEF EditorInv, HeldWasOnDisk
    <3> QED  BY <3>1, <3>2 DEF TabOnDisk
  <2>3. CASE c.got # Failed
    <3>1. /\ t = withLoaded(tab[k], c.got) /\ t \in EditorTab /\ t.path = tab[k].path
      BY <1>2, <1>4, <2>1, <2>3, TabOperations
    <3>2. t.baseline = c.got /\ t.conflict = None
      BY <2>1, <3>1 DEF withLoaded, EditorTab
    <3> HIDE DEF t
    <3>3. TabOnDisk(t)
      BY <1>4, <2>1, <2>3, <3>1, <3>2 DEF TabOnDisk
    <3>4. k \notin Excused' => Due(tab[k].path) \/ Agrees(t)
      BY <1>3, <1>4, <2>1, <2>3, <3>1, <3>2 DEF Agrees
    <3> QED  BY <3>1, <3>3, <3>4
  <2> QED  BY <2>2, <2>3
<1> HIDE DEF t
<1>7. Patch(k, t) /\ k = calls[i].key /\ calls' = RemoveAt(calls, i)
  BY <1>1, <1>2 DEF c
<1> QED  BY <1>1, <1>3, <1>5, <1>6, <1>7, Delivered

LEMMA DeliverReconcileInv ==
  ASSUME EditorInv, NEW i \in DOMAIN calls, DeliverReconcile(i)
  PROVE  EditorInv'
<1> DEFINE c == calls[i]
           t == IF c.got = Failed THEN withReloadFailed(tab[c.key])
                ELSE withExternalChange(tab[c.key], c.got)
<1>0. calls[i].op = "reconcile" /\ calls[i].got # None
  BY DEF DeliverReconcile, Deliver
<1>1. /\ c.op = "reconcile" /\ c.got # None /\ calls' = RemoveAt(calls, i)
      /\ Patch(c.key, t)
      /\ Mark(c, c.key \in Open /\ tab[c.key].saving,
                 c.key \in Open /\ tab'[c.key].conflict \notin {None, c.got})
      /\ UNCHANGED <<strip, keys, queue, restore, disk, changed, onDisk>>
  BY DEF DeliverReconcile, Deliver, world
<1>2. PICK k \in Keys : k = c.key
  BY CallTypes DEF EditorInv
<1>3. /\ Excused' \in SUBSET Keys /\ Excused' \cup {k} = Excused \cup {k}
      /\ k \notin Excused' => ~c.outdated
      /\ (k \notin Excused' /\ k \in Open) => ~tab[k].saving /\ tab'[k].conflict \in {None, c.got}
  BY <1>1, <1>2 DEF Mark, Excused, EditorInv, Types
<1>4. /\ CallOk(c) /\ c.got \in Text \cup {Failed}
      /\ c.got # Failed => c.got \in Text /\ c.got \in onDisk[c.path]
      /\ ~c.outdated => \/ Due(c.path)
                        \/ c.got = Failed /\ disk[c.path] = None
                        \/ c.got = disk[c.path]
  BY <1>0, AnswerSays
<1> HIDE DEF c
<1>5. ASSUME k \in Open
      PROVE  /\ t \in EditorTab /\ t.path = tab[k].path /\ TabOnDisk(t)
             /\ \A j \in DOMAIN calls \ {i} : calls[j].key = k =>
                  /\ calls[j].op = "load" => t.status = "loading"
                  /\ calls[j].op = "save" => t.status = "ready" /\ t.saving /\ k \in Excused'
             /\ (k \notin Excused' /\ t.status = "ready") => Due(tab[k].path) \/ Agrees(t)
  <2>1. /\ tab[k] \in EditorTab /\ tab[k].path = c.path /\ TabOnDisk(tab[k])
        /\ tab[k].conflict \in Text \cup {None}
    BY <1>2, <1>4, <1>5, OpenTab DEF EditorInv, CallOk, HeldWasOnDisk
  <2>2. t \in EditorTab /\ t.path = tab[k].path
    BY <1>2, <1>4, <2>1, TabOperations DEF withReloadFailed
  <2>3. tab'[k] = t
    BY <1>1, <1>2, <1>5 DEF Patch, EditorInv, Types
  <2>4. (tab[k].status # "ready" \/ tab[k].saving) => t = tab[k]
    BY <1>2 DEF withReloadFailed, withExternalChange
  <2>5. \/ t = tab[k] /\ (c.got = Failed \/ c.got = tab[k].baseline
                           \/ tab[k].status # "ready" \/ tab[k].saving)
        \/ c.got # Failed /\ t.baseline = c.got /\ t.conflict = None
        \/ c.got # Failed /\ t.baseline = tab[k].baseline /\ t.status = tab[k].status /\ t.conflict = c.got
    BY <1>2, <2>1 DEF withReloadFailed, withExternalChange, withLoaded, EditorTab
  <2> HIDE DEF t
  <2>6. TabOnDisk(t)
    <3>1. CASE t = tab[k]
      BY <2>1, <3>1
    <3>2. CASE c.got # Failed /\ t.baseline = c.got /\ t.conflict = None
      BY <1>4, <2>1, <2>2, <3>2 DEF TabOnDisk
    <3>3. CASE c.got # Failed /\ t.baseline = tab[k].baseline /\ t.status = tab[k].status /\ t.conflict = c.got
      BY <1>4, <2>1, <2>2, <3>3 DEF TabOnDisk
    <3> QED  BY <2>5, <3>1, <3>2, <3>3
  <2>7. ASSUME NEW j \in DOMAIN calls \ {i}, calls[j].key = k
        PROVE  /\ calls[j].op = "load" => t.status = "loading"
               /\ calls[j].op = "save" => t.status = "ready" /\ t.saving /\ k \in Excused'
    <3>1. CallOk(calls[j])
      BY DEF EditorInv, CallsOk
    <3>2. CASE calls[j].op = "load"
      BY <1>5, <2>4, <2>7, <3>1, <3>2 DEF CallOk
    <3>3. CASE calls[j].op = "save"
      BY <1>3, <1>5, <2>4, <2>7, <3>1, <3>3 DEF CallOk
    <3> QED  BY <3>2, <3>3
  <2>8. ASSUME k \notin Excused', t.status = "ready" PROVE Due(tab[k].path) \/ Agrees(t)
    <3>1. /\ ~tab[k].saving /\ t.conflict \in {None, c.got}
          /\ \/ Due(tab[k].path)
             \/ c.got = Failed /\ disk[tab[k].path] = None
             \/ c.got = disk[tab[k].path]
      BY <1>3, <1>4, <1>5, <2>1, <2>3, <2>8
    <3>2. CASE Due(tab[k].path) \/ disk[tab[k].path] = None
      BY <2>2, <3>2 DEF Agrees
    <3>3. CASE c.got = disk[tab[k].path] /\ c.got # Failed
      <4>1. CASE t = tab[k] /\ c.got = tab[k].baseline
        BY <2>2, <3>1, <3>3, <4>1 DEF Agrees
      <4>2. CASE t.baseline = c.got /\ t.conflict = None
        BY <2>2, <3>3, <4>2 DEF Agrees
      <4>3. CASE t.conflict = c.got
        BY <2>2, <3>3, <4>3 DEF Agrees
      <4> QED  BY <2>5, <2>8, <3>1, <3>3, <4>1, <4>2, <4>3
    <3>4. disk[tab[k].path] # Failed
      BY <2>1, EditorAssumption DEF EditorTab, EditorInv, Types
    <3> QED  BY <3>1, <3>2, <3>3, <3>4
  <2> QED  BY <2>2, <2>6, <2>7, <2>8
<1> HIDE DEF t
<1>6. Patch(k, t) /\ k = calls[i].key /\ calls' = RemoveAt(calls, i)
  BY <1>1, <1>2 DEF c
<1>7. k \in Open => t \in EditorTab /\ t.path = tab[k].path /\ TabOnDisk(t)
  BY <1>5
<1>8. k \in Open => \A j \in DOMAIN calls \ {i} : calls[j].key = k =>
        /\ calls[j].op = "load" => t.status = "loading"
        /\ calls[j].op = "save" => t.status = "ready" /\ t.saving
        /\ (calls[j].op = "save" /\ calls[j].got \in Text /\ k \notin Excused') =>
             Due(tab[k].path) \/ BeingRead(k)'
  BY <1>5
<1>9. (k \in Open \ Excused' /\ t.status = "ready") =>
        Due(tab[k].path) \/ BeingRead(k)' \/ Agrees(t)
  BY <1>5
<1> QED  BY <1>1, <1>3, <1>6, <1>7, <1>8, <1>9, Delivered

LEMMA DeliverSaveInv ==
  ASSUME EditorInv, NEW i \in DOMAIN calls, DeliverSave(i)
  PROVE  EditorInv'
<1> DEFINE c == calls[i]
           t == IF c.got = Failed THEN withSaveFailed(tab[c.key]) ELSE withSaved(tab[c.key], c.text)
<1>1. /\ c.op = "save" /\ c.got # None /\ calls' = RemoveAt(calls, i)
      /\ UNCHANGED <<keys, restore, disk, changed, onDisk, Excused>>
  BY DEF history, Excused, DeliverSave, Deliver, world
<1>2. PICK k \in Keys : k = c.key
  BY CallTypes DEF EditorInv
<1>3. /\ CallOk(c) /\ c.text \in Text /\ c.got \in {Failed, c.text}
      /\ c.got # Failed => c.text \in onDisk[c.path]
      /\ WriteIsRead(c)
  BY <1>1, AnswerSays DEF CallOk, EditorInv, Known
<1>4. \A j \in DOMAIN calls \ {i} : calls[j].key = k => calls[j].op = "reconcile"
  BY <1>1, <1>2, OtherCalls
<1>5. FewerCalls /\ \A o \in Keys : BeingRead(o) => BeingRead(o)'
  BY <1>1, CallTaken DEF Rereads
<1> HIDE DEF c
<1>6. CASE CloseTabs({c.key}, queue)
  <2>1. /\ queue \in Seq(Keys) /\ Range(queue) \subseteq Open /\ Types /\ StripOk
        /\ CloseTabs({k}, queue)
    BY <1>2, <1>6 DEF EditorInv, Types, StripOk
  <2>2. /\ strip' \in Seq(Keys) /\ Open' = Open \ {k}
        /\ queue' \in Seq(Keys) /\ Range(queue') = Range(queue) \ {k}
        /\ tab' \in [Keys -> EditorTab \cup {None}]
        /\ \A o \in Keys : tab'[o] = IF o \in {k} THEN None ELSE tab[o]
    BY <2>1, ClosedTabs
  <2>3. Range(queue') \subseteq Open'
    BY <2>1, <2>2
  <2>4. RestoreOk'
    BY <1>1 DEF EditorInv, Types, RestoreOk
  <2> QED  BY <1>1, <1>5, <2>2, <2>3, <2>4, Closed
<1>7. CASE Patch(c.key, t) /\ UNCHANGED <<strip, active, queue>>
  <2>1. ASSUME k \in Open
        PROVE  /\ t \in EditorTab /\ t.path = tab[k].path /\ TabOnDisk(t)
               /\ k \notin Excused => Due(tab[k].path) \/ BeingRead(k)' \/ Agrees(t)
    <3>1. /\ tab[k] \in EditorTab /\ tab[k].path = c.path /\ TabOnDisk(tab[k])
          /\ tab[k].status = "ready"
      BY <1>1, <1>2, <1>3, <2>1, OpenTab DEF EditorInv, CallOk, HeldWasOnDisk
    <3>2. t \in EditorTab /\ t.path = tab[k].path
      BY <1>2, <1>3, <3>1, TabOperations
    <3>3. CASE c.got = Failed
      <4>1. t.status = tab[k].status /\ t.baseline = tab[k].baseline /\ t.conflict = tab[k].conflict
        BY <1>2, <3>1, <3>3 DEF withSaveFailed, EditorTab
      <4>2. TabOnDisk(t)
        BY <3>1, <3>2, <4>1 DEF TabOnDisk
      <4>3. ASSUME k \notin Excused PROVE Due(tab[k].path) \/ BeingRead(k) \/ Agrees(tab[k])
        BY <2>1, <3>1, <4>3 DEF EditorInv, Known
      <4>4. Agrees(tab[k]) => Agrees(t)
        BY <3>2, <4>1 DEF Agrees
      <4> QED  BY <1>5, <3>2, <4>2, <4>3, <4>4
    <3>4. CASE c.got # Failed
      <4>1. t.baseline = c.text /\ t.conflict = None
        BY <1>2, <3>1, <3>4 DEF withSaved, EditorTab
      <4>2. TabOnDisk(t)
        BY <1>3, <3>1, <3>2, <3>4, <4>1 DEF TabOnDisk
      <4>3. k \notin Excused => Due(tab[k].path) \/ BeingRead(k)
        BY <1>1, <1>2, <1>3, <2>1, <3>1, <3>4 DEF WriteIsRead
      <4> QED  BY <1>5, <3>2, <4>2, <4>3
    <3> QED  BY <3>3, <3>4
  <2> HIDE DEF t
  <2>2. Patch(k, t) /\ k = calls[i].key /\ calls' = RemoveAt(calls, i)
    BY <1>1, <1>2, <1>7 DEF c
  <2>3. Excused' \in SUBSET Keys /\ Excused' = Excused
    BY <1>1 DEF EditorInv, Types
  <2>4. k \in Open => t \in EditorTab /\ t.path = tab[k].path /\ TabOnDisk(t)
    BY <2>1
  <2>5. k \in Open => \A j \in DOMAIN calls \ {i} : calls[j].key = k =>
          /\ calls[j].op = "load" => t.status = "loading"
          /\ calls[j].op = "save" => t.status = "ready" /\ t.saving
          /\ (calls[j].op = "save" /\ calls[j].got \in Text /\ k \notin Excused') =>
               Due(tab[k].path) \/ BeingRead(k)'
    BY <1>4
  <2>6. (k \in Open \ Excused' /\ t.status = "ready") =>
          Due(tab[k].path) \/ BeingRead(k)' \/ Agrees(t)
    BY <2>1, <2>3
  <2> QED  BY <1>1, <1>7, <2>2, <2>3, <2>4, <2>5, <2>6, Delivered
<1>8. CloseTabs({c.key}, queue) \/ (Patch(c.key, t) /\ UNCHANGED <<strip, active, queue>>)
  BY DEF DeliverSave, c
<1> QED  BY <1>6, <1>7, <1>8

(* A restored tab joins the strip; nothing else was under way for it.      *)
LEMMA DeliverRestoreInv ==
  ASSUME EditorInv, NEW i \in DOMAIN calls, DeliverRestore(i)
  PROVE  EditorInv'
<1> DEFINE c == calls[i]
           t == withLoaded(newTab(c.path), c.got)
<1>0. calls[i].op = "restore" /\ calls[i].got # None
  BY DEF DeliverRestore, Deliver
<1>1. /\ c.op = "restore" /\ c.got # None /\ calls' = RemoveAt(calls, i)
      /\ UNCHANGED <<keys, queue, disk, changed, onDisk>>
      /\ restore.todo \in Seq(Files) /\ restore.opened \in Seq([key : Keys, path : Files])
      /\ restore = [todo |-> restore.todo, opened |-> restore.opened, saved |-> restore.saved]
  BY DEF DeliverRestore, Deliver, world, EditorInv, Types, RestoreOk
<1>2. PICK k \in Keys : k = c.key
  BY CallTypes DEF EditorInv
<1>3. /\ CallOk(c) /\ c.path \in Files
      /\ c.got # Failed => c.got \in Text /\ c.got \in onDisk[c.path]
      /\ ~c.outdated => \/ Due(c.path)
                        \/ c.got = Failed /\ disk[c.path] = None
                        \/ c.got = disk[c.path]
  BY <1>0, AnswerSays, CallTypes DEF EditorInv
<1>4. k \notin Open /\ k <= keys
  BY <1>1, <1>2, <1>3 DEF CallOk
<1>5. FewerCalls /\ \A o \in Keys : BeingRead(o) => BeingRead(o)'
  BY <1>1, CallTaken DEF Rereads
<1>6. \A j \in DOMAIN calls' : calls'[j].key # k
  <2>1. \A j \in DOMAIN calls \ {i} : calls[j].key # k
    BY <1>1, <1>2 DEF EditorInv, CallsOk, Apart
  <2>2. \A j \in DOMAIN calls' : \E m \in DOMAIN calls \ {i} : calls'[j] = calls[m]
    BY <1>1, CallTaken
  <2> QED  BY <2>1, <2>2
<1>7. Tail(restore.todo) \in Seq(Files)
  BY <1>1, TailType
<1>8. CASE c.got = Failed
  <2>1. /\ restore' = [todo |-> Tail(restore.todo), opened |-> restore.opened,
                       saved |-> restore.saved]
        /\ UNCHANGED <<tab, strip, Excused>> /\ Open' = Open
    BY <1>1, <1>8 DEF history, Excused, DeliverRestore, c, Open
  <2>2. RestoreOk'
    BY <1>1, <1>7, <2>1 DEF RestoreOk
  <2>3. PICK closing : closing = {}
    OBVIOUS
  <2>4. /\ strip' \in Seq(Keys) /\ Open' = Open \ closing
        /\ queue' \in Seq(Keys) /\ Range(queue') \subseteq Open'
        /\ tab' \in [Keys -> EditorTab \cup {None}]
        /\ \A o \in Keys : tab'[o] = IF o \in closing THEN None ELSE tab[o]
    BY <1>1, <2>1, <2>3 DEF EditorInv, Types, StripOk
  <2> HIDE DEF c
  <2> QED  BY <1>1, <1>5, <2>1, <2>2, <2>4, Closed
<1>9. CASE c.got # Failed
  <2>1. /\ tab' = [tab EXCEPT ![k] = t] /\ strip' = Append(strip, k) /\ Mark(c, FALSE, FALSE)
        /\ restore' = [todo |-> Tail(restore.todo), saved |-> restore.saved,
                       opened |-> Append(restore.opened, [key |-> k, path |-> c.path])]
    BY <1>1, <1>2, <1>9 DEF DeliverRestore, c, t
  <2>2. t \in EditorTab /\ t # None /\ t.path = c.path /\ t.baseline = c.got /\ t.conflict = None
    <3>1. newTab(c.path) \in EditorTab /\ newTab(c.path).path = c.path
      BY <1>3, TabOperations
    <3>2. t \in EditorTab /\ t.path = c.path
      BY <1>3, <1>9, <3>1, TabOperations DEF t
    <3>3. t.baseline = c.got /\ t.conflict = None
      BY <3>1 DEF t, withLoaded, EditorTab
    <3> QED  BY <3>2, <3>3, EditorAssumption
  <2>3. /\ strip' \in Seq(Keys) /\ Open' = Open \cup {k}
        /\ tab' \in [Keys -> EditorTab \cup {None}]
        /\ tab'[k] = t /\ \A o \in Keys \ {k} : tab'[o] = tab[o]
    BY <1>2, <2>1, <2>2, AppendedElements DEF EditorInv, Types, Open
  <2>4. Excused' \subseteq Keys /\ Excused' \cup {k} = Excused \cup {k} /\ (k \notin Excused' => ~c.outdated)
    BY <1>2, <2>1 DEF Mark, Excused, EditorInv, Types
  <2>5. RestoreOk'
    <3>1. [key |-> k, path |-> c.path] \in [key : Keys, path : Files]
      BY <1>3
    <3>2. Append(restore.opened, [key |-> k, path |-> c.path]) \in Seq([key : Keys, path : Files])
      BY <1>1, <3>1, AppendedElements
    <3> QED  BY <1>7, <2>1, <3>2 DEF RestoreOk
  <2>6. \A o \in Open : o \in Keys \ {k} /\ o <= keys
    BY <1>4, OpenTab DEF EditorInv
  <2>7. Types'
    BY <1>1, <1>5, <2>3, <2>4, <2>5 DEF EditorInv, Types, FewerCalls
  <2>8. StripOk'
    BY <1>1, <1>4, <2>2, <2>3, <2>6 DEF EditorInv, StripOk
  <2>9. \A j \in DOMAIN calls' : \E m \in DOMAIN calls :
          calls'[j] = calls[m] /\ calls[m].key # k /\ calls[m].key \in Keys
    BY <1>5, <1>6, CallTypes DEF FewerCalls, EditorInv
  <2>10. CallsOk'
    <3>1. ASSUME NEW j \in DOMAIN calls' PROVE CallOk(calls[j])'
      <4>1. PICK m \in DOMAIN calls :
              calls'[j] = calls[m] /\ calls[m].key # k /\ calls[m].key \in Keys
        BY <2>9
      <4>2. CallOk(calls[m])
        BY DEF EditorInv, CallsOk
      <4> QED  BY <1>1, <2>3, <4>1, <4>2 DEF CallOk
    <3> QED  BY <1>5, <3>1 DEF CallsOk, FewerCalls, Apart
  <2>11. HeldWasOnDisk'
    <3>1. ASSUME NEW o \in Open' PROVE TabOnDisk(tab[o])'
      <4>1. CASE o = k
        BY <1>1, <1>3, <1>9, <2>2, <2>3, <4>1 DEF TabOnDisk
      <4>2. CASE o # k
        <5>1. TabOnDisk(tab[o]) /\ tab'[o] = tab[o]
          BY <2>3, <2>6, <4>2 DEF EditorInv, HeldWasOnDisk
        <5> QED  BY <1>1, <5>1 DEF TabOnDisk
      <4> QED  BY <4>1, <4>2
    <3>2. \A j \in DOMAIN calls' : CallOnDisk(calls[j])'
      BY <1>1, <2>9 DEF EditorInv, HeldWasOnDisk, CallOnDisk
    <3> QED  BY <1>1, <3>1, <3>2 DEF EditorInv, HeldWasOnDisk
  <2>12. Known'
    <3>1. ASSUME NEW j \in DOMAIN calls' PROVE AnswerIsDisk(calls[j])' /\ WriteIsRead(calls[j])'
      <4>1. PICK m \in DOMAIN calls :
              calls'[j] = calls[m] /\ calls[m].key # k /\ calls[m].key \in Keys
        BY <2>9
      <4>2. AnswerIsDisk(calls[j])'
        <5>1. AnswerIsDisk(calls[m])
          BY DEF EditorInv, Known
        <5> QED  BY <1>1, <4>1, <5>1 DEF AnswerIsDisk, Due
      <4>3. WriteIsRead(calls[j])'
        <5>1. WriteIsRead(calls[m])
          BY DEF EditorInv, Known
        <5> QED  BY <1>1, <1>5, <2>3, <2>4, <4>1, <5>1 DEF WriteIsRead, Due
      <4> QED  BY <4>2, <4>3
    <3>2. ASSUME NEW o \in Open' \ Excused', tab'[o].status = "ready"
          PROVE  Due(tab[o].path)' \/ BeingRead(o)' \/ Agrees(tab[o])'
      <4>1. CASE o = k
        <5>1. tab'[o] = t /\ ~c.outdated
          BY <2>3, <2>4, <3>2, <4>1
        <5> QED  BY <1>1, <1>3, <1>9, <2>2, <5>1 DEF Due, Agrees
      <4>2. CASE o # k
        <5>1. o \in Open \ Excused /\ o \in Keys /\ tab'[o] = tab[o]
          BY <2>3, <2>4, <2>6, <3>2, <4>2
        <5>2. Due(tab[o].path) \/ BeingRead(o) \/ Agrees(tab[o])
          BY <3>2, <5>1 DEF EditorInv, Known
        <5> QED  BY <1>1, <1>5, <5>1, <5>2 DEF Due, Agrees
      <4> QED  BY <4>1, <4>2
    <3> QED  BY <3>1, <3>2 DEF Known
  <2> QED  BY <2>7, <2>8, <2>10, <2>11, <2>12 DEF EditorInv
<1> QED  BY <1>8, <1>9

-----------------------------------------------------------------------------
(* The invariant holds, and what follows from it.                          *)

LEMMA EditorInit ==
  ASSUME Init
  PROVE  EditorInv
<1>1. /\ tab = [k \in Keys |-> None] /\ strip = <<>> /\ keys = 0 /\ queue = <<>>
      /\ calls = <<>> /\ restore = [todo |-> <<>>, opened |-> <<>>, saved |-> None]
      /\ changed = {} /\ Excused = {} /\ onDisk = [f \in Files |-> {FirstText}]
  BY DEF Excused, Init
<1>2. /\ disk \in [Files -> Text \cup {None}]
      /\ \A f \in Files : disk[f] # None => disk[f] = FirstText
  <2>1. PICK gone \in SUBSET Saved : disk = [f \in Files |-> IF f \in gone THEN None ELSE FirstText]
    BY DEF Init
  <2> QED  BY <2>1, EditorAssumption
<1>3. Open = {} /\ Range(queue) = {} /\ DOMAIN calls = {}
  BY <1>1 DEF Open, Range
<1>4. Types
  <2>1. 0 \in 0 .. MaxKeys
    BY EditorAssumption
  <2>2. RestoreOk
    BY <1>1 DEF RestoreOk
  <2>3. onDisk \in [Files -> SUBSET Text]
    BY <1>1, EditorAssumption
  <2> QED  BY <1>1, <1>2, <2>1, <2>2, <2>3 DEF Types
<1>5. StripOk
  BY <1>1, <1>3 DEF StripOk
<1>6. CallsOk
  BY <1>3 DEF CallsOk
<1>7. HeldWasOnDisk
  BY <1>1, <1>2, <1>3 DEF HeldWasOnDisk
<1>8. Known
  BY <1>3 DEF Known
<1> QED  BY <1>4, <1>5, <1>6, <1>7, <1>8 DEF EditorInv

LEMMA EditorStep ==
  ASSUME EditorInv, [Next]_vars
  PROVE  EditorInv'
<1>1. CASE UNCHANGED vars
  BY <1>1, Undisturbed DEF history, Excused, vars, EditorInv, Types, RestoreOk
<1>2. ASSUME NEW k \in Keys, Select(k) PROVE EditorInv'
  BY <1>2, Undisturbed DEF history, Excused, Select, world, EditorInv, Types, RestoreOk
<1>3. CASE Cancel
  <2>1. /\ queue' \in Seq(Keys) /\ Range(queue') = {}
        /\ UNCHANGED <<tab, strip, keys, calls, restore, disk, changed, onDisk, Excused>>
    BY <1>3 DEF history, Excused, Cancel, world, Range
  <2> QED  BY <2>1, Undisturbed DEF EditorInv, Types, RestoreOk
<1>4. CASE User
  <2>1. CASE \E f \in Files : OpenFile(f)
    BY <2>1, OpenFileInv
  <2>2. ASSUME NEW k \in Keys, KeepMine(k) \/ TakeDisk(k) PROVE EditorInv'
    BY <2>2, ResolveInv
  <2>3. ASSUME NEW k \in Keys, Save(k) PROVE EditorInv'
    <3>1. k \in Open /\ StartSave(k, FALSE) /\ queue' = queue
          /\ UNCHANGED <<strip, keys, restore, disk, changed, onDisk, Excused>>
      BY <2>3 DEF history, Excused, Save, InPane, world
    <3>2. queue' \in Seq(Keys) /\ Range(queue') = Range(queue)
      BY <3>1 DEF EditorInv, Types
    <3> QED  BY <3>1, <3>2, StartSaveInv
  <2>4. ASSUME NEW k \in Keys, NEW text \in Text, Edit(k, text) PROVE EditorInv'
    BY <2>4, EditInv
  <2> QED  BY <1>2, <1>3, <1>4, <2>1, <2>2, <2>3, <2>4, RequestCloseInv, DiscardInv,
              SaveAndCloseInv, CloseProjectInv DEF User
<1>5. CASE App
  BY <1>5, RestoreInv, RestoreNextInv, RestoreEndsInv, TreeEventInv DEF App
<1>6. CASE Backend
  BY <1>6, AnswerReadInv, PerformWriteInv, ExternalChangeInv DEF Backend
<1>7. CASE Deliveries
  BY <1>7, DeliverLoadInv, DeliverReconcileInv, DeliverRestoreInv, DeliverSaveInv DEF Deliveries
<1> QED  BY <1>1, <1>4, <1>5, <1>6, <1>7 DEF Next

(* EditorInv is an invariant.                                              *)
THEOREM EditorInvariant == Spec => []EditorInv
<1>1. Init => EditorInv
  BY EditorInit
<1>2. EditorInv /\ [Next]_vars => EditorInv'
  BY EditorStep
<1> QED  BY <1>1, <1>2, PTL DEF Spec

(* What a tab takes for the disk's content the disk has really held.       *)
THEOREM BaselineAlwaysWasOnDisk == Spec => []BaselineWasOnDisk
<1>1. EditorInv => BaselineWasOnDisk
  BY DEF EditorInv, HeldWasOnDisk, TabOnDisk, BaselineWasOnDisk
<1> QED  BY <1>1, EditorInvariant, PTL

(* With nothing outstanding for its file, a tab that can be saved agrees   *)
(* with the disk or says that it does not, but for a tab whose last answer *)
(* came too late or during a save, and one that kept its conflict when the *)
(* last answer contradicted it.                                            *)
THEOREM QuietTabsKnown == Spec => []QuietMeansKnown
<1>1. EditorInv => QuietMeansKnown
  <2> SUFFICES ASSUME EditorInv, NEW k \in Open, tab[k].status = "ready", k \notin Excused,
                      Dir[tab[k].path] \notin {Dir[g] : g \in changed},
                      \A i \in DOMAIN calls : calls[i].path # tab[k].path
               PROVE  \/ tab[k].baseline = disk[tab[k].path]
                      \/ tab[k].conflict # None
                      \/ disk[tab[k].path] = None
    BY DEF QuietMeansKnown, Quiet, Excused
  <2>1. Due(tab[k].path) \/ BeingRead(k) \/ Agrees(tab[k])
    BY DEF EditorInv, Known
  <2>2. ~Due(tab[k].path)
    BY DEF Due
  <2>3. ~BeingRead(k)
    BY DEF BeingRead, Rereads, EditorInv, CallsOk, CallOk
  <2>4. tab[k].path \in Files
    BY OpenTab DEF EditorInv
  <2> QED  BY <2>1, <2>2, <2>3, <2>4 DEF Agrees, EditorInv, Types
<1> QED  BY <1>1, EditorInvariant, PTL

(* What a step can do to a tab with unsaved edits: keep its buffer, or     *)
(* replace or drop it because the user said so.                            *)
LEMMA DirtyTab ==
  ASSUME EditorInv, Next, NEW k \in Open, isDirty(tab[k])
  PROVE  \/ tab'[k] # None /\ tab'[k].content = tab[k].content
         \/ tab'[k] # None /\ (TakeDisk(k) \/ \E text \in Text : Edit(k, text))
         \/ /\ tab'[k] = None
            /\ \/ Discard \/ closeProject
               \/ \E i \in DOMAIN calls :
                    /\ DeliverSave(i) /\ calls[i].key = k
                    /\ calls[i].closes /\ calls[i].got = calls[i].text
<1> DEFINE Kept == tab'[k] # None /\ tab'[k].content = tab[k].content
<1>1. /\ k \in Keys /\ tab[k] \in EditorTab /\ tab[k] # None /\ k <= keys
      /\ tab \in [Keys -> EditorTab \cup {None}]
  BY OpenTab, EditorAssumption DEF EditorInv, Types
<1>2. tab' = tab => Kept
  BY <1>1
<1>3. ASSUME NEW t \in EditorTab, NEW o, tab' = [tab EXCEPT ![o] = t], o # k \/ t.content = tab[k].content
      PROVE  Kept
  BY <1>1, <1>3, EditorAssumption
<1>4. ASSUME NEW closing, k \notin closing, NEW asked, CloseTabs(closing, asked)
      PROVE  Kept
  BY <1>1, <1>4 DEF CloseTabs
<1>5. ASSUME NEW i \in DOMAIN calls
      PROVE  /\ CallOk(calls[i]) /\ calls[i].key \in Keys /\ calls[i].path \in Files
             /\ calls[i].got \in Text \cup {None, Failed}
  BY CallTypes DEF EditorInv, CallsOk
<1>6. CASE User
  <2>1. ASSUME NEW f \in Files, OpenFile(f) PROVE Kept
    <3>1. tab' = tab \/ tab' = [tab EXCEPT ![keys + 1] = newTab(f)]
      BY <2>1 DEF OpenFile
    <3>2. newTab(f) \in EditorTab /\ keys + 1 # k
      BY <1>1, TabOperations, EditorAssumption DEF EditorInv, Types, Keys
    <3> QED  BY <1>2, <1>3, <3>1, <3>2
  <2>2. ASSUME NEW o \in Keys, Select(o) PROVE Kept
    BY <1>2, <2>2 DEF Select
  <2>3. ASSUME NEW o \in Keys, KeepMine(o) PROVE Kept
    <3>1. o \in Open /\ tab' = [tab EXCEPT ![o] = resolveKeepMine(tab[o])] /\ tab[o].conflict # None
      BY <2>3 DEF KeepMine, InPane, Patch
    <3>2. tab[o] \in EditorTab /\ tab[o].conflict \in Text
      BY <3>1, OpenTab DEF EditorInv
    <3>3. resolveKeepMine(tab[o]) \in EditorTab /\ resolveKeepMine(tab[o]).content = tab[o].content
      BY <3>2 DEF resolveKeepMine, EditorTab
    <3> QED  BY <1>3, <3>1, <3>3
  <2>4. ASSUME NEW o \in Keys, TakeDisk(o) PROVE Kept \/ (tab'[k] # None /\ TakeDisk(k))
    <3>1. o \in Open /\ tab' = [tab EXCEPT ![o] = resolveTakeDisk(tab[o])] /\ tab[o].conflict # None
      BY <2>4 DEF TakeDisk, InPane, Patch
    <3>2. tab[o] \in EditorTab /\ tab[o].conflict \in Text
      BY <3>1, OpenTab DEF EditorInv
    <3>3. resolveTakeDisk(tab[o]) \in EditorTab
      BY <3>2 DEF resolveTakeDisk, EditorTab
    <3>4. CASE o = k
      BY <1>1, <2>4, <3>1, <3>3, <3>4, EditorAssumption
    <3> QED  BY <1>3, <3>1, <3>3, <3>4
  <2>5. ASSUME NEW o \in Keys, NEW text \in Text, Edit(o, text)
        PROVE  Kept \/ (tab'[k] # None /\ Edit(k, text))
    <3>1. o \in Open /\ tab' = [tab EXCEPT ![o] = withEdit(tab[o], text)]
      BY <2>5 DEF Edit, InPane, Patch
    <3>2. withEdit(tab[o], text) \in EditorTab
      BY <3>1, OpenTab, TabOperations DEF EditorInv
    <3>3. CASE o = k
      BY <1>1, <2>5, <3>1, <3>2, <3>3, EditorAssumption
    <3> QED  BY <1>3, <3>1, <3>2, <3>3
  <2>6. ASSUME NEW o \in Keys, NEW closes, canSave(tab[o]), tab' = [tab EXCEPT ![o] = withSaving(@)]
        PROVE  Kept
    <3>1. CASE o = k
      <4>1. withSaving(tab[k]) \in EditorTab
        BY <1>1, TabOperations
      <4>2. withSaving(tab[k]).content = tab[k].content
        BY <1>1 DEF withSaving, EditorTab
      <4> QED  BY <1>1, <2>6, <3>1, <4>1, <4>2, EditorAssumption
    <3>2. CASE o # k
      BY <1>1, <2>6, <3>2
    <3> QED  BY <3>1, <3>2
  <2>7. ASSUME NEW o \in Keys, Save(o) PROVE Kept
    BY <2>6, <2>7 DEF Save, StartSave
  <2>8. CASE RequestClose
    <3>1. PICK closing : requestClose(closing)
      BY <2>8 DEF RequestClose
    <3> DEFINE dirty == {o \in closing : isDirty(tab[o])}
    <3>2. \E asked : CloseTabs(closing \ dirty, asked)
      BY <3>1 DEF requestClose
    <3>3. k \notin closing \ dirty
      OBVIOUS
    <3> HIDE DEF dirty
    <3> QED  BY <1>4, <3>2, <3>3
  <2>9. CASE Discard
    <3>1. tab'[k] \in {None, tab[k]}
      BY <1>1, <2>9 DEF Discard, CloseTabs
    <3> QED  BY <1>1, <2>9, <3>1
  <2>10. CASE SaveAndClose
    <3>1. Head(queue) \in Keys
      BY <2>10 DEF SaveAndClose, EditorInv, Types
    <3> QED  BY <2>6, <2>10, <3>1 DEF SaveAndClose, StartSave
  <2>11. CASE closeProject
    BY <1>1, <2>11 DEF closeProject
  <2>12. CASE \E o \in Keys :
                \/ Select(o) \/ KeepMine(o) \/ TakeDisk(o) \/ Save(o)
                \/ \E text \in Text : Edit(o, text)
    <3>1. PICK o \in Keys :
            \/ Select(o) \/ KeepMine(o) \/ TakeDisk(o) \/ Save(o)
            \/ \E text \in Text : Edit(o, text)
      BY <2>12
    <3>2. CASE \E text \in Text : Edit(o, text)
      BY <2>5, <3>2
    <3> QED  BY <2>2, <2>3, <2>4, <2>7, <3>1, <3>2
  <2>13. CASE Cancel
    BY <1>2, <2>13 DEF Cancel
  <2>14. CASE \E f \in Files : OpenFile(f)
    BY <2>1, <2>14
  <2> QED  BY <1>6, <2>8, <2>9, <2>10, <2>11, <2>12, <2>13, <2>14 DEF User
<1>7. CASE App
  BY <1>2, <1>7 DEF App, Restore, RestoreNext, RestoreEnds, TreeEvent
<1>8. CASE Backend
  BY <1>2, <1>8 DEF Backend, AnswerRead, PerformWrite, ExternalChange
<1>9. ASSUME NEW i \in DOMAIN calls, DeliverLoad(i) PROVE Kept
  <2>1. calls[i].op = "load"
    BY <1>9 DEF DeliverLoad, Deliver
  <2>2. calls[i].key # k
    BY <1>5, <2>1 DEF CallOk, isDirty
  <2> QED  BY <1>1, <1>9, <2>2 DEF DeliverLoad, Patch
<1>10. ASSUME NEW i \in DOMAIN calls, DeliverReconcile(i) PROVE Kept
  <2> DEFINE t == IF calls[i].got = Failed THEN withReloadFailed(tab[calls[i].key])
                  ELSE withExternalChange(tab[calls[i].key], calls[i].got)
  <2>1. calls[i].got # None /\ Patch(calls[i].key, t)
    BY <1>10 DEF DeliverReconcile, Deliver
  <2>2. CASE calls[i].key = k
    <3>1. t \in EditorTab
      BY <1>1, <1>5, <2>1, <2>2, TabOperations DEF withReloadFailed
    <3>2. t.content = tab[k].content
      BY <1>1, <2>2 DEF withReloadFailed, withExternalChange, EditorTab
    <3> HIDE DEF t
    <3> QED  BY <1>1, <2>1, <2>2, <3>1, <3>2, EditorAssumption DEF Patch
  <2>3. CASE calls[i].key # k
    BY <1>1, <2>1, <2>3 DEF Patch
  <2> QED  BY <2>2, <2>3
<1>11. ASSUME NEW i \in DOMAIN calls, DeliverRestore(i) PROVE Kept
  <2>1. calls[i].key # k
    BY <1>5, <1>11 DEF DeliverRestore, Deliver, CallOk
  <2> QED  BY <1>1, <1>11, <2>1 DEF DeliverRestore
<1>12. ASSUME NEW i \in DOMAIN calls, DeliverSave(i)
       PROVE  \/ Kept
              \/ /\ tab'[k] = None /\ calls[i].key = k
                 /\ calls[i].closes /\ calls[i].got = calls[i].text
  <2> DEFINE t == IF calls[i].got = Failed THEN withSaveFailed(tab[calls[i].key])
                  ELSE withSaved(tab[calls[i].key], calls[i].text)
  <2>1. /\ calls[i].op = "save" /\ calls[i].got # None
        /\ \/ CloseTabs({calls[i].key}, queue) /\ calls[i].closes /\ calls[i].got # Failed
           \/ Patch(calls[i].key, t)
    BY <1>12 DEF DeliverSave, Deliver
  <2>2. calls[i].got \in {Failed, calls[i].text} /\ calls[i].text \in Text
    BY <1>5, <2>1 DEF CallOk
  <2>3. CASE CloseTabs({calls[i].key}, queue) /\ calls[i].closes /\ calls[i].got # Failed
    BY <1>1, <1>4, <2>2, <2>3 DEF CloseTabs
  <2>4. CASE Patch(calls[i].key, t)
    <3>1. CASE calls[i].key = k
      <4>1. t \in EditorTab
        BY <1>1, <2>2, <3>1, TabOperations
      <4>2. t.content = tab[k].content
        BY <1>1, <3>1 DEF withSaved, withSaveFailed, EditorTab
      <4> HIDE DEF t
      <4> QED  BY <1>1, <2>4, <3>1, <4>1, <4>2, EditorAssumption DEF Patch
    <3>2. CASE calls[i].key # k
      BY <1>1, <2>4, <3>2 DEF Patch
    <3> QED  BY <3>1, <3>2
  <2> QED  BY <2>1, <2>3, <2>4
<1>13. CASE Deliveries
  BY <1>9, <1>10, <1>11, <1>12, <1>13 DEF Deliveries
<1> QED  BY <1>6, <1>7, <1>8, <1>13 DEF Next

(* What EditsSurvive and NoSilentDiscard say of one step.                  *)
EditStep ==
  \A k \in Keys :
       (k \in Open /\ isDirty(tab[k]) /\ tab'[k] # None /\ tab'[k].content # tab[k].content)
         => TakeDisk(k) \/ \E text \in Text : Edit(k, text)

DiscardStep ==
  \A k \in Open :
       (isDirty(tab[k]) /\ tab'[k] = None) =>
         \/ Discard \/ closeProject
         \/ \E i \in DOMAIN calls :
              /\ DeliverSave(i) /\ calls[i].key = k
              /\ calls[i].closes /\ calls[i].got = calls[i].text

(* No answer of the backend, however late and in whatever order, changes   *)
(* the buffer of a tab with unsaved edits.                                 *)
THEOREM EditsAlwaysSurvive == Spec => EditsSurvive
<1>1. EditorInv /\ [Next]_vars => [EditStep]_vars
  BY DirtyTab DEF EditStep
<1> QED  BY <1>1, EditorInvariant, PTL DEF Spec, EditsSurvive, EditStep

(* A tab with unsaved edits leaves the strip only on Discard, with its     *)
(* project, or when the save it was to be closed after has been written.   *)
THEOREM NeverSilentlyDiscarded == Spec => NoSilentDiscard
<1>1. EditorInv /\ [Next]_vars => [DiscardStep]_vars
  BY DirtyTab DEF DiscardStep
<1> QED  BY <1>1, EditorInvariant, PTL DEF Spec, NoSilentDiscard, DiscardStep

=============================================================================
