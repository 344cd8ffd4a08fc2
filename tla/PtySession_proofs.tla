-------------------------- MODULE PtySession_proofs --------------------------
(***************************************************************************)
(* Proofs about PtySession, for any consumers, ring, queues and output.    *)
(***************************************************************************)
EXTENDS PtySession, SequenceTheorems, TLAPS

-----------------------------------------------------------------------------
(* The scrollback ring does what its reference definition says, for every  *)
(* capacity, every ring and every write: a snapshot after a write is the   *)
(* newest ScrollbackCap bytes of the snapshot before it followed by what   *)
(* was written.                                                            *)

(* Reading index a of the buffer, where a may have passed its end once.    *)
Wrap(a) == IF a < ScrollbackCap THEN a ELSE a - ScrollbackCap

(* The remainder the code takes is one conditional subtraction, because no *)
(* index is as far as two buffers.                                         *)
LEMMA WrapIsMod ==
  ASSUME ScrollbackCap \in Nat \ {0}, NEW a \in Nat, a < 2 * ScrollbackCap
  PROVE  a % ScrollbackCap = Wrap(a)
<1>1. CASE a < ScrollbackCap
  BY <1>1, SMT DEF Wrap
<1>2. CASE a >= ScrollbackCap
  <2> DEFINE b == a - ScrollbackCap
  <2>1. b \in Nat /\ b < ScrollbackCap /\ a = b + ScrollbackCap
    BY <1>2, SMT
  <2>2. (b + ScrollbackCap) % ScrollbackCap = b
    BY <2>1, SMT
  <2> QED
    BY <1>2, <2>1, <2>2, SMT DEF Wrap
<1> QED
  BY <1>1, <1>2, SMT

(* The snapshot, byte by byte (ring.go, snapshot): the i-th byte is at the *)
(* i-th index from the oldest, going round the end of the buffer once.     *)
LEMMA SnapshotBytes ==
  ASSUME ScrollbackCap \in Nat \ {0}, NEW r \in Ring!Ring
  PROVE  /\ Ring!Snapshot(r) \in Seq(Nat)
         /\ Len(Ring!Snapshot(r)) = r.size
         /\ \A i \in 1 .. r.size :
              Wrap(r.start + i - 1) \in Ring!Index /\ Ring!Snapshot(r)[i] = r.buf[Wrap(r.start + i - 1)]
<1>1. /\ r.buf \in [Ring!Index -> Nat]
      /\ r.start \in Nat /\ r.start < ScrollbackCap
      /\ r.size \in Nat /\ r.size <= ScrollbackCap
  BY SMT DEF Ring!Ring, Ring!Index
<1>2. ASSUME NEW i \in 1 .. r.size
      PROVE  /\ Wrap(r.start + i - 1) \in Ring!Index
             /\ Ring!Snapshot(r)[i] = r.buf[Wrap(r.start + i - 1)]
  <2>1. Wrap(r.start + i - 1) \in Ring!Index
    BY <1>1, SMT DEF Wrap, Ring!Index
  <2>2. Ring!Snapshot(r)[i] = r.buf[Wrap(r.start + i - 1)]
    BY <1>1, SMT DEF Ring!Snapshot, Wrap, Ring!Least
  <2> QED
    BY <2>1, <2>2
<1>3. \A i \in 1 .. r.size : Ring!Snapshot(r)[i] \in Nat
  BY <1>1, <1>2, SMT
<1>4. Ring!Snapshot(r) \in [1 .. r.size -> Nat]
  <2> DEFINE n      == Ring!Least(r.start + r.size, ScrollbackCap) - r.start
             at(i)  == IF i <= n THEN r.buf[r.start + i - 1] ELSE r.buf[i - n - 1]
  <2>1. Ring!Snapshot(r) = [i \in 1 .. r.size |-> at(i)]
    BY DEF Ring!Snapshot
  <2> HIDE DEF at
  <2>2. \A i \in 1 .. r.size : at(i) \in Nat
    BY <1>3, <2>1
  <2> QED
    BY <2>1, <2>2
<1>5. Ring!Snapshot(r) \in Seq(Nat) /\ Len(Ring!Snapshot(r)) = r.size
  BY <1>1, <1>4, SMT
<1> QED
  BY <1>2, <1>5

(* The same of the reference definition: what Newest keeps of s.           *)
LEMMA NewestBytes ==
  ASSUME ScrollbackCap \in Nat \ {0}, NEW s \in Seq(Nat)
  PROVE  /\ Ring!Newest(s) \in Seq(Nat)
         /\ Len(Ring!Newest(s)) = Ring!Least(Len(s), ScrollbackCap)
         /\ \A i \in 1 .. Ring!Least(Len(s), ScrollbackCap) :
              Ring!Newest(s)[i] = s[Len(s) - Ring!Least(Len(s), ScrollbackCap) + i]
<1> DEFINE n == Ring!Least(Len(s), ScrollbackCap)
<1>1. n \in Nat /\ n <= Len(s) /\ Len(s) \in Nat
  BY SMT DEF Ring!Least
<1> HIDE DEF n
<1>2. /\ SubSeq(s, Len(s) - n + 1, Len(s)) \in Seq(Nat)
      /\ Len(SubSeq(s, Len(s) - n + 1, Len(s))) = n
      /\ \A i \in 1 .. n : SubSeq(s, Len(s) - n + 1, Len(s))[i] = s[Len(s) - n + i]
  BY <1>1, SMT
<1> QED BY <1>2 DEF Ring!Newest, n

(* A long write (the first branch of ring.go's write) leaves a ring whose  *)
(* buffer is the end of what was written.                                  *)
LEMMA LongWrite ==
  ASSUME ScrollbackCap \in Nat \ {0}, NEW r \in Ring!Ring, NEW p \in Seq(Nat), Len(p) >= ScrollbackCap
  PROVE  /\ Ring!WriteLong(r, p) \in Ring!Ring
         /\ Ring!Snapshot(Ring!WriteLong(r, p)) = Ring!Newest(Ring!Snapshot(r) \o p)
<1> DEFINE w    == Ring!WriteLong(r, p)
           tail == Ring!From(p, Len(p) - ScrollbackCap)
<1>1. /\ tail \in Seq(Nat)
      /\ Len(tail) = ScrollbackCap
      /\ \A i \in 1 .. ScrollbackCap : tail[i] = p[Len(p) - ScrollbackCap + i]
  BY SMTT(30) DEF Ring!From
<1>2. /\ r.buf \in [Ring!Index -> Nat]
      /\ r.size \in Nat
  BY SMT DEF Ring!Ring
<1>3. w = [buf |-> Ring!Copy(r.buf, 0, tail), start |-> 0, size |-> ScrollbackCap]
  BY DEF Ring!WriteLong
<1>4. \A i \in Ring!Index : Ring!Copy(r.buf, 0, tail)[i] = tail[i + 1]
  BY <1>1, SMT DEF Ring!Copy, Ring!Index
<1>5. Ring!Copy(r.buf, 0, tail) \in [Ring!Index -> Nat]
  <2>1. \A i \in Ring!Index : i + 1 \in 1 .. ScrollbackCap
    BY SMT DEF Ring!Index
  <2> HIDE DEF tail
  <2>2. \A i \in Ring!Index : tail[i + 1] \in Nat
    BY <1>1, <2>1, SMTT(30)
  <2>3. Ring!Copy(r.buf, 0, tail) = [i \in Ring!Index |-> Ring!Copy(r.buf, 0, tail)[i]]
    BY DEF Ring!Copy
  <2> QED
    BY <1>4, <2>2, <2>3
<1>6. w \in Ring!Ring
  BY <1>3, <1>5, SMT DEF Ring!Ring, Ring!Index
<1>7. /\ Ring!Snapshot(w) \in Seq(Nat)
      /\ Len(Ring!Snapshot(w)) = ScrollbackCap
      /\ \A i \in 1 .. ScrollbackCap : Ring!Snapshot(w)[i] = p[Len(p) - ScrollbackCap + i]
  <2>1. /\ Ring!Snapshot(w) \in Seq(Nat)
        /\ Len(Ring!Snapshot(w)) = w.size
        /\ \A i \in 1 .. w.size :
             Wrap(w.start + i - 1) \in Ring!Index /\ Ring!Snapshot(w)[i] = w.buf[Wrap(w.start + i - 1)]
    BY <1>6, SnapshotBytes
  <2>2. w.size = ScrollbackCap /\ w.start = 0 /\ w.buf = Ring!Copy(r.buf, 0, tail)
    BY <1>3
  <2>3. \A i \in 1 .. ScrollbackCap : Wrap(i - 1) = i - 1 /\ i - 1 \in Ring!Index
    BY SMT DEF Wrap, Ring!Index
  <2>4. \A i \in 1 .. ScrollbackCap : Ring!Snapshot(w)[i] = tail[i]
    <3> TAKE i \in 1 .. ScrollbackCap
    <3>1. Ring!Snapshot(w)[i] = Ring!Copy(r.buf, 0, tail)[i - 1] /\ i - 1 \in Ring!Index
      BY <2>1, <2>2, <2>3
    <3>2. Ring!Copy(r.buf, 0, tail)[i - 1] = tail[(i - 1) + 1] /\ (i - 1) + 1 = i
      BY <1>4, <3>1
    <3> QED BY <3>1, <3>2
  <2> QED
    BY <1>1, <2>1, <2>2, <2>4
<1>8. /\ Ring!Snapshot(r) \in Seq(Nat)
      /\ Len(Ring!Snapshot(r)) = r.size
  BY SnapshotBytes
<1> DEFINE both == Ring!Snapshot(r) \o p
<1>9. /\ both \in Seq(Nat)
      /\ Len(both) = r.size + Len(p)
      /\ \A i \in 1 .. Len(p) : both[r.size + i] = p[i]
  <2> HIDE DEF w, tail
  <2>1. both \in Seq(Nat) /\ Len(both) = Len(Ring!Snapshot(r)) + Len(p)
    BY <1>8, ConcatProperties
  <2>2. \A i \in 1 .. Len(p) : both[r.size + i] = p[i]
    <3> TAKE i \in 1 .. Len(p)
    <3>1. r.size + i \in 1 .. r.size + Len(p) /\ ~(r.size + i <= r.size) /\ (r.size + i) - r.size = i
      BY <1>2, SMTT(30)
    <3>2. \A q \in 1 .. Len(Ring!Snapshot(r)) + Len(p) :
            both[q] = IF q <= Len(Ring!Snapshot(r)) THEN Ring!Snapshot(r)[q] ELSE p[q - Len(Ring!Snapshot(r))]
      BY <1>8, ConcatProperties
    <3>3. both[r.size + i] = p[(r.size + i) - r.size]
      <4> HIDE DEF both
      <4> QED BY <1>8, <3>1, <3>2
    <3> QED BY <3>1, <3>3
  <2> QED BY <1>8, <2>1, <2>2
<1>10. Ring!Least(Len(both), ScrollbackCap) = ScrollbackCap
  BY <1>2, <1>9, SMT DEF Ring!Least
<1>11. /\ Ring!Newest(both) \in Seq(Nat)
       /\ Len(Ring!Newest(both)) = ScrollbackCap
       /\ \A i \in 1 .. ScrollbackCap : Ring!Newest(both)[i] = both[Len(both) - ScrollbackCap + i]
  BY <1>9, <1>10, NewestBytes
<1>12. ASSUME NEW i \in 1 .. ScrollbackCap
       PROVE  Ring!Newest(both)[i] = p[Len(p) - ScrollbackCap + i]
  <2> DEFINE k == Len(p) - ScrollbackCap + i
  <2>1. k \in 1 .. Len(p) /\ Len(both) - ScrollbackCap + i = r.size + k
    BY <1>2, <1>9, SMT
  <2>2. Ring!Newest(both)[i] = both[Len(both) - ScrollbackCap + i]
    BY <1>11
  <2> HIDE DEF k, both
  <2>3. both[r.size + k] = p[k]
    BY <1>9, <2>1
  <2> QED
    BY <2>1, <2>2, <2>3 DEF k
<1> HIDE DEF w, both
<1>13. Ring!Snapshot(w) = Ring!Newest(both)
  BY <1>7, <1>11, <1>12, SeqEqual
<1> QED
  BY <1>6, <1>13 DEF w, both

(* Where a short write puts its bytes, in indices alone.  A ring of size   *)
(* bytes from start takes len more; m of the old ones make room.  Of the   *)
(* old and new bytes together the q-th (q = m + i) is the i-th byte held   *)
(* then, at index a.  An old one sits where it sat, outside what the two   *)
(* copies overwrote; a new one where one of the copies put it, the second  *)
(* (from the start of the buffer) or the first (from the old end e).       *)
Placed(start, size, len, m, i) ==
  LET e     == Wrap(start + size)
      a     == Wrap(Wrap(start + m) + i - 1)
      q     == m + i
      again == a < len - (ScrollbackCap - e)
      first == e <= a /\ a - e < len
  IN /\ a \in Ring!Index
     /\ q <= size => a = Wrap(start + q - 1) /\ ~again /\ ~first
     /\ ~(q <= size) => IF again THEN ScrollbackCap - e + a + 1 = q - size
                       ELSE first /\ a - e + 1 = q - size

LEMMA Places ==
  ASSUME ScrollbackCap \in Nat \ {0},
         NEW start \in Nat, start < ScrollbackCap,
         NEW size \in Nat, size <= ScrollbackCap,
         NEW len \in Nat, len < ScrollbackCap,
         NEW m \in Nat,
         \/ size + len > ScrollbackCap /\ m = size + len - ScrollbackCap
         \/ size + len <= ScrollbackCap /\ m = 0,
         NEW i \in Nat, 1 <= i, m + i <= size + len
  PROVE  Placed(start, size, len, m, i)
<1> DEFINE e == Wrap(start + size)
           a == Wrap(Wrap(start + m) + i - 1)
           q == m + i
           again == a < len - (ScrollbackCap - e)
           first == e <= a /\ a - e < len
<1>1. e \in Nat /\ e < ScrollbackCap /\ (e = start + size \/ e = start + size - ScrollbackCap)
  BY SMT DEF Wrap
<1>2. a \in Nat /\ a < ScrollbackCap
  BY SMT DEF Wrap
<1>3. \/ a = start + q - 1
      \/ a = start + q - 1 - ScrollbackCap
      \/ a = start + q - 1 - 2 * ScrollbackCap
  BY SMT DEF Wrap
<1>4. a \in Ring!Index
  BY <1>2, SMT DEF Ring!Index
<1>5. q <= size => a = Wrap(start + q - 1)
  BY <1>2, <1>3, SMT DEF Wrap
<1> HIDE DEF a, e
<1>6. q <= size => ~again /\ ~first
  BY <1>1, <1>2, <1>3, SMT
<1>7. ~(q <= size) => IF again THEN ScrollbackCap - e + a + 1 = q - size
                      ELSE first /\ a - e + 1 = q - size
  BY <1>1, <1>2, <1>3, SMT
<1> QED
  BY <1>4, <1>5, <1>6, <1>7 DEF Placed, a, e

(* A short write (the second branch of ring.go's write) keeps the newest   *)
(* bytes in order, whether or not it goes round the end of the buffer.     *)
LEMMA ShortWrite ==
  ASSUME ScrollbackCap \in Nat \ {0}, NEW r \in Ring!Ring, NEW p \in Seq(Nat), Len(p) < ScrollbackCap
  PROVE  /\ Ring!WriteShort(r, p) \in Ring!Ring
         /\ Ring!Snapshot(Ring!WriteShort(r, p)) = Ring!Newest(Ring!Snapshot(r) \o p)
<1> DEFINE w    == Ring!WriteShort(r, p)
           len  == Len(p)
           e    == Wrap(r.start + r.size)
           n    == Ring!Least(ScrollbackCap - e, len)
           over == r.size + len - ScrollbackCap
           m    == IF r.size + len > ScrollbackCap THEN over ELSE 0
           both == Ring!Snapshot(r) \o p
<1>1. /\ r.buf \in [Ring!Index -> Nat]
      /\ r.start \in Nat /\ r.start < ScrollbackCap
      /\ r.size \in Nat /\ r.size <= ScrollbackCap
      /\ len \in Nat /\ len < ScrollbackCap
      /\ p \in [1 .. len -> Nat]
  BY SMTT(30) DEF Ring!Ring, Ring!Index
<1>2. (r.start + r.size) % ScrollbackCap = e /\ e \in Nat /\ e < ScrollbackCap
  <2>1. r.start + r.size \in Nat /\ r.start + r.size < 2 * ScrollbackCap
    BY <1>1, SMT
  <2>2. (r.start + r.size) % ScrollbackCap = e
    BY <2>1, WrapIsMod
  <2>3. e \in Nat /\ e < ScrollbackCap
    BY <2>1, SMT DEF Wrap
  <2> QED
    BY <2>2, <2>3
<1>e. e \in Nat /\ e < ScrollbackCap
  BY <1>2
<1>m. /\ m \in Nat
      /\ \/ r.size + len > ScrollbackCap /\ m = r.size + len - ScrollbackCap
         \/ r.size + len <= ScrollbackCap /\ m = 0
      /\ r.start + m \in Nat /\ r.start + m < 2 * ScrollbackCap
      /\ Wrap(r.start + m) \in Ring!Index
  <2>1. /\ m \in Nat
        /\ \/ r.size + len > ScrollbackCap /\ m = r.size + len - ScrollbackCap
           \/ r.size + len <= ScrollbackCap /\ m = 0
    BY <1>1, SMT
  <2> HIDE DEF m
  <2>2. r.start + m \in Nat /\ r.start + m < 2 * ScrollbackCap
    BY <1>1, <2>1, SMTT(30)
  <2>3. Wrap(r.start + m) \in Ring!Index
    BY <2>2, SMT DEF Wrap, Ring!Index
  <2> QED
    BY <2>1, <2>2, <2>3
<1>3. /\ over > 0 => m = over /\ (r.start + over) % ScrollbackCap = Wrap(r.start + m)
      /\ ~(over > 0) => m = 0 /\ Wrap(r.start + m) = r.start
  <2>1. (r.start + m) % ScrollbackCap = Wrap(r.start + m)
    BY <1>m, WrapIsMod
  <2>2. (over > 0 => m = over) /\ (~(over > 0) => m = 0)
    BY <1>1, SMT
  <2>3. m = 0 => Wrap(r.start + m) = r.start
    BY <1>1, SMT DEF Wrap
  <2> QED
    BY <2>1, <2>2, <2>3
<1> DEFINE buf == Ring!Copy(Ring!Copy(r.buf, e, p), 0, Ring!From(p, n))
<1>4. w = [buf |-> buf, start |-> Wrap(r.start + m), size |-> r.size + len - m]
  <2>1. w = [buf   |-> buf,
             start |-> IF over > 0 THEN (r.start + over) % ScrollbackCap ELSE r.start,
             size  |-> IF over > 0 THEN ScrollbackCap ELSE r.size + len]
    BY <1>2 DEF Ring!WriteShort
  <2>2. (IF over > 0 THEN (r.start + over) % ScrollbackCap ELSE r.start) = Wrap(r.start + m)
    BY <1>3
  <2>3. (IF over > 0 THEN ScrollbackCap ELSE r.size + len) = r.size + len - m
    BY <1>1, <1>m, SMTT(30)
  <2> HIDE DEF w, buf, m, over, len
  <2> QED
    BY <2>1, <2>2, <2>3
<1>5. \A j \in Ring!Index :
        buf[j] = IF j < len - (ScrollbackCap - e) THEN p[ScrollbackCap - e + j + 1]
                 ELSE IF e <= j /\ j - e < len THEN p[j - e + 1] ELSE r.buf[j]
  <2>1. n \in Nat /\ n <= len /\ (n = ScrollbackCap - e \/ (n = len /\ len <= ScrollbackCap - e))
    BY <1>1, <1>e, SMT DEF Ring!Least
  <2> DEFINE rest == Ring!From(p, n)
  <2> HIDE DEF n, e, len
  <2>2. Len(rest) = len - n /\ \A k \in 1 .. len - n : rest[k] = p[n + k]
    <3>1. n \in Nat /\ n <= Len(p) /\ Len(p) = len
      BY <2>1 DEF len
    <3>2. Len(SubSeq(p, n + 1, Len(p))) = Len(p) - n
      BY <3>1, SMT
    <3>3. \A k \in 1 .. Len(p) - n : SubSeq(p, n + 1, Len(p))[k] = p[n + k]
      BY <3>1, SMTT(30)
    <3> QED
      BY <3>1, <3>2, <3>3 DEF Ring!From
  <2>3. ASSUME NEW j \in Ring!Index
        PROVE  Ring!Copy(r.buf, e, p)[j] = IF e <= j /\ j - e < len THEN p[j - e + 1] ELSE r.buf[j]
    BY <1>1, <1>e, SMT DEF Ring!Copy, Ring!Index, len
  <2>4. ASSUME NEW j \in Ring!Index
        PROVE  buf[j] = IF j < len - n THEN rest[j + 1] ELSE Ring!Copy(r.buf, e, p)[j]
    <3> DEFINE first == Ring!Copy(r.buf, e, p)
    <3> HIDE DEF rest, first
    <3>1. buf = Ring!Copy(first, 0, rest)
      BY DEF first, rest
    <3>2. buf[j] = IF j - 0 \in 0 .. Len(rest) - 1 THEN rest[j - 0 + 1] ELSE first[j]
      BY <3>1 DEF Ring!Copy
    <3>3. j - 0 = j /\ (j \in 0 .. Len(rest) - 1) = (j < len - n)
      <4>1. Len(rest) = len - n /\ j \in Nat /\ len \in Nat /\ n \in Nat
        BY <1>1, <2>1, <2>2, SMTT(30) DEF Ring!Index
      <4> QED BY ONLY <4>1
    <3> QED BY <3>2, <3>3 DEF first
  <2>5. ASSUME NEW j \in Ring!Index
        PROVE  /\ (j < len - n) = (j < len - (ScrollbackCap - e))
               /\ j < len - n => rest[j + 1] = p[ScrollbackCap - e + j + 1]
    <3>1. (j < len - n) = (j < len - (ScrollbackCap - e))
      BY <1>1, <1>e, <2>1, SMT DEF Ring!Index
    <3>2. j < len - n => n = ScrollbackCap - e /\ j + 1 \in 1 .. len - n
      BY <1>1, <1>e, <2>1, SMT DEF Ring!Index
    <3>3. j < len - n => rest[j + 1] = p[n + (j + 1)]
      BY <2>2, <3>2
    <3>4. n + (j + 1) = n + j + 1
      BY <2>1, SMT DEF Ring!Index
    <3> HIDE DEF rest
    <3> QED
      BY <3>1, <3>2, <3>3, <3>4
  <2> HIDE DEF buf, rest
  <2> QED
    BY <2>3, <2>4, <2>5
<1> HIDE DEF n, buf, m
<1>6. w \in Ring!Ring
  <2>1. \A j \in Ring!Index : buf[j] \in Nat
    <3> TAKE j \in Ring!Index
    <3>1. /\ j < len - (ScrollbackCap - e) => ScrollbackCap - e + j + 1 \in 1 .. len
          /\ e <= j /\ j - e < len => j - e + 1 \in 1 .. len
      <4>1. len \in Nat
        BY <1>1
      <4> HIDE DEF e, len
      <4> QED
        BY <1>e, <4>1, SMT DEF Ring!Index
    <3> HIDE DEF e, len
    <3> QED
      BY <1>1, <1>5, <3>1
  <2>2. buf = [j \in Ring!Index |-> buf[j]]
    BY DEF buf, Ring!Copy
  <2>3. buf \in [Ring!Index -> Nat]
    BY <2>1, <2>2
  <2>4. r.size + len - m \in 0 .. ScrollbackCap
    <3>1. r.size \in Nat /\ r.size <= ScrollbackCap /\ len \in Nat
      BY <1>1
    <3>2. m \in Nat
      BY <1>m
    <3>3. \/ r.size + len > ScrollbackCap /\ m = r.size + len - ScrollbackCap
          \/ r.size + len <= ScrollbackCap /\ m = 0
      BY <1>m
    <3> HIDE DEF len
    <3> QED
      BY <3>1, <3>2, <3>3, SMT
  <2> HIDE DEF w, m, len
  <2> QED
    BY <1>m, <1>4, <2>3, <2>4 DEF Ring!Ring
<1>7. /\ Ring!Snapshot(r) \in Seq(Nat) /\ Len(Ring!Snapshot(r)) = r.size
      /\ \A i \in 1 .. r.size : Ring!Snapshot(r)[i] = r.buf[Wrap(r.start + i - 1)]
  BY SnapshotBytes
<1>8. /\ both \in Seq(Nat) /\ Len(both) = r.size + len
      /\ \A q \in 1 .. r.size + len :
           both[q] = IF q <= r.size THEN r.buf[Wrap(r.start + q - 1)] ELSE p[q - r.size]
  <2>1. /\ both \in Seq(Nat) /\ Len(both) = r.size + len
        /\ \A q \in 1 .. r.size + len :
             both[q] = IF q <= r.size THEN Ring!Snapshot(r)[q] ELSE p[q - r.size]
    <3>1. /\ both \in Seq(Nat) /\ Len(both) = Len(Ring!Snapshot(r)) + Len(p)
          /\ \A q \in 1 .. Len(Ring!Snapshot(r)) + Len(p) :
               both[q] = IF q <= Len(Ring!Snapshot(r)) THEN Ring!Snapshot(r)[q] ELSE p[q - Len(Ring!Snapshot(r))]
      BY <1>7, ConcatProperties
    <3> HIDE DEF both
    <3> QED BY <1>7, <3>1
  <2>2. \A q \in 1 .. r.size + len : q <= r.size => q \in 1 .. r.size
    BY <1>1, SMT
  <2> HIDE DEF both, len
  <2> QED
    BY <1>7, <2>1, <2>2
<1> DEFINE total == r.size + len - m
<1>n. /\ r.start \in Nat /\ r.start < ScrollbackCap
      /\ r.size \in Nat /\ r.size <= ScrollbackCap
      /\ len \in Nat /\ len < ScrollbackCap
      /\ total \in Nat /\ m + total = r.size + len
  <2>1. m <= r.size + len
    BY <1>1, <1>m, SMT
  <2> HIDE DEF len
  <2> QED
    BY <1>1, <1>m, <2>1, SMTT(30)
<1> DEFINE slot(i) == Wrap(Wrap(r.start + m) + i - 1)
<1>9. /\ Ring!Snapshot(w) \in Seq(Nat) /\ Len(Ring!Snapshot(w)) = r.size + len - m
      /\ \A i \in 1 .. total : Ring!Snapshot(w)[i] = buf[slot(i)]
  <2>1. /\ Ring!Snapshot(w) \in Seq(Nat) /\ Len(Ring!Snapshot(w)) = w.size
        /\ \A i \in 1 .. w.size : Ring!Snapshot(w)[i] = w.buf[Wrap(w.start + i - 1)]
    BY <1>6, SnapshotBytes
  <2>2. w.size = r.size + len - m /\ w.start = Wrap(r.start + m) /\ w.buf = buf
    BY <1>4
  <2> HIDE DEF w, m, len
  <2> QED
    BY <2>1, <2>2
<1>10. /\ Ring!Newest(both) \in Seq(Nat) /\ Len(Ring!Newest(both)) = r.size + len - m
       /\ \A i \in 1 .. total : Ring!Newest(both)[i] = both[m + i]
  <2>1. Ring!Least(Len(both), ScrollbackCap) = r.size + len - m
    <3>1. Len(both) = r.size + len
      BY <1>8
    <3>2. \A a, b, k \in Nat :
            (/\ a + b >= 0
             /\ \/ a + b > ScrollbackCap /\ k = a + b - ScrollbackCap
                \/ a + b <= ScrollbackCap /\ k = 0)
              => Ring!Least(a + b, ScrollbackCap) = a + b - k
      BY SMT DEF Ring!Least
    <3> HIDE DEF both, len
    <3>3. r.size \in Nat /\ len \in Nat /\ r.size + len >= 0
      BY <1>1
    <3>4. m \in Nat
      BY <1>m
    <3>5. \/ r.size + len > ScrollbackCap /\ m = r.size + len - ScrollbackCap
          \/ r.size + len <= ScrollbackCap /\ m = 0
      BY <1>m
    <3>6. Ring!Least(r.size + len, ScrollbackCap) = r.size + len - m
      BY <3>2, <3>3, <3>4, <3>5
    <3> QED
      BY <3>1, <3>6
  <2>2. /\ Ring!Newest(both) \in Seq(Nat)
        /\ Len(Ring!Newest(both)) = Ring!Least(Len(both), ScrollbackCap)
        /\ \A i \in 1 .. Ring!Least(Len(both), ScrollbackCap) :
             Ring!Newest(both)[i] = both[Len(both) - Ring!Least(Len(both), ScrollbackCap) + i]
    BY <1>8, NewestBytes
  <2>3. Len(both) - Ring!Least(Len(both), ScrollbackCap) = m
    <3>1. Len(both) = r.size + len
      BY <1>8
    <3> HIDE DEF both, len
    <3> QED
      BY <1>1, <1>m, <2>1, <3>1, SMT
  <2> HIDE DEF both, m, len
  <2> QED
    BY <2>1, <2>2, <2>3
<1>11. ASSUME NEW i \in 1 .. total
       PROVE  Ring!Snapshot(w)[i] = Ring!Newest(both)[i]
  <2>1. i \in Nat /\ 1 <= i /\ m + i <= r.size + len /\ m + i \in 1 .. r.size + len
    <3> HIDE DEF total, len
    <3> QED
      BY <1>n, <1>m, SMT
  <2> DEFINE q     == m + i
             again == slot(i) < len - (ScrollbackCap - e)
             first == e <= slot(i) /\ slot(i) - e < len
  <2>2. Placed(r.start, r.size, len, m, i)
    <3> HIDE DEF total, len
    <3> QED
      BY <1>n, <1>m, <2>1, Places
  <2>3. /\ slot(i) \in Ring!Index
        /\ q <= r.size => slot(i) = Wrap(r.start + q - 1) /\ ~again /\ ~first
        /\ ~(q <= r.size) => IF again THEN ScrollbackCap - e + slot(i) + 1 = q - r.size
                            ELSE first /\ slot(i) - e + 1 = q - r.size
    BY <2>2 DEF Placed
  <2>4. /\ q \in 1 .. r.size + len
        /\ Ring!Snapshot(w)[i] = buf[slot(i)]
        /\ Ring!Newest(both)[i] = both[q]
    BY <1>9, <1>10, <2>1
  <2> HIDE DEF len, total, slot, e, both, w, q
  <2>5. both[q] = IF q <= r.size THEN r.buf[Wrap(r.start + q - 1)] ELSE p[q - r.size]
    BY <1>8, <2>4
  <2>6. buf[slot(i)] = IF again THEN p[ScrollbackCap - e + slot(i) + 1]
                    ELSE IF first THEN p[slot(i) - e + 1] ELSE r.buf[slot(i)]
    BY <1>5, <2>3
  <2> HIDE DEF again, first
  <2>7. CASE q <= r.size
    BY <2>3, <2>4, <2>5, <2>6, <2>7
  <2>8. CASE ~(q <= r.size)
    BY <2>3, <2>4, <2>5, <2>6, <2>8
  <2> QED
    BY <2>7, <2>8
<1>12. Ring!Snapshot(w) = Ring!Newest(both)
  <2> HIDE DEF w, both, len
  <2> QED
    BY <1>9, <1>10, <1>11, SeqEqual
<1> QED
  BY <1>6, <1>12

(* ring.go, write and snapshot together: whatever the capacity, whatever   *)
(* was written before and however long the write, what is held afterwards  *)
(* is the newest Capacity bytes of everything.  So the replay of a session *)
(* is always the end of its output, without a gap and in order.            *)
THEOREM RingKeepsNewest ==
  ASSUME ScrollbackCap \in Nat \ {0}, NEW r \in Ring!Ring, NEW p \in Seq(Nat)
  PROVE  /\ Ring!Write(r, p) \in Ring!Ring
         /\ Ring!Snapshot(Ring!Write(r, p)) = Ring!Newest(Ring!Snapshot(r) \o p)
<1>1. CASE Len(p) >= ScrollbackCap
  BY <1>1, LongWrite DEF Ring!Write
<1>2. CASE ~(Len(p) >= ScrollbackCap)
  <2>1. Len(p) < ScrollbackCap
    BY <1>2, SMT
  <2> QED
    BY <1>2, <2>1, ShortWrite DEF Ring!Write
<1> QED
  BY <1>1, <1>2

-----------------------------------------------------------------------------
(* The types the proofs of the channels and of the end read.               *)

StateTypes ==
  /\ produced \in Nat /\ pumped \in Nat /\ inHand \in Seq(Nat)
  /\ holder \in BOOLEAN /\ cut \in BOOLEAN
  /\ consumers \subseteq Consumers
  /\ attach \in [Consumers -> {"never", "attached", "detached"}]
  /\ closes \in [Consumers -> Nat]
  /\ exitCh \in [Consumers -> {"open", "status", "closed"}]

LEMMA StateTypesCorrect == Spec => []StateTypes
<1>1. Init => StateTypes
  <2> SUFFICES ASSUME Init PROVE StateTypes
    OBVIOUS
  <2>1. /\ attach \in [Consumers -> {"never", "attached", "detached"}]
        /\ closes \in [Consumers -> Nat]
        /\ exitCh \in [Consumers -> {"open", "status", "closed"}]
    BY DEF Init
  <2>2. produced \in Nat /\ pumped \in Nat /\ inHand \in Seq(Nat) /\ consumers \subseteq Consumers
    BY DEF Init
  <2>3. holder \in BOOLEAN /\ cut \in BOOLEAN
    BY Zenon DEF Init
  <2> QED BY <2>1, <2>2, <2>3 DEF StateTypes
<1>2. StateTypes /\ [Next]_vars => StateTypes'
  <2> SUFFICES ASSUME StateTypes, [Next]_vars PROVE StateTypes'
    OBVIOUS
  <2> USE DEF StateTypes, childVars, runVars, consumerVars
  <2>1. CASE Produce
    BY <2>1 DEF Produce
  <2>2. CASE ChildExits \/ HolderExits \/ Hangup \/ ForceKill \/ KillReturns
    BY <2>2 DEF ChildExits, HolderExits, Hangup, ForceKill, KillReturns
  <2>3. ASSUME NEW k \in 1 .. ReadChunk, Read(k) PROVE StateTypes'
    <3>1. inHand' \in Seq(Nat)
      BY <2>3, PtySessionAssumption DEF Read, Bytes
    <3> QED BY <2>3, <3>1 DEF Read
  <2>4. CASE Broadcast
    BY <2>4 DEF Broadcast
  <2>5. CASE EndOfFile \/ Reap
    BY <2>5 DEF EndOfFile, Reap
  <2>6. CASE Drained \/ DrainTimeout
    BY <2>6 DEF Drained, DrainTimeout, CloseMaster
  <2>7. CASE Finish
    BY <2>7 DEF Finish
  <2>8. ASSUME NEW c \in Consumers, Attach(c) PROVE StateTypes'
    <3>1. attach' \in [Consumers -> {"never", "attached", "detached"}]
      BY <2>8 DEF Attach
    <3>2. closes' \in [Consumers -> Nat] /\ exitCh' \in [Consumers -> {"open", "status", "closed"}]
      <4>1. \/ closes' = [closes EXCEPT ![c] = @ + 1] /\ exitCh' = [exitCh EXCEPT ![c] = "status"]
            \/ closes' = closes /\ exitCh' = exitCh
        BY <2>8, Zenon DEF Attach
      <4>2. [closes EXCEPT ![c] = @ + 1] \in [Consumers -> Nat]
        OBVIOUS
      <4>3. \A s \in {"open", "status", "closed"} :
              [exitCh EXCEPT ![c] = s] \in [Consumers -> {"open", "status", "closed"}]
        OBVIOUS
      <4> QED BY <4>1, <4>2, <4>3
    <3>3. consumers' \subseteq Consumers
      BY <2>8 DEF Attach
    <3>4. UNCHANGED <<childVars, runVars>>
      <4> HIDE DEF childVars, runVars
      <4> QED BY <2>8, Zenon DEF Attach
    <3> QED BY <3>1, <3>2, <3>3, <3>4
  <2>9. ASSUME NEW c \in Consumers, Detach(c) PROVE StateTypes'
    <3>1. attach' \in [Consumers -> {"never", "attached", "detached"}]
      BY <2>9 DEF Detach
    <3>2. closes' \in [Consumers -> Nat] /\ exitCh' \in [Consumers -> {"open", "status", "closed"}]
      <4>1. \/ closes' = [closes EXCEPT ![c] = @ + 1] /\ exitCh' = [exitCh EXCEPT ![c] = "closed"]
            \/ closes' = closes /\ exitCh' = exitCh
        BY <2>9, Zenon DEF Detach
      <4>2. [closes EXCEPT ![c] = @ + 1] \in [Consumers -> Nat]
        OBVIOUS
      <4>3. \A s \in {"open", "status", "closed"} :
              [exitCh EXCEPT ![c] = s] \in [Consumers -> {"open", "status", "closed"}]
        OBVIOUS
      <4> QED BY <4>1, <4>2, <4>3
    <3>3. consumers' \subseteq Consumers
      BY <2>9 DEF Detach
    <3>4. UNCHANGED <<childVars, runVars>>
      <4> HIDE DEF childVars, runVars
      <4> QED BY <2>9, Zenon DEF Detach
    <3> QED BY <3>1, <3>2, <3>3, <3>4
  <2>10. ASSUME NEW c \in Consumers, Receive(c) PROVE StateTypes'
    BY <2>10 DEF Receive
  <2>11. CASE UNCHANGED vars
    BY <2>11 DEF vars
  <2> QED BY <2>1, <2>2, <2>3, <2>4, <2>5, <2>6, <2>7, <2>8, <2>9, <2>10, <2>11
             DEF Next, SystemStep, ReadSome
<1> QED BY <1>1, <1>2, PTL DEF Spec

-----------------------------------------------------------------------------
(* ClosedOnce, strengthened: where each consumer is in its life says       *)
(* whether it is registered and what has been done to its channels.        *)

Untouched(c) == closes[c] = 0 /\ exitCh[c] = "open"

Lives ==
  /\ run = "done" => consumers = {}
  /\ \A c \in Consumers :
       \/ attach[c] = "never" /\ c \notin consumers /\ Untouched(c)
       \/ attach[c] = "attached" /\ c \in consumers /\ Untouched(c)
       \/ attach[c] = "attached" /\ c \notin consumers /\ closes[c] = 1 /\ exitCh[c] = "status"
       \/ attach[c] = "detached" /\ c \notin consumers /\ closes[c] = 1 /\ exitCh[c] # "open"
  /\ \A c \in Consumers : exitCh[c] = "status" => run = "done"

LEMMA LivesCorrect == Spec => []Lives
<1>1. Init => Lives
  BY DEF Init, Lives, Untouched
<1>2. StateTypes /\ Lives /\ [Next]_vars => Lives'
  <2> SUFFICES ASSUME StateTypes, Lives, [Next]_vars PROVE Lives'
    OBVIOUS
  <2> USE DEF StateTypes, Lives, Untouched, childVars, runVars, consumerVars
  <2>1. CASE Finish
    BY <2>1 DEF Finish
  <2>2. ASSUME NEW c \in Consumers, Attach(c) PROVE Lives'
    BY <2>2 DEF Attach
  <2>3. ASSUME NEW c \in Consumers, Detach(c) PROVE Lives'
    BY <2>3 DEF Detach
  <2>4. ASSUME NEW c \in Consumers, Receive(c) PROVE Lives'
    BY <2>4 DEF Receive
  <2>5. CASE Produce \/ ChildExits \/ HolderExits \/ Hangup \/ ForceKill \/ KillReturns
    BY <2>5 DEF Produce, ChildExits, HolderExits, Hangup, ForceKill, KillReturns
  <2>6. CASE ReadSome \/ Broadcast \/ EndOfFile
    BY <2>6 DEF ReadSome, Read, Broadcast, EndOfFile
  <2>7. CASE Reap \/ Drained \/ DrainTimeout
    BY <2>7 DEF Reap, Drained, DrainTimeout, CloseMaster
  <2>8. CASE UNCHANGED vars
    BY <2>8 DEF vars
  <2> QED BY <2>1, <2>2, <2>3, <2>4, <2>5, <2>6, <2>7, <2>8 DEF Next, SystemStep
<1> QED BY <1>1, <1>2, StateTypesCorrect, PTL DEF Spec

(* No interleaving of finish, detach and late attaches closes a channel    *)
(* twice, and none leaves an attached consumer without the exit status     *)
(* (session.go: finish, attach and detach under s.mu).                     *)
THEOREM NeverClosedTwice == Spec => []ClosedOnce
<1>1. StateTypes /\ Lives => ClosedOnce
  BY DEF StateTypes, Lives, Untouched, ClosedOnce
<1> QED BY <1>1, StateTypesCorrect, LivesCorrect, PTL

-----------------------------------------------------------------------------
(* LastScreenfulFirst, strengthened: unless run cut the pump off, a pump   *)
(* that is drained has seen the end of the terminal, and nobody is left to *)
(* write to it.                                                            *)

AllRead == child # "running" /\ ~holder /\ pumped = produced

Draining ==
  /\ run \in {"wait", "grace", "draining", "done"}
  /\ run \in {"wait", "grace"} => master = "open" /\ ~cut
  /\ run \in {"draining", "done"} /\ ~cut => reader = "drained"
  /\ run = "done" => reader = "drained"
  /\ reader = "drained" => inHand = <<>> /\ (cut \/ AllRead)

(* Whatever the child, its descendants and the timer do, the status is     *)
(* published behind the last output (session.go: run, pump and finish).    *)
THEOREM StatusIsLast == Spec => []LastScreenfulFirst
<1>1. Init => Draining
  BY DEF Init, Draining
<1>2. StateTypes /\ Draining /\ [Next]_vars => Draining'
  <2> SUFFICES ASSUME StateTypes, Draining, [Next]_vars PROVE Draining'
    OBVIOUS
  <2> USE DEF StateTypes, Draining, AllRead, childVars, runVars, consumerVars
  <2>1. CASE Produce
    BY <2>1 DEF Produce
  <2>2. CASE ChildExits \/ HolderExits
    BY <2>2 DEF ChildExits, HolderExits
  <2>3. CASE Hangup \/ ForceKill \/ KillReturns
    BY <2>3 DEF Hangup, ForceKill, KillReturns
  <2>4. CASE ReadSome
    BY <2>4 DEF ReadSome, Read
  <2>5. CASE Broadcast
    BY <2>5 DEF Broadcast
  <2>6. CASE EndOfFile
    BY <2>6 DEF EndOfFile
  <2>7. CASE Reap
    BY <2>7 DEF Reap
  <2>8. CASE Drained \/ DrainTimeout
    BY <2>8 DEF Drained, DrainTimeout, CloseMaster
  <2>9. CASE Finish
    BY <2>9 DEF Finish
  <2>10. ASSUME NEW c \in Consumers, Attach(c) \/ Detach(c) \/ Receive(c) PROVE Draining'
    <3>1. UNCHANGED <<childVars, runVars>>
      BY <2>10, Zenon DEF Attach, Detach, Receive
    <3> QED BY <3>1
  <2>11. CASE UNCHANGED vars
    BY <2>11 DEF vars
  <2> QED BY <2>1, <2>2, <2>3, <2>4, <2>5, <2>6, <2>7, <2>8, <2>9, <2>10, <2>11 DEF Next, SystemStep
<1>3. Draining => LastScreenfulFirst
  BY DEF Draining, AllRead, LastScreenfulFirst
<1> QED BY <1>1, <1>2, <1>3, StateTypesCorrect, PTL DEF Spec

-----------------------------------------------------------------------------
(* The other types.                                                        *)

Rest ==
  /\ child \in {"running", "exited", "reaped"}
  /\ master \in {"open", "closed"}
  /\ run \in {"wait", "grace", "draining", "done"}
  /\ reader \in {"reading", "drained"}
  /\ kill \in {"none", "grace", "forced", "returned"}
  /\ scrollback \in Ring!Ring
  /\ replay \in [Consumers -> Seq(Nat)]
  /\ chunks \in [Consumers -> Seq(Seq(Nat))]
  /\ got \in [Consumers -> Seq(Nat)]
  /\ lost \in [Consumers -> SUBSET Nat]
  /\ Len(inHand) <= ReadChunk
  /\ \A c \in Consumers : Len(chunks[c]) <= ConsumerQueue

LEMMA BytesType ==
  ASSUME NEW n \in Nat, NEW k \in Nat
  PROVE  /\ Bytes(n, k) \in Seq(Nat) /\ Len(Bytes(n, k)) = k
         /\ DOMAIN Bytes(n, k) = 1 .. k
         /\ \A i \in 1 .. k : Bytes(n, k)[i] = n + i
BY DEF Bytes

LEMMA EmptyRing ==
  /\ Ring!NewRing(0) \in Ring!Ring
  /\ Ring!Snapshot(Ring!NewRing(0)) = <<>>
<1>1. Ring!NewRing(0) \in Ring!Ring /\ Ring!NewRing(0).size = 0
  BY PtySessionAssumption, SMT DEF Ring!NewRing, Ring!Ring, Ring!Index
<1>2. Ring!Snapshot(Ring!NewRing(0)) \in Seq(Nat) /\ Len(Ring!Snapshot(Ring!NewRing(0))) = 0
  BY <1>1, SnapshotBytes, PtySessionAssumption
<1> QED BY <1>1, <1>2

(* A broadcast touches the queues that have room.                          *)
LEMMA BroadcastQueues ==
  ASSUME Rest, inHand \in Seq(Nat), consumers \subseteq Consumers, Broadcast
  PROVE  /\ chunks' \in [Consumers -> Seq(Seq(Nat))] /\ lost' \in [Consumers -> SUBSET Nat]
         /\ \A c \in Consumers :
              /\ Len(chunks'[c]) <= ConsumerQueue
              /\ \/ c \in consumers /\ chunks'[c] = Append(chunks[c], inHand) /\ lost'[c] = lost[c]
                 \/ c \in consumers /\ chunks'[c] = chunks[c] /\ lost'[c] = lost[c] \cup ToSet(inHand)
                 \/ c \notin consumers /\ chunks'[c] = chunks[c] /\ lost'[c] = lost[c]
<1> DEFINE full == {c \in consumers : Len(chunks[c]) >= ConsumerQueue}
<1>1. /\ chunks' = [c \in Consumers |->
                      IF c \in consumers \ full THEN Append(chunks[c], inHand) ELSE chunks[c]]
      /\ lost' = [c \in Consumers |->
                    IF c \in full THEN lost[c] \cup ToSet(inHand) ELSE lost[c]]
  BY DEF Broadcast
<1>2. ToSet(inHand) \in SUBSET Nat
  BY DEF ToSet
<1>3. ASSUME NEW c \in Consumers
      PROVE  /\ Append(chunks[c], inHand) \in Seq(Seq(Nat))
             /\ Len(Append(chunks[c], inHand)) = Len(chunks[c]) + 1
             /\ Len(chunks[c]) \in Nat /\ Len(chunks[c]) <= ConsumerQueue
             /\ chunks[c] \in Seq(Seq(Nat)) /\ lost[c] \in SUBSET Nat
  BY DEF Rest
<1>4. ASSUME NEW c \in Consumers
      PROVE  /\ chunks'[c] \in Seq(Seq(Nat)) /\ lost'[c] \in SUBSET Nat
             /\ Len(chunks'[c]) <= ConsumerQueue
             /\ \/ c \in consumers /\ chunks'[c] = Append(chunks[c], inHand) /\ lost'[c] = lost[c]
                \/ c \in consumers /\ chunks'[c] = chunks[c] /\ lost'[c] = lost[c] \cup ToSet(inHand)
                \/ c \notin consumers /\ chunks'[c] = chunks[c] /\ lost'[c] = lost[c]
  <2>1. CASE c \in consumers \ full
    <3>1. Len(chunks[c]) + 1 <= ConsumerQueue
      BY <1>3, <2>1, PtySessionAssumption
    <3>2. chunks'[c] = Append(chunks[c], inHand) /\ lost'[c] = lost[c]
      BY <1>1, <2>1
    <3> QED BY <1>3, <2>1, <3>1, <3>2
  <2>2. CASE c \in full
    <3>1. chunks'[c] = chunks[c] /\ lost'[c] = lost[c] \cup ToSet(inHand)
      BY <1>1, <2>2
    <3> QED BY <1>2, <1>3, <2>2, <3>1
  <2>3. CASE c \notin consumers
    <3>1. chunks'[c] = chunks[c] /\ lost'[c] = lost[c]
      BY <1>1, <2>3
    <3> QED BY <1>3, <2>3, <3>1
  <2> QED BY <2>1, <2>2, <2>3
<1>5. chunks' \in [Consumers -> Seq(Seq(Nat))] /\ lost' \in [Consumers -> SUBSET Nat]
  <2> HIDE DEF full
  <2>1. chunks' = [c \in Consumers |-> chunks'[c]] /\ lost' = [c \in Consumers |-> lost'[c]]
    BY <1>1
  <2> QED BY <1>4, <2>1
<1> QED BY <1>4, <1>5

LEMMA RestCorrect == Spec => []Rest
<1>1. Init => Rest
  <2> SUFFICES ASSUME Init PROVE Rest
    OBVIOUS
  <2>1. /\ replay \in [Consumers -> Seq(Nat)] /\ chunks \in [Consumers -> Seq(Seq(Nat))]
        /\ got \in [Consumers -> Seq(Nat)] /\ lost \in [Consumers -> SUBSET Nat]
    BY DEF Init
  <2>2. Len(inHand) <= ReadChunk /\ \A c \in Consumers : Len(chunks[c]) <= ConsumerQueue
    BY PtySessionAssumption DEF Init
  <2> QED BY <2>1, <2>2, EmptyRing DEF Init, Rest
<1>2. StateTypes /\ Rest /\ [Next]_vars => Rest'
  <2> SUFFICES ASSUME StateTypes, Rest, [Next]_vars PROVE Rest'
    OBVIOUS
  <2> USE DEF Rest, childVars, runVars, consumerVars
  <2>1. CASE Produce \/ ChildExits \/ HolderExits \/ Hangup \/ ForceKill \/ KillReturns
    BY <2>1 DEF Produce, ChildExits, HolderExits, Hangup, ForceKill, KillReturns
  <2>2. ASSUME NEW k \in 1 .. ReadChunk, Read(k) PROVE Rest'
    <3>1. Len(inHand') <= ReadChunk
      <4>1. inHand' = Bytes(pumped, k) /\ k \in Nat /\ k <= ReadChunk
        BY <2>2, PtySessionAssumption DEF Read
      <4> QED BY <4>1, BytesType DEF StateTypes
    <3> QED BY <2>2, <3>1 DEF Read
  <2>3. CASE Broadcast
    <3>1. /\ chunks' \in [Consumers -> Seq(Seq(Nat))] /\ lost' \in [Consumers -> SUBSET Nat]
          /\ \A c \in Consumers : Len(chunks'[c]) <= ConsumerQueue
      BY <2>3, BroadcastQueues DEF StateTypes
    <3>2. Ring!Write(scrollback, inHand) \in Ring!Ring
      BY RingKeepsNewest, PtySessionAssumption DEF StateTypes
    <3>3. Len(inHand') <= ReadChunk
      BY <2>3, PtySessionAssumption DEF Broadcast
    <3> QED BY <2>3, <3>1, <3>2, <3>3 DEF Broadcast
  <2>4. CASE EndOfFile \/ Reap \/ Drained \/ DrainTimeout \/ Finish
    BY <2>4 DEF EndOfFile, Reap, Drained, DrainTimeout, CloseMaster, Finish
  <2>5. ASSUME NEW c \in Consumers, Attach(c) PROVE Rest'
    <3>1. Ring!Snapshot(scrollback) \in Seq(Nat)
      BY SnapshotBytes, PtySessionAssumption
    <3>2. replay' \in [Consumers -> Seq(Nat)]
      BY <2>5, <3>1 DEF Attach
    <3>3. UNCHANGED <<childVars, runVars, kill, chunks, got, lost>>
      BY <2>5 DEF Attach
    <3> QED BY <3>2, <3>3
  <2>6. ASSUME NEW c \in Consumers, Detach(c) PROVE Rest'
    <3>1. UNCHANGED <<childVars, runVars, kill, replay, chunks, got, lost>>
      BY <2>6 DEF Detach
    <3> QED BY <3>1
  <2>7. ASSUME NEW c \in Consumers, Receive(c) PROVE Rest'
    <3>1. /\ Head(chunks[c]) \in Seq(Nat) /\ Tail(chunks[c]) \in Seq(Seq(Nat))
          /\ Len(Tail(chunks[c])) <= ConsumerQueue
      <4>1. chunks[c] \in Seq(Seq(Nat)) /\ chunks[c] # <<>> /\ Len(chunks[c]) <= ConsumerQueue
        BY <2>7 DEF Receive
      <4>2. Len(Tail(chunks[c])) = Len(chunks[c]) - 1 /\ Len(chunks[c]) \in Nat
        BY <4>1
      <4> QED BY <4>1, <4>2, PtySessionAssumption
    <3>2. got[c] \o Head(chunks[c]) \in Seq(Nat)
      BY <3>1
    <3>3. got' \in [Consumers -> Seq(Nat)]
      BY <2>7, <3>2 DEF Receive
    <3>4. chunks' = [chunks EXCEPT ![c] = Tail(chunks[c])]
      BY <2>7 DEF Receive
    <3>5. chunks' \in [Consumers -> Seq(Seq(Nat))] /\ \A d \in Consumers : Len(chunks'[d]) <= ConsumerQueue
      BY <3>1, <3>4
    <3>6. UNCHANGED <<childVars, runVars, kill, replay, lost>>
      BY <2>7 DEF Receive
    <3> QED BY <3>3, <3>5, <3>6
  <2>8. CASE UNCHANGED vars
    BY <2>8 DEF vars
  <2> QED BY <2>1, <2>2, <2>3, <2>4, <2>5, <2>6, <2>7, <2>8 DEF Next, SystemStep, ReadSome
<1> QED BY <1>1, <1>2, StateTypesCorrect, PTL DEF Spec

(* Every reachable state is well typed: no queue, chunk or ring outgrows   *)
(* its capacity.                                                           *)
THEOREM TypesCorrect == Spec => []TypeOK
<1>1. StateTypes /\ Rest => TypeOK
  BY DEF StateTypes, Rest, TypeOK
<1> QED BY <1>1, StateTypesCorrect, RestCorrect, PTL

-----------------------------------------------------------------------------
(* SeamlessAttach.  What the lock of broadcast and attach protects is that *)
(* the ring always ends where the chunks of the consumers registered in    *)
(* the same critical section begin.                                        *)

LEMMA ToSetAppend ==
  ASSUME NEW S, NEW q \in Seq(S), NEW x \in S
  PROVE  ToSet(Append(q, x)) = ToSet(q) \cup {x}
<1>1. /\ DOMAIN Append(q, x) = 1 .. Len(q) + 1
      /\ DOMAIN q = 1 .. Len(q)
      /\ Len(q) \in Nat
      /\ \A i \in 1 .. Len(q) : Append(q, x)[i] = q[i]
      /\ Append(q, x)[Len(q) + 1] = x
  OBVIOUS
<1> QED BY <1>1 DEF ToSet

(* Reading on: what follows a piece can be joined to it.                   *)
LEMMA Joined ==
  ASSUME NEW p \in Seq(Nat), NEW q \in Seq(Nat)
  PROVE  /\ p \o q \in Seq(Nat)
         /\ ToSet(p \o q) = ToSet(p) \cup ToSet(q)
         /\ Ascending(p) /\ Ascending(q) /\ Before(p, q) => Ascending(p \o q)
<1>1. /\ p \o q \in Seq(Nat) /\ DOMAIN (p \o q) = 1 .. Len(p) + Len(q)
      /\ DOMAIN p = 1 .. Len(p) /\ DOMAIN q = 1 .. Len(q) /\ Len(p) \in Nat /\ Len(q) \in Nat
  BY LenProperties, ConcatProperties
<1>2. \A i \in 1 .. Len(p) : (p \o q)[i] = p[i]
  BY <1>1, ConcatProperties
<1>3. \A i \in 1 .. Len(q) : (p \o q)[Len(p) + i] = q[i]
  <2> TAKE i \in 1 .. Len(q)
  <2>1. Len(p) + i \in 1 .. Len(p) + Len(q) /\ ~(Len(p) + i <= Len(p)) /\ (Len(p) + i) - Len(p) = i
    BY <1>1
  <2> QED BY <2>1, ConcatProperties
<1>4. \A i \in 1 .. Len(p) + Len(q) :
        \/ i \in 1 .. Len(p)
        \/ \E j \in 1 .. Len(q) : i = Len(p) + j
  <2> TAKE i \in 1 .. Len(p) + Len(q)
  <2>1. i \in 1 .. Len(p) \/ (i - Len(p) \in 1 .. Len(q) /\ i = Len(p) + (i - Len(p)))
    BY <1>1
  <2> QED BY <2>1
<1> DEFINE r == p \o q
<1>5. /\ \A i \in 1 .. Len(p) : i \in DOMAIN r /\ r[i] = p[i]
      /\ \A i \in 1 .. Len(q) : Len(p) + i \in DOMAIN r /\ r[Len(p) + i] = q[i]
  <2>1. \A i \in 1 .. Len(p) : i \in 1 .. Len(p) + Len(q)
    BY <1>1
  <2>2. \A i \in 1 .. Len(q) : Len(p) + i \in 1 .. Len(p) + Len(q)
    BY <1>1
  <2> QED BY <1>1, <1>2, <1>3, <2>1, <2>2
<1>6. DOMAIN r = 1 .. Len(p) + Len(q)
  BY <1>1
<1> HIDE DEF r
<1>7. ToSet(r) = ToSet(p) \cup ToSet(q)
  <2>1. ASSUME NEW x \in ToSet(r) PROVE x \in ToSet(p) \cup ToSet(q)
    <3>1. PICK i \in DOMAIN r : x = r[i]
      BY <2>1 DEF ToSet
    <3>2. CASE i \in 1 .. Len(p)
      <4>1. x = p[i] /\ i \in DOMAIN p
        BY <1>1, <1>5, <3>1, <3>2
      <4> QED BY <4>1 DEF ToSet
    <3>3. CASE i \notin 1 .. Len(p)
      <4>1. PICK j \in 1 .. Len(q) : i = Len(p) + j
        BY <1>4, <1>6, <3>1, <3>3
      <4>2. x = q[j] /\ j \in DOMAIN q
        BY <1>1, <1>5, <3>1, <4>1
      <4> QED BY <4>2 DEF ToSet
    <3> QED BY <3>2, <3>3
  <2>2. ASSUME NEW x \in ToSet(p) PROVE x \in ToSet(r)
    <3>1. PICK i \in 1 .. Len(p) : x = p[i]
      BY <1>1, <2>2 DEF ToSet
    <3> QED BY <1>5, <3>1 DEF ToSet
  <2>3. ASSUME NEW x \in ToSet(q) PROVE x \in ToSet(r)
    <3>1. PICK i \in 1 .. Len(q) : x = q[i]
      BY <1>1, <2>3 DEF ToSet
    <3> QED BY <1>5, <3>1 DEF ToSet
  <2> QED BY <2>1, <2>2, <2>3
<1>8. ASSUME Ascending(p), Ascending(q), Before(p, q) PROVE Ascending(r)
  <2> SUFFICES ASSUME NEW i \in 1 .. Len(p) + Len(q), NEW j \in 1 .. Len(p) + Len(q), i < j
               PROVE  r[i] < r[j]
    BY <1>6 DEF Ascending
  <2>1. CASE i \in 1 .. Len(p) /\ j \in 1 .. Len(p)
    BY <1>1, <1>5, <1>8, <2>1 DEF Ascending
  <2>2. CASE i \in 1 .. Len(p) /\ j \notin 1 .. Len(p)
    <3>1. PICK l \in 1 .. Len(q) : j = Len(p) + l
      BY <1>4, <2>2
    <3>2. r[i] \in ToSet(p) /\ r[j] \in ToSet(q)
      BY <1>1, <1>5, <2>2, <3>1 DEF ToSet
    <3> QED BY <1>8, <3>2 DEF Before
  <2>3. CASE i \notin 1 .. Len(p)
    <3>1. PICK k \in 1 .. Len(q) : i = Len(p) + k
      BY <1>4, <2>3
    <3>2. j \notin 1 .. Len(p)
      BY <1>1, <3>1
    <3>3. PICK l \in 1 .. Len(q) : j = Len(p) + l
      BY <1>4, <3>2
    <3>4. k < l
      BY <1>1, <3>1, <3>3
    <3>5. r[i] = q[k] /\ r[j] = q[l]
      BY <1>5, <3>1, <3>3
    <3> QED BY <1>1, <1>8, <3>4, <3>5 DEF Ascending
  <2> QED BY <2>1, <2>2, <2>3
<1> QED BY <1>1, <1>7, <1>8 DEF r

(* Taking the first of a queue of pieces.                                  *)
LEMMA HeadAndTail ==
  ASSUME NEW S, NEW q \in Seq(S), q # <<>>
  PROVE  /\ Head(q) \in S /\ Tail(q) \in Seq(S) /\ DOMAIN q = 1 .. Len(q)
         /\ 1 \in DOMAIN q /\ Head(q) = q[1]
         /\ DOMAIN Tail(q) = 1 .. Len(q) - 1
         /\ \A i \in DOMAIN Tail(q) : i \in Nat /\ i + 1 \in DOMAIN q /\ 1 < i + 1 /\ Tail(q)[i] = q[i + 1]
         /\ ToSet(q) = {Head(q)} \cup ToSet(Tail(q))
<1>1. /\ DOMAIN Tail(q) = 1 .. Len(q) - 1
      /\ DOMAIN q = 1 .. Len(q)
      /\ Len(q) \in Nat \ {0}
      /\ \A i \in 1 .. Len(q) - 1 : Tail(q)[i] = q[i + 1]
      /\ Head(q) = q[1] /\ Tail(q) \in Seq(S)
  OBVIOUS
<1>2. Head(q) \in S /\ 1 \in DOMAIN q
  BY <1>1
<1>3. \A i \in 1 .. Len(q) - 1 : i \in Nat /\ i + 1 \in 1 .. Len(q) /\ 1 < i + 1
  BY <1>1
<1>4. ASSUME NEW x \in ToSet(q) PROVE x \in {Head(q)} \cup ToSet(Tail(q))
  <2>1. PICK i \in 1 .. Len(q) : x = q[i]
    BY <1>1, <1>4 DEF ToSet
  <2>2. CASE i = 1
    BY <1>1, <2>1, <2>2
  <2>3. CASE i # 1
    <3>1. i - 1 \in 1 .. Len(q) - 1 /\ (i - 1) + 1 = i
      BY <1>1, <2>3
    <3>2. Tail(q)[i - 1] = q[i]
      BY <1>1, <3>1
    <3> QED BY <1>1, <2>1, <3>1, <3>2 DEF ToSet
  <2> QED BY <2>2, <2>3
<1>5. ASSUME NEW x \in ToSet(Tail(q)) PROVE x \in ToSet(q)
  <2>1. PICK i \in 1 .. Len(q) - 1 : x = Tail(q)[i]
    BY <1>1, <1>5 DEF ToSet
  <2> QED BY <1>1, <1>3, <2>1 DEF ToSet
<1>6. Head(q) \in ToSet(q)
  BY <1>1, <1>2 DEF ToSet
<1> QED BY <1>1, <1>2, <1>3, <1>4, <1>5, <1>6

Waiting(q) == UNION {ToSet(piece) : piece \in ToSet(q)}

LEMMA PieceWaits ==
  ASSUME NEW q, NEW i \in DOMAIN q
  PROVE  ToSet(q[i]) \subseteq Waiting(q)
<1>1. q[i] \in ToSet(q)
  BY DEF ToSet
<1> QED BY <1>1 DEF Waiting

(* The view, with its first two pieces apart from the queue.               *)
InOrder(a, b, q) ==
  /\ Ascending(a) /\ Ascending(b) /\ \A i \in DOMAIN q : Ascending(q[i])
  /\ Before(a, b)
  /\ \A m \in ToSet(a) \cup ToSet(b), n \in Waiting(q) : m < n
  /\ \A i, j \in DOMAIN q : i < j => Before(q[i], q[j])

LEMMA PiecesInOrder ==
  ASSUME NEW a \in Seq(Nat), NEW b \in Seq(Nat), NEW q \in Seq(Seq(Nat))
  PROVE  /\ InOrder(a, b, q) => InSequence(<<a, b>> \o q)
         /\ Waiting(<<a, b>> \o q) = ToSet(a) \cup ToSet(b) \cup Waiting(q)
<1> DEFINE v == <<a, b>> \o q
<1>1. /\ <<a, b>> \in Seq(Seq(Nat)) /\ Len(<<a, b>>) = 2 /\ <<a, b>>[1] = a /\ <<a, b>>[2] = b
      /\ Len(q) \in Nat /\ DOMAIN q = 1 .. Len(q)
  OBVIOUS
<1>2. v \in Seq(Seq(Nat)) /\ Len(v) = Len(q) + 2 /\ DOMAIN v = 1 .. Len(q) + 2
  BY <1>1, ConcatProperties, LenProperties
<1>3. v[1] = a /\ v[2] = b
  BY <1>1, ConcatProperties
<1>4. \A i \in 1 .. Len(q) : i + 2 \in DOMAIN v /\ v[i + 2] = q[i]
  <2> TAKE i \in 1 .. Len(q)
  <2>1. i + 2 \in 1 .. 2 + Len(q) /\ ~(i + 2 <= 2) /\ (i + 2) - 2 = i
    BY <1>1
  <2>2. v[i + 2] = q[i]
    BY <1>1, <2>1, ConcatProperties
  <2> QED BY <1>1, <1>2, <2>1, <2>2
<1>5. \A i \in DOMAIN v : i = 1 \/ i = 2 \/ \E k \in 1 .. Len(q) : i = k + 2
  <2> TAKE i \in DOMAIN v
  <2>1. i = 1 \/ i = 2 \/ (i - 2 \in 1 .. Len(q) /\ i = (i - 2) + 2)
    BY <1>1, <1>2
  <2> QED BY <2>1
<1>6. 1 \in DOMAIN v /\ 2 \in DOMAIN v /\ \A i \in DOMAIN v : i \in Nat /\ 1 <= i
  BY <1>1, <1>2
<1> HIDE DEF v
<1>7. ToSet(v) = {a, b} \cup ToSet(q)
  <2>1. ASSUME NEW x \in ToSet(v) PROVE x \in {a, b} \cup ToSet(q)
    <3>1. PICK i \in DOMAIN v : x = v[i]
      BY <2>1 DEF ToSet
    <3>2. CASE i = 1 \/ i = 2
      BY <1>3, <3>1, <3>2
    <3>3. CASE ~(i = 1 \/ i = 2)
      <4>1. PICK k \in 1 .. Len(q) : i = k + 2
        BY <1>5, <3>1, <3>3
      <4>2. x = q[k] /\ k \in DOMAIN q
        BY <1>1, <1>4, <3>1, <4>1
      <4> QED BY <4>2 DEF ToSet
    <3> QED BY <3>2, <3>3
  <2>2. ASSUME NEW x \in ToSet(q) PROVE x \in ToSet(v)
    <3>1. PICK i \in 1 .. Len(q) : x = q[i]
      BY <1>1, <2>2 DEF ToSet
    <3> QED BY <1>4, <3>1 DEF ToSet
  <2>3. a \in ToSet(v) /\ b \in ToSet(v)
    BY <1>3, <1>6 DEF ToSet
  <2> QED BY <2>1, <2>2, <2>3
<1>8. Waiting(v) = ToSet(a) \cup ToSet(b) \cup Waiting(q)
  BY <1>7 DEF Waiting
<1>9. ASSUME InOrder(a, b, q) PROVE InSequence(v)
  <2>1. \A k \in 1 .. Len(q) : ToSet(q[k]) \subseteq Waiting(q)
    BY <1>1, PieceWaits
  <2>2. ASSUME NEW i \in DOMAIN v PROVE Ascending(v[i])
    <3>1. CASE i = 1 \/ i = 2
      BY <1>3, <1>9, <3>1 DEF InOrder
    <3>2. CASE ~(i = 1 \/ i = 2)
      <4>1. PICK k \in 1 .. Len(q) : i = k + 2
        BY <1>5, <3>2
      <4>2. v[i] = q[k] /\ k \in DOMAIN q
        BY <1>1, <1>4, <4>1
      <4> QED BY <1>9, <4>2 DEF InOrder
    <3> QED BY <3>1, <3>2
  <2>3. ASSUME NEW i \in DOMAIN v, NEW j \in DOMAIN v, i < j PROVE Before(v[i], v[j])
    <3>1. CASE j = 2
      <4>1. i = 1
        BY <1>6, <2>3, <3>1
      <4> QED BY <1>3, <1>9, <3>1, <4>1 DEF InOrder
    <3>2. CASE j # 2
      <4>1. PICK l \in 1 .. Len(q) : j = l + 2
        BY <1>5, <1>6, <2>3, <3>2
      <4>2. v[j] = q[l] /\ ToSet(q[l]) \subseteq Waiting(q)
        BY <1>4, <2>1, <4>1
      <4>3. CASE i = 1 \/ i = 2
        <5>1. ToSet(v[i]) \subseteq ToSet(a) \cup ToSet(b)
          BY <1>3, <4>3
        <5> QED BY <1>9, <4>2, <5>1 DEF InOrder, Before
      <4>4. CASE ~(i = 1 \/ i = 2)
        <5>1. PICK k \in 1 .. Len(q) : i = k + 2
          BY <1>5, <4>4
        <5>2. v[i] = q[k] /\ k < l
          BY <1>1, <1>4, <2>3, <4>1, <5>1
        <5> QED BY <1>1, <1>9, <4>2, <5>2 DEF InOrder
      <4> QED BY <4>3, <4>4
    <3> QED BY <3>1, <3>2
  <2> QED BY <2>2, <2>3 DEF InSequence
<1> QED BY <1>8, <1>9 DEF v

LEMMA ViewPieces ==
  ASSUME Rest, NEW c \in Consumers
  PROVE  /\ InOrder(replay[c], got[c], chunks[c]) => InSequence(View(c))
         /\ Seen(c) = ToSet(replay[c]) \cup ToSet(got[c]) \cup Waiting(chunks[c])
<1>1. replay[c] \in Seq(Nat) /\ got[c] \in Seq(Nat) /\ chunks[c] \in Seq(Seq(Nat))
  BY DEF Rest
<1>2. /\ InOrder(replay[c], got[c], chunks[c]) => InSequence(<<replay[c], got[c]>> \o chunks[c])
      /\ Waiting(<<replay[c], got[c]>> \o chunks[c])
           = ToSet(replay[c]) \cup ToSet(got[c]) \cup Waiting(chunks[c])
  BY <1>1, PiecesInOrder
<1>3. Seen(c) = Waiting(<<replay[c], got[c]>> \o chunks[c])
  BY DEF Seen, View, Waiting
<1> QED BY <1>2, <1>3 DEF View

(* A chunk queued behind everything.                                       *)
After(a, b, q, x) ==
  \A m \in ToSet(a) \cup ToSet(b) \cup Waiting(q), n \in ToSet(x) : m < n

LEMMA QueueChunk ==
  ASSUME NEW a \in Seq(Nat), NEW b \in Seq(Nat), NEW q \in Seq(Seq(Nat)), NEW x \in Seq(Nat),
         InOrder(a, b, q), Ascending(x), After(a, b, q, x)
  PROVE  /\ InOrder(a, b, Append(q, x))
         /\ Waiting(Append(q, x)) = Waiting(q) \cup ToSet(x)
<1>1. /\ DOMAIN Append(q, x) = 1 .. Len(q) + 1
      /\ DOMAIN q = 1 .. Len(q)
      /\ Len(q) \in Nat
      /\ \A i \in 1 .. Len(q) : Append(q, x)[i] = q[i]
      /\ Append(q, x)[Len(q) + 1] = x
  OBVIOUS
<1>2. Waiting(Append(q, x)) = Waiting(q) \cup ToSet(x)
  BY ToSetAppend DEF Waiting
<1>3. \A i \in 1 .. Len(q) : ToSet(q[i]) \subseteq Waiting(q)
  BY <1>1, PieceWaits
<1>4. ASSUME NEW i \in 1 .. Len(q) + 1 PROVE Ascending(Append(q, x)[i])
  <2>1. CASE i = Len(q) + 1
    BY <1>1, <2>1
  <2>2. CASE i # Len(q) + 1
    <3>1. i \in 1 .. Len(q) /\ i \in DOMAIN q /\ Append(q, x)[i] = q[i]
      BY <1>1, <2>2
    <3> QED BY <3>1 DEF InOrder
  <2> QED BY <2>1, <2>2
<1>5. ASSUME NEW i \in 1 .. Len(q) + 1, NEW j \in 1 .. Len(q) + 1, i < j
      PROVE  Before(Append(q, x)[i], Append(q, x)[j])
  <2>1. i \in 1 .. Len(q) /\ Append(q, x)[i] = q[i]
    BY <1>1, <1>5
  <2>2. CASE j = Len(q) + 1
    BY <1>1, <1>3, <2>1, <2>2 DEF Before, After
  <2>3. CASE j \in 1 .. Len(q)
    BY <1>1, <1>5, <2>1, <2>3 DEF InOrder
  <2> QED BY <1>1, <2>2, <2>3
<1>6. \A m \in ToSet(a) \cup ToSet(b), n \in Waiting(Append(q, x)) : m < n
  BY <1>2 DEF InOrder, After
<1> QED BY <1>1, <1>2, <1>4, <1>5, <1>6 DEF InOrder

(* The oldest chunk received.                                              *)
LEMMA ReceiveChunk ==
  ASSUME NEW a \in Seq(Nat), NEW b \in Seq(Nat), NEW q \in Seq(Seq(Nat)), q # <<>>,
         InOrder(a, b, q)
  PROVE  /\ InOrder(a, b \o Head(q), Tail(q))
         /\ ToSet(b \o Head(q)) \cup Waiting(Tail(q)) = ToSet(b) \cup Waiting(q)
<1> DEFINE h == Head(q)
           t == Tail(q)
<1>1. /\ h \in Seq(Nat) /\ t \in Seq(Seq(Nat)) /\ 1 \in DOMAIN q /\ h = q[1]
      /\ \A i \in DOMAIN t : i \in Nat /\ i + 1 \in DOMAIN q /\ 1 < i + 1 /\ t[i] = q[i + 1]
      /\ ToSet(q) = {h} \cup ToSet(t)
  BY HeadAndTail
<1> HIDE DEF h, t
<1>2. Waiting(q) = ToSet(h) \cup Waiting(t)
  BY <1>1 DEF Waiting
<1>3. \A n \in ToSet(h), m \in Waiting(t) : n < m
  <2> SUFFICES ASSUME NEW n \in ToSet(h), NEW i \in DOMAIN t, NEW m \in ToSet(t[i]) PROVE n < m
    BY DEF Waiting, ToSet
  <2>1. Before(q[1], q[i + 1]) /\ t[i] = q[i + 1] /\ h = q[1]
    BY <1>1 DEF InOrder
  <2> QED BY <2>1 DEF Before
<1>4. Before(b, h) /\ Before(a, h) /\ Ascending(h) /\ Ascending(b) /\ Before(a, b) /\ Ascending(a)
  BY <1>1, <1>2 DEF InOrder, Before
<1>5. Ascending(b \o h) /\ ToSet(b \o h) = ToSet(b) \cup ToSet(h)
  BY <1>1, <1>4, Joined
<1>6. Before(a, b \o h)
  BY <1>4, <1>5 DEF Before
<1>7. \A m \in ToSet(a) \cup ToSet(b \o h), n \in Waiting(t) : m < n
  BY <1>2, <1>3, <1>5 DEF InOrder
<1>8. \A i \in DOMAIN t : Ascending(t[i])
  BY <1>1 DEF InOrder
<1>9. ASSUME NEW i \in DOMAIN t, NEW j \in DOMAIN t, i < j PROVE Before(t[i], t[j])
  <2>1. i + 1 < j + 1
    BY <1>1, <1>9
  <2> QED BY <1>1, <2>1 DEF InOrder
<1>10. InOrder(a, b \o h, t)
  BY <1>4, <1>5, <1>6, <1>7, <1>8, <1>9 DEF InOrder
<1> QED BY <1>2, <1>5, <1>10 DEF h, t

(* Consecutive bytes.                                                      *)
LEMMA BytesSet ==
  ASSUME NEW n \in Nat, NEW k \in Nat
  PROVE  /\ ToSet(Bytes(n, k)) = n + 1 .. n + k
         /\ Ascending(Bytes(n, k))
<1>1. /\ DOMAIN Bytes(n, k) = 1 .. k /\ \A i \in 1 .. k : Bytes(n, k)[i] = n + i
  BY BytesType
<1>2. ASSUME NEW m \in n + 1 .. n + k PROVE m \in ToSet(Bytes(n, k))
  <2>1. m - n \in 1 .. k /\ n + (m - n) = m
    OBVIOUS
  <2>2. Bytes(n, k)[m - n] = m
    BY <1>1, <2>1
  <2> QED BY <1>1, <2>1, <2>2 DEF ToSet
<1>3. ASSUME NEW m \in ToSet(Bytes(n, k)) PROVE m \in n + 1 .. n + k
  BY <1>1, <1>3 DEF ToSet
<1>4. Ascending(Bytes(n, k))
  BY <1>1 DEF Ascending
<1> QED BY <1>2, <1>3, <1>4

LEMMA BytesJoin ==
  ASSUME NEW n \in Nat, NEW k \in Nat, NEW l \in Nat
  PROVE  Bytes(n, k) \o Bytes(n + k, l) = Bytes(n, k + l)
<1> DEFINE a == Bytes(n, k)
           b == Bytes(n + k, l)
           r == Bytes(n, k + l)
<1>1. /\ a \in Seq(Nat) /\ Len(a) = k /\ \A i \in 1 .. k : a[i] = n + i
      /\ b \in Seq(Nat) /\ Len(b) = l /\ \A i \in 1 .. l : b[i] = (n + k) + i
      /\ r \in Seq(Nat) /\ Len(r) = k + l /\ \A i \in 1 .. k + l : r[i] = n + i
  <2>1. n + k \in Nat /\ k + l \in Nat
    OBVIOUS
  <2>2. a \in Seq(Nat) /\ Len(a) = k /\ \A i \in 1 .. k : a[i] = n + i
    BY BytesType
  <2>3. b \in Seq(Nat) /\ Len(b) = l /\ \A i \in 1 .. l : b[i] = (n + k) + i
    BY <2>1, BytesType
  <2>4. r \in Seq(Nat) /\ Len(r) = k + l /\ \A i \in 1 .. k + l : r[i] = n + i
    BY <2>1, BytesType
  <2> QED BY <2>2, <2>3, <2>4
<1> HIDE DEF a, b, r
<1>2. a \o b \in Seq(Nat) /\ Len(a \o b) = k + l
  BY <1>1, ConcatProperties
<1>3. ASSUME NEW i \in 1 .. k + l PROVE (a \o b)[i] = r[i]
  <2>1. (a \o b)[i] = IF i <= k THEN a[i] ELSE b[i - k]
    BY <1>1, ConcatProperties
  <2>2. CASE i <= k
    BY <1>1, <2>1, <2>2
  <2>3. CASE ~(i <= k)
    <3>1. i - k \in 1 .. l /\ (n + k) + (i - k) = n + i
      BY <2>3
    <3> QED BY <1>1, <2>1, <2>3, <3>1
  <2> QED BY <2>2, <2>3
<1>4. a \o b = r
  BY <1>1, <1>2, <1>3, SeqEqual
<1> QED BY <1>4 DEF a, b, r

LEMMA NewestOfBytes ==
  ASSUME NEW n \in Nat, NEW k \in Nat
  PROVE  LET l == Ring!Least(k, ScrollbackCap)
         IN  l \in Nat /\ l <= k /\ Ring!Newest(Bytes(n, k)) = Bytes(n + k - l, l)
<1> DEFINE l == Ring!Least(k, ScrollbackCap)
           s == Bytes(n, k)
           t == Bytes(n + k - l, l)
<1>1. l \in Nat /\ l <= k
  BY PtySessionAssumption, SMT DEF Ring!Least
<1> HIDE DEF l
<1>2. n + k - l \in Nat
  BY <1>1
<1>3. s \in Seq(Nat) /\ Len(s) = k /\ \A i \in 1 .. k : s[i] = n + i
  BY BytesType
<1>4. t \in Seq(Nat) /\ Len(t) = l /\ \A i \in 1 .. l : t[i] = (n + k - l) + i
  BY <1>1, <1>2, BytesType
<1> HIDE DEF s, t
<1>5. /\ Ring!Newest(s) \in Seq(Nat)
      /\ Len(Ring!Newest(s)) = l
      /\ \A i \in 1 .. l : Ring!Newest(s)[i] = s[k - l + i]
  BY <1>3, NewestBytes, PtySessionAssumption DEF l
<1>6. ASSUME NEW i \in 1 .. l PROVE Ring!Newest(s)[i] = t[i]
  <2>1. k - l + i \in 1 .. k /\ n + (k - l + i) = (n + k - l) + i
    BY <1>1
  <2> QED BY <1>3, <1>4, <1>5, <2>1
<1>7. Ring!Newest(s) = t
  BY <1>4, <1>5, <1>6, SeqEqual
<1> QED BY <1>1, <1>7 DEF l, s, t

Held == Ring!Least(pumped, ScrollbackCap)

(* The ring holds the end of what has been broadcast, and the pump the     *)
(* bytes after it.                                                         *)
Output ==
  /\ Ring!Snapshot(scrollback) = Bytes(pumped - Held, Held)
  /\ inHand = Bytes(pumped, Len(inHand))

Shown(c) == ToSet(replay[c]) \cup ToSet(got[c]) \cup Waiting(chunks[c])
Known(c) == Shown(c) \cup lost[c]

Covered(c) ==
  \A n \in 1 .. pumped :
    n \in Known(c) \/ (pumped - n >= ScrollbackCap /\ \A m \in Known(c) : n < m)

Fits(c) ==
  /\ InOrder(replay[c], got[c], chunks[c])
  /\ Known(c) \subseteq 1 .. pumped
  /\ lost[c] \cap Shown(c) = {}
  /\ c \in consumers => Covered(c)
  /\ attach[c] = "never" =>
       c \notin consumers /\ replay[c] = <<>> /\ got[c] = <<>> /\ chunks[c] = <<>> /\ lost[c] = {}

Seam == Output /\ \A c \in Consumers : Fits(c)

(* A step that leaves what a consumer is shown alone.                      *)
LEMMA FitsFrame ==
  ASSUME NEW c, Fits(c), pumped' = pumped,
         replay'[c] = replay[c], got'[c] = got[c], chunks'[c] = chunks[c], lost'[c] = lost[c],
         c \in consumers' => c \in consumers,
         attach'[c] = "never" => attach[c] = "never"
  PROVE  Fits(c)'
<1>1. Shown(c)' = Shown(c)
  BY DEF Shown
<1>2. Known(c)' = Known(c)
  BY <1>1 DEF Known
<1> QED BY <1>1, <1>2 DEF Fits, Covered

LEMMA BroadcastOutput ==
  ASSUME StateTypes, Rest, Output, Broadcast
  PROVE  Output' /\ pumped' = pumped + Len(inHand)
<1> DEFINE k == Len(inHand)
<1>1. /\ pumped' = pumped + k /\ inHand' = <<>> /\ scrollback' = Ring!Write(scrollback, inHand)
  BY DEF Broadcast
<1>2. pumped \in Nat /\ k \in Nat /\ inHand \in Seq(Nat) /\ scrollback \in Ring!Ring
  BY DEF StateTypes, Rest
<1>3. Held \in Nat /\ Held <= pumped /\ pumped - Held \in Nat
      /\ (Held = pumped \/ Held = ScrollbackCap)
  BY <1>2, PtySessionAssumption, SMT DEF Held, Ring!Least
<1>4. Ring!Snapshot(scrollback') = Ring!Newest(Ring!Snapshot(scrollback) \o inHand)
  BY <1>1, <1>2, RingKeepsNewest, PtySessionAssumption
<1>5. Ring!Snapshot(scrollback) = Bytes(pumped - Held, Held) /\ inHand = Bytes(pumped, k)
  BY DEF Output
<1>6. Ring!Snapshot(scrollback) \o inHand = Bytes(pumped - Held, Held + k)
  <2>1. (pumped - Held) + Held = pumped
    BY <1>2, <1>3
  <2> HIDE DEF k
  <2>2. Bytes(pumped - Held, Held) \o Bytes((pumped - Held) + Held, k) = Bytes(pumped - Held, Held + k)
    BY <1>2, <1>3, BytesJoin
  <2> QED BY <1>5, <2>1, <2>2
<1> DEFINE l == Ring!Least(Held + k, ScrollbackCap)
<1>7. /\ l \in Nat
      /\ Ring!Newest(Bytes(pumped - Held, Held + k)) = Bytes((pumped - Held) + (Held + k) - l, l)
  <2>1. Held + k \in Nat
    BY <1>2, <1>3
  <2> HIDE DEF k
  <2> QED BY <1>3, <2>1, NewestOfBytes
<1>8. l = Held' /\ (pumped - Held) + (Held + k) = pumped'
  <2>1. (pumped - Held) + (Held + k) = pumped + k
    BY <1>2, <1>3
  <2>2. Held' = Ring!Least(pumped + k, ScrollbackCap)
    BY <1>1 DEF Held
  <2>3. \A p, h, j \in Nat :
          (h <= p /\ h = Ring!Least(p, ScrollbackCap))
            => Ring!Least(h + j, ScrollbackCap) = Ring!Least(p + j, ScrollbackCap)
    BY PtySessionAssumption, SMT DEF Ring!Least
  <2>4. Ring!Least(Held + k, ScrollbackCap) = Ring!Least(pumped + k, ScrollbackCap)
    <3> HIDE DEF k
    <3> QED BY <1>2, <1>3, <2>3 DEF Held
  <2> QED BY <1>1, <2>1, <2>2, <2>4
<1> HIDE DEF l
<1>9. Ring!Snapshot(scrollback') = Bytes(pumped' - Held', Held')
  <2> HIDE DEF k
  <2>3. (pumped - Held) + (Held + k) - l = pumped' - Held'
    BY <1>2, <1>3, <1>7, <1>8
  <2>1. Bytes((pumped - Held) + (Held + k) - l, l) = Bytes(pumped' - Held', Held')
    BY <1>8, <2>3
  <2>2. Ring!Newest(Ring!Snapshot(scrollback) \o inHand) = Bytes(pumped' - Held', Held')
    BY <1>6, <1>7, <2>1
  <2> QED BY <1>4, <2>2
<1>10. inHand' = Bytes(pumped', Len(inHand'))
  <2>1. Len(inHand') = 0
    BY <1>1
  <2>2. pumped' \in Nat
    BY <1>1, <1>2
  <2>3. Bytes(pumped', 0) \in Seq(Nat) /\ Len(Bytes(pumped', 0)) = 0
    BY <2>2, BytesType
  <2> QED BY <1>1, <2>1, <2>3
<1> QED BY <1>1, <1>9, <1>10 DEF Output

LEMMA BroadcastFits ==
  ASSUME StateTypes, Rest, Output, NEW c \in Consumers, Fits(c), Broadcast
  PROVE  Fits(c)'
<1> DEFINE k == Len(inHand)
<1>1. pumped \in Nat /\ k \in Nat /\ inHand \in Seq(Nat) /\ inHand = Bytes(pumped, k)
  BY DEF StateTypes, Output
<1>2. ToSet(inHand) = pumped + 1 .. pumped + k /\ Ascending(inHand)
  BY <1>1, BytesSet
<1>3. /\ pumped' = pumped + k
      /\ replay'[c] = replay[c] /\ got'[c] = got[c] /\ attach' = attach /\ consumers' = consumers
  BY DEF Broadcast
<1>4. /\ replay[c] \in Seq(Nat) /\ got[c] \in Seq(Nat) /\ chunks[c] \in Seq(Seq(Nat))
  BY DEF Rest
<1> HIDE DEF k
<1>5. /\ 1 .. pumped \subseteq 1 .. pumped'
      /\ ToSet(inHand) \subseteq 1 .. pumped'
      /\ \A m \in 1 .. pumped, n \in ToSet(inHand) : m < n
      /\ ToSet(inHand) \cap (1 .. pumped) = {}
      /\ 1 .. pumped' = (1 .. pumped) \cup ToSet(inHand)
  BY <1>1, <1>2, <1>3
<1>6. Known(c) \subseteq 1 .. pumped /\ Shown(c) \subseteq Known(c)
  BY DEF Fits, Known
<1>7. ASSUME Known(c)' = Known(c) \cup ToSet(inHand), c \in consumers
      PROVE  Known(c)' \subseteq 1 .. pumped' /\ Covered(c)'
  <2>1. Known(c)' \subseteq 1 .. pumped'
    BY <1>5, <1>6, <1>7
  <2> SUFFICES ASSUME NEW n \in 1 .. pumped', n \notin Known(c)'
               PROVE  pumped' - n >= ScrollbackCap /\ \A m \in Known(c)' : n < m
    BY <2>1 DEF Covered
  <2>2. n \in 1 .. pumped /\ n \notin Known(c)
    BY <1>5, <1>7
  <2>3. pumped - n >= ScrollbackCap /\ \A m \in Known(c) : n < m
    BY <1>7, <2>2 DEF Fits, Covered
  <2>4. pumped' - n >= ScrollbackCap
    BY <1>1, <1>3, <2>2, <2>3, PtySessionAssumption
  <2> QED BY <1>5, <1>7, <2>2, <2>3, <2>4
<1>8. CASE c \in consumers /\ chunks'[c] = Append(chunks[c], inHand) /\ lost'[c] = lost[c]
  <2>1. \A m \in Shown(c), n \in ToSet(inHand) : m < n
    BY <1>5, <1>6
  <2>2. /\ InOrder(replay[c], got[c], Append(chunks[c], inHand))
        /\ Waiting(Append(chunks[c], inHand)) = Waiting(chunks[c]) \cup ToSet(inHand)
    <3>1. InOrder(replay[c], got[c], chunks[c])
      BY DEF Fits
    <3>2. After(replay[c], got[c], chunks[c], inHand)
      BY <2>1 DEF After, Shown
    <3> QED BY <1>1, <1>2, <1>4, <3>1, <3>2, QueueChunk
  <2>3. Shown(c)' = Shown(c) \cup ToSet(inHand)
    BY <1>3, <1>8, <2>2 DEF Shown
  <2>4. Known(c)' = Known(c) \cup ToSet(inHand)
    BY <1>8, <2>3 DEF Known
  <2>5. lost'[c] \cap Shown(c)' = {}
    BY <1>5, <1>6, <1>8, <2>3 DEF Fits, Known
  <2> QED BY <1>3, <1>7, <1>8, <2>2, <2>4, <2>5 DEF Fits
<1>9. CASE c \in consumers /\ chunks'[c] = chunks[c] /\ lost'[c] = lost[c] \cup ToSet(inHand)
  <2>1. Shown(c)' = Shown(c)
    BY <1>3, <1>9 DEF Shown
  <2>2. Known(c)' = Known(c) \cup ToSet(inHand)
    BY <1>9, <2>1 DEF Known
  <2>3. lost'[c] \cap Shown(c)' = {}
    BY <1>5, <1>6, <1>9, <2>1 DEF Fits
  <2> QED BY <1>3, <1>7, <1>9, <2>2, <2>3 DEF Fits
<1>10. CASE c \notin consumers /\ chunks'[c] = chunks[c] /\ lost'[c] = lost[c]
  <2>1. Shown(c)' = Shown(c)
    BY <1>3, <1>10 DEF Shown
  <2>2. Known(c)' = Known(c)
    BY <1>10, <2>1 DEF Known
  <2> QED BY <1>3, <1>5, <1>6, <1>10, <2>1, <2>2 DEF Fits
<1> QED BY <1>8, <1>9, <1>10, BroadcastQueues DEF StateTypes

LEMMA AttachFits ==
  ASSUME StateTypes, Rest, Output, NEW c \in Consumers, Fits(c), Attach(c)
  PROVE  Fits(c)'
<1>1. /\ attach[c] = "never" /\ attach'[c] = "attached"
      /\ replay'[c] = Ring!Snapshot(scrollback)
      /\ UNCHANGED <<pumped, got, chunks, lost>>
  BY DEF Attach, StateTypes, Rest, runVars, childVars
<1>2. got'[c] = <<>> /\ chunks'[c] = <<>> /\ lost'[c] = {}
  BY <1>1 DEF Fits
<1>3. pumped \in Nat
  BY DEF StateTypes
<1>4. Held \in Nat /\ Held <= pumped /\ pumped - Held \in Nat
      /\ (Held = pumped \/ (Held = ScrollbackCap /\ ScrollbackCap <= pumped))
  BY <1>3, PtySessionAssumption, SMT DEF Held, Ring!Least
<1>5. replay'[c] = Bytes(pumped - Held, Held)
  BY <1>1 DEF Output
<1>6. /\ ToSet(replay'[c]) = (pumped - Held) + 1 .. (pumped - Held) + Held
      /\ Ascending(replay'[c])
  BY <1>4, <1>5, BytesSet
<1>7. ToSet(<<>>) = {} /\ Waiting(<<>>) = {} /\ Ascending(<<>>)
  BY DEF ToSet, Waiting, Ascending
<1>8. InOrder(replay'[c], <<>>, <<>>)
  BY <1>6, <1>7 DEF InOrder, Before
<1>9. Known(c)' = (pumped - Held) + 1 .. pumped /\ Shown(c)' = Known(c)'
  <2>1. (pumped - Held) + Held = pumped
    BY <1>3, <1>4
  <2>2. Shown(c)' = ToSet(replay'[c])
    BY <1>2, <1>7 DEF Shown
  <2> QED BY <1>2, <1>6, <2>1, <2>2 DEF Known
<1>10. Known(c)' \subseteq 1 .. pumped'
  BY <1>1, <1>3, <1>4, <1>9
<1>11. Covered(c)'
  <2> SUFFICES ASSUME NEW n \in 1 .. pumped, n \notin Known(c)'
               PROVE  pumped - n >= ScrollbackCap /\ \A m \in Known(c)' : n < m
    BY <1>1 DEF Covered
  <2>1. n <= pumped - Held
    BY <1>3, <1>4, <1>9
  <2> QED BY <1>3, <1>4, <1>9, <2>1, PtySessionAssumption
<1> QED BY <1>1, <1>2, <1>8, <1>10, <1>11 DEF Fits

LEMMA ReceiveFits ==
  ASSUME StateTypes, Rest, NEW c \in Consumers, Fits(c), Receive(c)
  PROVE  Fits(c)'
<1>1. /\ replay[c] \in Seq(Nat) /\ got[c] \in Seq(Nat) /\ chunks[c] \in Seq(Seq(Nat))
      /\ chunks[c] # <<>>
  BY DEF Rest, Receive
<1>2. /\ got'[c] = got[c] \o Head(chunks[c]) /\ chunks'[c] = Tail(chunks[c])
      /\ UNCHANGED <<pumped, consumers, attach, replay, lost>>
  BY DEF Receive, Rest, runVars
<1>3. /\ InOrder(replay'[c], got'[c], chunks'[c])
      /\ ToSet(got'[c]) \cup Waiting(chunks'[c]) = ToSet(got[c]) \cup Waiting(chunks[c])
  BY <1>1, <1>2, ReceiveChunk DEF Fits
<1>4. Shown(c)' = Shown(c)
  BY <1>2, <1>3 DEF Shown
<1>5. Known(c)' = Known(c)
  BY <1>2, <1>4 DEF Known
<1>6. attach[c] # "never"
  BY <1>1 DEF Fits
<1> QED BY <1>2, <1>3, <1>4, <1>5, <1>6 DEF Fits, Covered

LEMMA SeamInvariant == Spec => []Seam
<1>1. Init => Seam
  <2> SUFFICES ASSUME Init PROVE Seam
    OBVIOUS
  <2>1. pumped = 0 /\ inHand = <<>> /\ scrollback = Ring!NewRing(0)
    BY DEF Init
  <2>2. Held = 0
    BY <2>1, PtySessionAssumption, SMT DEF Held, Ring!Least
  <2>3. Bytes(0, 0) \in Seq(Nat) /\ Len(Bytes(0, 0)) = 0
    BY BytesType
  <2>4. Output
    BY <2>1, <2>2, <2>3, EmptyRing DEF Output
  <2>5. ToSet(<<>>) = {} /\ Waiting(<<>>) = {} /\ Ascending(<<>>)
    BY DEF ToSet, Waiting, Ascending
  <2>6. InOrder(<<>>, <<>>, <<>>)
    BY <2>5 DEF InOrder, Before
  <2>7. ASSUME NEW c \in Consumers PROVE Fits(c)
    <3>1. /\ replay[c] = <<>> /\ got[c] = <<>> /\ chunks[c] = <<>> /\ lost[c] = {}
          /\ c \notin consumers
      BY DEF Init
    <3>2. Known(c) = {} /\ Shown(c) = {}
      BY <2>5, <3>1 DEF Known, Shown
    <3> QED BY <2>6, <3>1, <3>2 DEF Fits
  <2> QED BY <2>4, <2>7 DEF Seam
<1>2. StateTypes /\ Rest /\ Seam /\ [Next]_vars => Seam'
  <2> SUFFICES ASSUME StateTypes, Rest, Seam, [Next]_vars PROVE Seam'
    OBVIOUS
  <2>1. Output /\ \A c \in Consumers : Fits(c)
    BY DEF Seam
  <2>2. CASE Broadcast
    BY <2>1, <2>2, BroadcastOutput, BroadcastFits DEF Seam
  <2>3. ASSUME scrollback' = scrollback, pumped' = pumped, inHand' = inHand
        PROVE  Output'
    BY <2>1, <2>3 DEF Output, Held
  <2>4. ASSUME NEW k \in 1 .. ReadChunk, Read(k) PROVE Seam'
    <3>1. inHand' = Bytes(pumped, k) /\ UNCHANGED <<pumped, scrollback, consumerVars>>
      BY <2>4 DEF Read
    <3>2. k \in Nat /\ pumped \in Nat
      BY PtySessionAssumption DEF StateTypes
    <3>3. Len(inHand') = k
      BY <3>1, <3>2, BytesType
    <3>4. Output'
      BY <2>1, <3>1, <3>3 DEF Output, Held
    <3> QED BY <2>1, <3>1, <3>4, FitsFrame DEF Seam, consumerVars
  <2>5. ASSUME UNCHANGED <<pumped, inHand, scrollback, replay, chunks, got, lost, attach>>,
               consumers' \subseteq consumers
        PROVE  Seam'
    BY <2>1, <2>3, <2>5, FitsFrame DEF Seam
  <2>6. CASE Produce \/ ChildExits \/ HolderExits \/ Hangup \/ ForceKill \/ KillReturns
    BY <2>5, <2>6 DEF Produce, ChildExits, HolderExits, Hangup, ForceKill, KillReturns,
                      runVars, consumerVars
  <2>7. CASE EndOfFile \/ Reap \/ Drained \/ DrainTimeout \/ Finish
    BY <2>5, <2>7 DEF EndOfFile, Reap, Drained, DrainTimeout, CloseMaster, Finish, consumerVars
  <2>8. ASSUME NEW c \in Consumers, Attach(c) PROVE Seam'
    <3>1. /\ UNCHANGED <<pumped, inHand, scrollback, chunks, got, lost>>
          /\ \A d \in Consumers \ {c} : replay'[d] = replay[d] /\ attach'[d] = attach[d]
          /\ consumers' \subseteq consumers \cup {c}
      BY <2>8 DEF Attach, runVars, StateTypes, Rest
    <3>2. \A d \in Consumers : Fits(d)'
      <4> TAKE d \in Consumers
      <4>1. CASE d = c
        BY <2>1, <2>8, <4>1, AttachFits
      <4>2. CASE d # c
        BY <2>1, <3>1, <4>2, FitsFrame
      <4> QED BY <4>1, <4>2
    <3> QED BY <2>3, <3>1, <3>2 DEF Seam
  <2>9. ASSUME NEW c \in Consumers, Detach(c) PROVE Seam'
    <3>1. /\ UNCHANGED <<pumped, inHand, scrollback, replay, chunks, got, lost>>
          /\ \A d \in Consumers : attach'[d] = "never" => attach[d] = "never"
          /\ consumers' \subseteq consumers
      BY <2>9 DEF Detach, runVars, StateTypes
    <3>2. \A d \in Consumers : Fits(d)'
      BY <2>1, <3>1, FitsFrame
    <3> QED BY <2>3, <3>1, <3>2 DEF Seam
  <2>10. ASSUME NEW c \in Consumers, Receive(c) PROVE Seam'
    <3>1. /\ UNCHANGED <<pumped, inHand, scrollback, replay, lost, attach, consumers>>
          /\ \A d \in Consumers \ {c} : got'[d] = got[d] /\ chunks'[d] = chunks[d]
      BY <2>10 DEF Receive, runVars, Rest
    <3>2. \A d \in Consumers : Fits(d)'
      <4> TAKE d \in Consumers
      <4>1. CASE d = c
        BY <2>1, <2>10, <4>1, ReceiveFits
      <4>2. CASE d # c
        BY <2>1, <3>1, <4>2, FitsFrame
      <4> QED BY <4>1, <4>2
    <3> QED BY <2>3, <3>1, <3>2 DEF Seam
  <2>11. CASE UNCHANGED vars
    BY <2>5, <2>11 DEF vars, runVars, consumerVars
  <2> QED BY <2>2, <2>4, <2>6, <2>7, <2>8, <2>9, <2>10, <2>11 DEF Next, SystemStep, ReadSome
<1> QED BY <1>1, <1>2, StateTypesCorrect, RestCorrect, PTL DEF Spec

(* session.go, attach: "no chunk is both replayed and delivered, and none  *)
(* is missed between the two", for any ring, chunk and queue sizes, any    *)
(* consumers and any output.                                               *)
THEOREM AttachIsSeamless == Spec => []SeamlessAttach
<1>1. Rest /\ Seam => SeamlessAttach
  <2> SUFFICES ASSUME Rest, Seam, NEW c \in Consumers
               PROVE  /\ InSequence(View(c))
                      /\ lost[c] \cap Seen(c) = {}
                      /\ c \in consumers =>
                           \A n \in 1 .. pumped :
                             \/ n \in Seen(c) \cup lost[c]
                             \/ /\ pumped - n >= ScrollbackCap
                                /\ \A m \in Seen(c) \cup lost[c] : n < m
    BY DEF SeamlessAttach
  <2>1. Fits(c)
    BY DEF Seam
  <2>2. InSequence(View(c)) /\ Seen(c) = Shown(c)
    BY <2>1, ViewPieces DEF Fits, Shown
  <2> QED BY <2>1, <2>2 DEF Fits, Covered, Known
<1> QED BY <1>1, RestCorrect, SeamInvariant, PTL
=============================================================================
