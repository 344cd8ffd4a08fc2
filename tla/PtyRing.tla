------------------------------ MODULE PtyRing ------------------------------
(***************************************************************************)
(* The scrollback ring (internal/pty/ring.go), byte by byte: a buffer of   *)
(* fixed size, the index of the oldest byte and how many are held.         *)
(* PtySession keeps one and replays it to every consumer that attaches.    *)
(***************************************************************************)
EXTENDS Integers, Sequences

CONSTANTS
  Capacity,   \* len(r.buf), positive
  Byte        \* what it holds

Index == 0 .. Capacity - 1

Ring == [buf : [Index -> Byte], start : Index, size : 0 .. Capacity]

Least(a, b) == IF a < b THEN a ELSE b

(* newRing, the buffer holding zeros that are never shown.                 *)
NewRing(zero) == [buf |-> [i \in Index |-> zero], start |-> 0, size |-> 0]

(* copy(buf[at:], p): as many bytes of p as fit from index at on.          *)
Copy(buf, at, p) ==
  [i \in Index |-> IF i - at \in 0 .. Len(p) - 1 THEN p[i - at + 1] ELSE buf[i]]

(* p[from:], with Go's index from 0.                                       *)
From(p, from) == SubSeq(p, from + 1, Len(p))

(* A write as long as the buffer or longer: its own tail is all that stays. *)
WriteLong(r, p) ==
  [buf |-> Copy(r.buf, 0, From(p, Len(p) - Capacity)), start |-> 0, size |-> Capacity]

(* Variants named Bug... are the definitions after them with a plausible   *)
(* mistake: here the oldest byte always moves on by one.                   *)
BugStartByOne(r, p) ==
  LET end == (r.start + r.size) % Capacity
      n   == Least(Capacity - end, Len(p))
      overflow == r.size + Len(p) - Capacity
  IN [buf   |-> Copy(Copy(r.buf, end, p), 0, From(p, n)),
      start |-> IF overflow > 0 THEN (r.start + 1) % Capacity ELSE r.start,
      size  |-> IF overflow > 0 THEN Capacity ELSE r.size + Len(p)]

(* A shorter write: at the end of what is held, the rest from the start of *)
(* the buffer; the oldest bytes make room.                                 *)
WriteShort(r, p) ==
  LET end == (r.start + r.size) % Capacity
      n   == Least(Capacity - end, Len(p))
      overflow == r.size + Len(p) - Capacity
  IN [buf   |-> Copy(Copy(r.buf, end, p), 0, From(p, n)),
      start |-> IF overflow > 0 THEN (r.start + overflow) % Capacity ELSE r.start,
      size  |-> IF overflow > 0 THEN Capacity ELSE r.size + Len(p)]

Write(r, p) == IF Len(p) >= Capacity THEN WriteLong(r, p) ELSE WriteShort(r, p)

(* snapshot: from the oldest byte to the end of the buffer, then the rest  *)
(* from its beginning.                                                     *)
Snapshot(r) ==
  LET n == Least(r.start + r.size, Capacity) - r.start
  IN [i \in 1 .. r.size |-> IF i <= n THEN r.buf[r.start + i - 1] ELSE r.buf[i - n - 1]]

(* The reference definition: the newest Capacity bytes of what was written. *)
Newest(s) == SubSeq(s, Len(s) - Least(Len(s), Capacity) + 1, Len(s))
=============================================================================
