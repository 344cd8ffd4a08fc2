-------------------------- MODULE StreamConn_proofs --------------------------
(***************************************************************************)
(* Proofs about StreamConn, for any number of connections and producers,   *)
(* any queue length and any number of frames.                              *)
(***************************************************************************)
EXTENDS StreamConn, TLAPS

-----------------------------------------------------------------------------
(* What the queue operations do to the set of queued frames.               *)

Distinct(q) == \A i, j \in DOMAIN q : q[i] = q[j] => i = j

(* Appending to a queue adds the element to its set.                       *)
LEMMA ElemsAppend ==
  ASSUME NEW S, NEW q \in Seq(S), NEW x \in S
  PROVE  Elems(Append(q, x)) = Elems(q) \cup {x}
<1>1. /\ DOMAIN Append(q, x) = 1 .. Len(q) + 1
      /\ DOMAIN q = 1 .. Len(q)
      /\ Len(q) \in Nat
      /\ \A i \in 1 .. Len(q) : Append(q, x)[i] = q[i]
      /\ Append(q, x)[Len(q) + 1] = x
  OBVIOUS
<1> QED BY <1>1 DEF Elems

(* Taking the head of a queue splits its set.                              *)
LEMMA ElemsTail ==
  ASSUME NEW S, NEW q \in Seq(S), q # <<>>
  PROVE  /\ Head(q) \in S
         /\ Elems(q) = Elems(Tail(q)) \cup {Head(q)}
<1>1. /\ DOMAIN Tail(q) = 1 .. Len(q) - 1
      /\ DOMAIN q = 1 .. Len(q)
      /\ Len(q) \in Nat \ {0}
      /\ \A i \in 1 .. Len(q) - 1 : Tail(q)[i] = q[i + 1]
      /\ Head(q) = q[1]
  OBVIOUS
<1>2. Head(q) \in S
  BY <1>1
<1>3. ASSUME NEW x \in Elems(q) PROVE x \in Elems(Tail(q)) \cup {Head(q)}
  <2>1. PICK i \in 1 .. Len(q) : x = q[i]
    BY <1>1, <1>3 DEF Elems
  <2>2. CASE i = 1
    BY <2>1, <2>2, <1>1
  <2>3. CASE i # 1
    <3>1. i - 1 \in 1 .. Len(q) - 1 /\ Tail(q)[i - 1] = q[i]
      BY <2>1, <2>3, <1>1
    <3> QED BY <3>1, <2>1, <1>1 DEF Elems
  <2> QED BY <2>2, <2>3
<1>4. ASSUME NEW x \in Elems(Tail(q)) \cup {Head(q)} PROVE x \in Elems(q)
  BY <1>1, <1>4 DEF Elems
<1> QED BY <1>2, <1>3, <1>4

(* A queue without repetition keeps none after an append of a new frame.   *)
LEMMA DistinctAppend ==
  ASSUME NEW S, NEW q \in Seq(S), NEW x \in S, Distinct(q), x \notin Elems(q)
  PROVE  Distinct(Append(q, x))
<1>1. /\ DOMAIN Append(q, x) = 1 .. Len(q) + 1
      /\ DOMAIN q = 1 .. Len(q)
      /\ Len(q) \in Nat
      /\ \A i \in 1 .. Len(q) : Append(q, x)[i] = q[i]
      /\ Append(q, x)[Len(q) + 1] = x
  OBVIOUS
<1>2. \A i \in 1 .. Len(q) : q[i] # x
  BY <1>1 DEF Elems
<1> QED BY <1>1, <1>2 DEF Distinct

(* ... and the head of one is not in its tail.                             *)
LEMMA DistinctTail ==
  ASSUME NEW S, NEW q \in Seq(S), q # <<>>, Distinct(q)
  PROVE  Distinct(Tail(q)) /\ Head(q) \notin Elems(Tail(q))
<1>1. /\ DOMAIN Tail(q) = 1 .. Len(q) - 1
      /\ DOMAIN q = 1 .. Len(q)
      /\ Len(q) \in Nat \ {0}
      /\ \A i \in 1 .. Len(q) - 1 : Tail(q)[i] = q[i + 1]
      /\ Head(q) = q[1]
  OBVIOUS
<1>2. Distinct(Tail(q))
  <2> SUFFICES ASSUME NEW i \in 1 .. Len(q) - 1, NEW j \in 1 .. Len(q) - 1,
                      Tail(q)[i] = Tail(q)[j]
               PROVE  i = j
    BY <1>1 DEF Distinct
  <2>1. q[i + 1] = q[j + 1] /\ i + 1 \in 1 .. Len(q) /\ j + 1 \in 1 .. Len(q)
    BY <1>1
  <2> QED BY <2>1, <1>1 DEF Distinct
<1>3. Head(q) \notin Elems(Tail(q))
  <2> SUFFICES ASSUME NEW i \in 1 .. Len(q) - 1, Tail(q)[i] = Head(q) PROVE FALSE
    BY <1>1 DEF Elems
  <2>1. q[i + 1] = q[1] /\ i + 1 \in 1 .. Len(q) /\ 1 \in 1 .. Len(q)
    BY <1>1
  <2> QED BY <2>1, <1>1 DEF Distinct
<1> QED BY <1>2, <1>3

-----------------------------------------------------------------------------
(* Type correctness.                                                       *)

LEMMA FeedConn == \A feed \in Feeds : ConnOf(feed) \in Conns
BY StreamConnAssumption DEF ConnOf

LEMMA InsideType ==
  \A at \in {"idle", "evict", "count", "retry"}, n \in Nat, v \in Nat :
    /\ Inside(at, n, v) \in Sending
    /\ Inside(at, n, v).at = at
    /\ Inside(at, n, v).frame = n
    /\ Inside(at, n, v).victim = v
BY DEF Inside, Sending

LEMMA IdleType == Idle \in Sending /\ Idle.at = "idle"
BY DEF Idle, Inside, Sending

LEMMA SendingType ==
  ASSUME NEW s \in Sending
  PROVE  s.at \in {"idle", "evict", "count", "retry"} /\ s.frame \in Nat /\ s.victim \in Nat
BY DEF Sending

LEMMA MessageType ==
  /\ Closure \in Message
  /\ \A n \in Nat : Data(n) \in Message
  /\ \A S \in SUBSET Nat : Resync(S) \in Message
BY DEF Closure, Data, Resync, Message

(* A queue replaced by one that fits.                                      *)
LEMMA FramesType ==
  ASSUME TypeOK, NEW c \in Conns, NEW q \in Seq(Nat), Len(q) <= QueueCap,
         frames' = [frames EXCEPT ![c] = q]
  PROVE  frames' \in [Conns -> Seq(Nat)] /\ \A d \in Conns : Len(frames'[d]) <= QueueCap
<1>1. frames' \in [Conns -> Seq(Nat)]
  BY DEF TypeOK
<1>2. \A d \in Conns : frames'[d] = IF d = c THEN q ELSE frames[d]
  BY DEF TypeOK
<1> QED BY <1>1, <1>2 DEF TypeOK

LEMMA AppendFits ==
  ASSUME TypeOK, NEW c \in Conns, ~IsFull(c), NEW n \in Nat
  PROVE  Append(frames[c], n) \in Seq(Nat) /\ Len(Append(frames[c], n)) <= QueueCap
<1>1. frames[c] \in Seq(Nat) /\ Len(frames[c]) \in Nat
  BY DEF TypeOK
<1> QED BY <1>1, StreamConnAssumption DEF IsFull

LEMMA TailFits ==
  ASSUME TypeOK, NEW c \in Conns, frames[c] # <<>>
  PROVE  /\ Head(frames[c]) \in Nat
         /\ Tail(frames[c]) \in Seq(Nat) /\ Len(Tail(frames[c])) <= QueueCap
<1>1. frames[c] \in Seq(Nat) /\ Len(frames[c]) \in Nat \ {0} /\ Len(frames[c]) <= QueueCap
  BY DEF TypeOK
<1>2. Len(Tail(frames[c])) = Len(frames[c]) - 1
  BY <1>1
<1> QED BY <1>1, <1>2, StreamConnAssumption

(* Every reachable state is well typed: no index, frame number or control  *)
(* state of send and writePump leaves its range, no queue its capacity.    *)
THEOREM TypeCorrect == Spec => []TypeOK
<1>1. Init => TypeOK
  <2> SUFFICES ASSUME Init PROVE TypeOK
    OBVIOUS
  <2>1. ASSUME NEW c \in Conns PROVE Len(frames[c]) <= QueueCap
    <3>1. frames[c] = <<>>
      BY DEF Init
    <3>2. Len(<<>>) = 0 /\ QueueCap >= 0
      BY StreamConnAssumption
    <3> QED BY <3>1, <3>2
  <2> QED BY <2>1, IdleType DEF Init, TypeOK
<1>2. TypeOK /\ [Next]_vars => TypeOK'
  <2> SUFFICES ASSUME TypeOK, [Next]_vars PROVE TypeOK'
    OBVIOUS
  <2>1. ASSUME NEW feed \in Feeds, Send(feed) PROVE TypeOK'
    <3> DEFINE c == ConnOf(feed)
               n == offered[c] + 1
    <3>1. c \in Conns /\ n \in Nat /\ Inside("evict", n, 0) \in Sending
      BY FeedConn, InsideType DEF TypeOK
    <3>2. /\ offered' = [offered EXCEPT ![c] = n]
          /\ UNCHANGED <<finished, dropped, pump, hand, wire, closed>>
      BY <2>1 DEF Send
    <3>3. CASE ~IsFull(c) /\ frames' = [frames EXCEPT ![c] = Append(frames[c], n)] /\ UNCHANGED sending
      <4>1. frames' \in [Conns -> Seq(Nat)] /\ \A d \in Conns : Len(frames'[d]) <= QueueCap
        BY <3>1, <3>3, AppendFits, FramesType
      <4> QED BY <3>1, <3>2, <3>3, <4>1 DEF TypeOK
    <3>4. CASE sending' = [sending EXCEPT ![feed] = Inside("evict", n, 0)] /\ UNCHANGED frames
      BY <3>1, <3>2, <3>4 DEF TypeOK
    <3> QED BY <2>1, <3>3, <3>4 DEF Send
  <2>2. ASSUME NEW feed \in Feeds, Evict(feed) PROVE TypeOK'
    <3> DEFINE c == ConnOf(feed)
    <3>1. c \in Conns /\ sending[feed].frame \in Nat
      BY FeedConn, SendingType DEF TypeOK
    <3>2. CASE frames[c] # <<>>
      <4>1. /\ Head(frames[c]) \in Nat
            /\ Tail(frames[c]) \in Seq(Nat) /\ Len(Tail(frames[c])) <= QueueCap
        BY <3>1, <3>2, TailFits
      <4>2. Inside("count", sending[feed].frame, Head(frames[c])) \in Sending
        BY <3>1, <4>1, InsideType
      <4>3. /\ frames' = [frames EXCEPT ![c] = Tail(frames[c])]
            /\ sending' = [sending EXCEPT ![feed] = Inside("count", sending[feed].frame, Head(frames[c]))]
            /\ UNCHANGED <<offered, finished, dropped, pump, hand, wire, closed>>
        BY <2>2, <3>2 DEF Evict
      <4>4. frames' \in [Conns -> Seq(Nat)] /\ \A d \in Conns : Len(frames'[d]) <= QueueCap
        BY <3>1, <4>1, <4>3, FramesType
      <4> QED BY <3>1, <4>2, <4>3, <4>4 DEF TypeOK
    <3>3. CASE frames[c] = <<>>
      <4>1. Inside("retry", sending[feed].frame, 0) \in Sending
        BY <3>1, InsideType
      <4> QED BY <2>2, <3>1, <3>3, <4>1 DEF Evict, TypeOK
    <3> QED BY <3>2, <3>3
  <2>3. ASSUME NEW feed \in Feeds, Count(feed) PROVE TypeOK'
    <3> DEFINE c == ConnOf(feed)
    <3>1. /\ c \in Conns
          /\ sending[feed].frame \in Nat
          /\ sending[feed].victim \in Nat
      BY FeedConn, SendingType DEF TypeOK
    <3>2. Inside("retry", sending[feed].frame, 0) \in Sending /\ Idle \in Sending
      BY <3>1, InsideType, IdleType
    <3> QED BY <2>3, <3>1, <3>2 DEF Count, TypeOK
  <2>4. ASSUME NEW feed \in Feeds, Retry(feed) PROVE TypeOK'
    <3> DEFINE c == ConnOf(feed)
    <3>1. c \in Conns /\ sending[feed].frame \in Nat
      BY FeedConn, SendingType DEF TypeOK
    <3>2. Inside("count", sending[feed].frame, sending[feed].frame) \in Sending /\ Idle \in Sending
      BY <3>1, InsideType, IdleType
    <3>3. CASE ~IsFull(c) /\ frames' = [frames EXCEPT ![c] = Append(frames[c], sending[feed].frame)]
      <4>1. frames' \in [Conns -> Seq(Nat)] /\ \A d \in Conns : Len(frames'[d]) <= QueueCap
        BY <3>1, <3>3, AppendFits, FramesType
      <4>2. sending' \in [Feeds -> Sending]
        BY <2>4, <3>2 DEF Retry, TypeOK
      <4> QED BY <2>4, <4>1, <4>2 DEF Retry, TypeOK
    <3>4. CASE UNCHANGED frames
      <4>1. sending' \in [Feeds -> Sending]
        BY <2>4, <3>2 DEF Retry, TypeOK
      <4> QED BY <2>4, <3>4, <4>1 DEF Retry, TypeOK
    <3> QED BY <2>4, <3>3, <3>4 DEF Retry
  <2>5. ASSUME NEW c \in Conns, Finish(c) PROVE TypeOK'
    BY <2>5 DEF Finish, TypeOK
  <2>6. ASSUME NEW c \in Conns, Take(c) PROVE TypeOK'
    <3>1. /\ Head(frames[c]) \in Nat
          /\ Tail(frames[c]) \in Seq(Nat) /\ Len(Tail(frames[c])) <= QueueCap
      BY <2>6, TailFits DEF Take
    <3>2. frames' \in [Conns -> Seq(Nat)] /\ \A d \in Conns : Len(frames'[d]) <= QueueCap
      BY <2>6, <3>1, FramesType DEF Take
    <3> QED BY <2>6, <3>1, <3>2 DEF Take, TypeOK
  <2>7. ASSUME NEW c \in Conns, TakeEnd(c) PROVE TypeOK'
    BY <2>7 DEF TakeEnd, TypeOK
  <2>8. ASSUME NEW c \in Conns, TakeDone(c) PROVE TypeOK'
    BY <2>8 DEF TakeDone, Stop, TypeOK
  <2>9. ASSUME NEW c \in Conns, Mark(c) PROVE TypeOK'
    <3>1. Append(wire[c], Resync(dropped[c])) \in Seq(Message)
      BY MessageType DEF TypeOK
    <3>2. wire' \in [Conns -> Seq(Message)] /\ closed' \in [Conns -> BOOLEAN]
      BY <2>9, <3>1, ZenonT(60) DEF Mark, Stop, TypeOK
    <3>3. dropped' \in [Conns -> SUBSET Nat]
      BY <2>9 DEF Mark, TypeOK
    <3>4. pump' \in [Conns -> {"select", "mark", "write", "drain", "closing", "stopped"}]
      BY <2>9 DEF Mark, Stop, TypeOK
    <3> QED BY <2>9, <3>2, <3>3, <3>4 DEF Mark, TypeOK
  <2>10. ASSUME NEW c \in Conns, Write(c) PROVE TypeOK'
    <3>1. Append(wire[c], Data(hand[c])) \in Seq(Message)
      BY MessageType DEF TypeOK
    <3>2. wire' \in [Conns -> Seq(Message)] /\ closed' \in [Conns -> BOOLEAN]
      <4>1. \/ wire' = [wire EXCEPT ![c] = Append(wire[c], Data(hand[c]))] /\ closed' = closed
            \/ wire' = wire /\ closed' = [closed EXCEPT ![c] = TRUE]
        BY <2>10 DEF Write, Stop
      <4>2. CASE wire' = [wire EXCEPT ![c] = Append(wire[c], Data(hand[c]))] /\ closed' = closed
        BY <3>1, <4>2 DEF TypeOK
      <4>3. CASE wire' = wire /\ closed' = [closed EXCEPT ![c] = TRUE]
        BY <4>3 DEF TypeOK
      <4> QED BY <4>1, <4>2, <4>3
    <3>3. pump' \in [Conns -> {"select", "mark", "write", "drain", "closing", "stopped"}]
      BY <2>10 DEF Write, Stop, TypeOK
    <3>4. hand' \in [Conns -> Nat]
      <4>1. hand' = [hand EXCEPT ![c] = 0] \/ hand' = hand
        BY <2>10 DEF Write
      <4>2. CASE hand' = hand
        BY <4>2 DEF TypeOK
      <4>3. CASE hand' = [hand EXCEPT ![c] = 0]
        BY <4>3 DEF TypeOK
      <4> QED BY <4>1, <4>2, <4>3
    <3> QED BY <2>10, <3>2, <3>3, <3>4 DEF Write, TypeOK
  <2>11. ASSUME NEW c \in Conns, WriteClosure(c) PROVE TypeOK'
    <3>1. Append(wire[c], Closure) \in Seq(Message)
      BY MessageType DEF TypeOK
    <3> QED BY <2>11, <3>1 DEF WriteClosure, Stop, TypeOK
  <2>12. ASSUME NEW c \in Conns, Close(c) PROVE TypeOK'
    BY <2>12 DEF Close, TypeOK
  <2>13. CASE UNCHANGED vars
    BY <2>13 DEF vars, TypeOK
  <2> QED BY <2>1, <2>2, <2>3, <2>4, <2>5, <2>6, <2>7, <2>8, <2>9, <2>10, <2>11, <2>12, <2>13,
          FeedConn DEF Next, Produce, ProducerStep, FinishFeed, PumpStep, PeerGone
<1> QED BY <1>1, <1>2, PTL DEF Spec

-----------------------------------------------------------------------------
(* The accounting.  NothingHidden and NothingCountedTwice are not          *)
(* inductive: taking a frame from the queue keeps them only if the queue   *)
(* holds it once, counting one only if no other producer holds it.  Ledger *)
(* adds both.                                                              *)

Others(feed) ==
  UNION {Holding(g) : g \in {x \in Feeds : ConnOf(x) = ConnOf(feed) /\ x # feed}}

Complete(c) ==
  1 .. offered[c] =
    Written(c) \cup Reported(c) \cup dropped[c] \cup Elems(frames[c]) \cup InHand(c) \cup HeldFor(c)

Once(c) ==
  /\ Written(c) \cap (Reported(c) \cup dropped[c]) = {}
  /\ Reported(c) \cap dropped[c] = {}
  /\ (Elems(frames[c]) \cup InHand(c) \cup HeldFor(c))
       \cap (Written(c) \cup Reported(c) \cup dropped[c]) = {}
  /\ Elems(frames[c]) \cap (InHand(c) \cup HeldFor(c)) = {}
  /\ InHand(c) \cap HeldFor(c) = {}

Exclusive(c) ==
  \A f, g \in Feeds : (ConnOf(f) = c /\ ConnOf(g) = c /\ f # g) => Holding(f) \cap Holding(g) = {}

Ledger(c) == Complete(c) /\ Once(c) /\ Distinct(frames[c]) /\ Exclusive(c)

Accounted == \A c \in Conns : pump[c] # "stopped" => Ledger(c)

LEMMA HeldSplit ==
  ASSUME NEW feed \in Feeds
  PROVE  HeldFor(ConnOf(feed)) = Others(feed) \cup Holding(feed)
BY DEF HeldFor, Others

(* A step that leaves a connection and its producers alone keeps its       *)
(* ledger.                                                                 *)
LEMMA LedgerFrame ==
  ASSUME NEW c \in Conns, Ledger(c),
         offered'[c] = offered[c], frames'[c] = frames[c], dropped'[c] = dropped[c],
         pump'[c] = pump[c], hand'[c] = hand[c], wire'[c] = wire[c],
         \A g \in Feeds : ConnOf(g) = c => sending'[g] = sending[g]
  PROVE  Ledger(c)'
<1>1. \A g \in Feeds : ConnOf(g) = c => Holding(g)' = Holding(g)
  BY DEF Holding
<1>2. HeldFor(c)' = HeldFor(c)
  BY <1>1 DEF HeldFor
<1>3. Written(c)' = Written(c) /\ Reported(c)' = Reported(c) /\ InHand(c)' = InHand(c)
  BY DEF Written, Reported, InHand
<1>4. Complete(c)'
  BY <1>2, <1>3 DEF Ledger, Complete
<1>5. Once(c)'
  BY <1>2, <1>3 DEF Ledger, Once
<1>6. Exclusive(c)'
  BY <1>1 DEF Ledger, Exclusive
<1> QED BY <1>4, <1>5, <1>6 DEF Ledger

(* What a step of one producer has to show: the frames that were queued,   *)
(* counted or in its hands, and perhaps a new one, still are, each in one  *)
(* place.                                                                  *)
LEMMA LedgerProducer ==
  ASSUME NEW feed \in Feeds, NEW c \in Conns, c = ConnOf(feed), Ledger(c), NEW N,
         \A g \in Feeds \ {feed} : sending'[g] = sending[g],
         pump'[c] = pump[c], hand'[c] = hand[c], wire'[c] = wire[c],
         N \cap (1 .. offered[c]) = {},
         1 .. offered'[c] = (1 .. offered[c]) \cup N,
         Elems(frames'[c]) \cup dropped'[c] \cup Holding(feed)'
           = Elems(frames[c]) \cup dropped[c] \cup Holding(feed) \cup N,
         Elems(frames'[c]) \cap dropped'[c] = {},
         Elems(frames'[c]) \cap Holding(feed)' = {},
         dropped'[c] \cap Holding(feed)' = {},
         Distinct(frames'[c])
  PROVE  Ledger(c)'
<1>1. \A g \in Feeds \ {feed} : Holding(g)' = Holding(g)
  BY DEF Holding
<1>2. Others(feed)' = Others(feed)
  BY <1>1 DEF Others
<1>3. HeldFor(c) = Others(feed) \cup Holding(feed) /\ HeldFor(c)' = Others(feed) \cup Holding(feed)'
  BY <1>2, HeldSplit DEF HeldFor, Others
<1>4. Written(c)' = Written(c) /\ Reported(c)' = Reported(c) /\ InHand(c)' = InHand(c)
  BY DEF Written, Reported, InHand
<1>5. Others(feed) \cap Holding(feed) = {}
  BY DEF Ledger, Exclusive, Others
<1>6. Others(feed) \cap Holding(feed)' = {}
  BY <1>3, <1>5 DEF Ledger, Complete, Once
<1>7. Complete(c)'
  BY <1>3, <1>4 DEF Ledger, Complete
<1>8. Once(c)'
  BY <1>3, <1>4, <1>5, <1>6 DEF Ledger, Complete, Once
<1>9. Exclusive(c)'
  <2> SUFFICES ASSUME NEW f \in Feeds, NEW g \in Feeds, ConnOf(f) = c, ConnOf(g) = c, f # g
               PROVE  Holding(f)' \cap Holding(g)' = {}
    BY DEF Exclusive
  <2>1. CASE f # feed /\ g # feed
    BY <2>1, <1>1 DEF Ledger, Exclusive
  <2>2. CASE f = feed
    <3>1. Holding(g) \subseteq Others(feed)
      BY <2>2 DEF Others
    <3> QED BY <3>1, <2>2, <1>1, <1>6
  <2>3. CASE g = feed
    <3>1. Holding(f) \subseteq Others(feed)
      BY <2>3 DEF Others
    <3> QED BY <3>1, <2>3, <1>1, <1>6
  <2> QED BY <2>1, <2>2, <2>3
<1> QED BY <1>7, <1>8, <1>9 DEF Ledger

(* What a producer holds, by where it is.                                  *)
LEMMA HoldingInside ==
  ASSUME NEW feed \in Feeds
  PROVE  /\ sending[feed].at = "idle" => Holding(feed) = {}
         /\ sending[feed].at = "count" => Holding(feed) = {sending[feed].frame, sending[feed].victim}
         /\ sending[feed].at \in {"evict", "retry"} => Holding(feed) = {sending[feed].frame}
BY DEF Holding

LEMMA HoldingNext ==
  ASSUME TypeOK, NEW feed \in Feeds, NEW n \in Nat, NEW v \in Nat
  PROVE  /\ sending' = [sending EXCEPT ![feed] = Idle] => Holding(feed)' = {}
         /\ sending' = [sending EXCEPT ![feed] = Inside("count", n, v)] => Holding(feed)' = {n, v}
         /\ \A at \in {"evict", "retry"} :
              sending' = [sending EXCEPT ![feed] = Inside(at, n, v)] => Holding(feed)' = {n}
<1>1. ASSUME sending' = [sending EXCEPT ![feed] = Idle] PROVE Holding(feed)' = {}
  <2>1. sending'[feed].at = "idle"
    BY <1>1, IdleType DEF TypeOK
  <2> QED BY <2>1 DEF Holding
<1>2. ASSUME sending' = [sending EXCEPT ![feed] = Inside("count", n, v)]
      PROVE  Holding(feed)' = {n, v}
  <2>1. sending'[feed] = Inside("count", n, v)
    BY <1>2 DEF TypeOK
  <2>2. sending'[feed].at = "count" /\ sending'[feed].frame = n /\ sending'[feed].victim = v
    BY <2>1, InsideType
  <2> QED BY <2>2 DEF Holding
<1>3. ASSUME NEW at \in {"evict", "retry"},
             sending' = [sending EXCEPT ![feed] = Inside(at, n, v)]
      PROVE  Holding(feed)' = {n}
  <2>1. sending'[feed] = Inside(at, n, v)
    BY <1>3 DEF TypeOK
  <2>2. sending'[feed].at = at /\ sending'[feed].frame = n
    BY <2>1, InsideType
  <2> QED BY <2>2 DEF Holding
<1> QED BY <1>1, <1>2, <1>3

(* One step of a producer touches the ledger of its own connection only.   *)
LEMMA OtherConns ==
  ASSUME Accounted, NEW feed \in Feeds,
         \A g \in Feeds \ {feed} : sending'[g] = sending[g],
         UNCHANGED <<pump, hand, wire>>,
         \A d \in Conns \ {ConnOf(feed)} :
           offered'[d] = offered[d] /\ frames'[d] = frames[d] /\ dropped'[d] = dropped[d],
         pump[ConnOf(feed)] # "stopped" => Ledger(ConnOf(feed))'
  PROVE  Accounted'
<1> SUFFICES ASSUME NEW d \in Conns, pump[d] # "stopped" PROVE Ledger(d)'
  BY DEF Accounted
<1>1. CASE d = ConnOf(feed)
  BY <1>1
<1>2. CASE d # ConnOf(feed)
  <2>1. \A g \in Feeds : ConnOf(g) = d => sending'[g] = sending[g]
    BY <1>2
  <2>2. Ledger(d)
    BY DEF Accounted
  <2> QED BY <1>2, <2>1, <2>2, LedgerFrame
<1> QED BY <1>1, <1>2

LEMMA SendAccounted ==
  ASSUME TypeOK, Accounted, NEW feed \in Feeds, Send(feed)
  PROVE  Accounted'
<1> DEFINE c == ConnOf(feed)
           n == offered[c] + 1
<1>1. c \in Conns /\ n \in Nat /\ offered[c] \in Nat /\ frames[c] \in Seq(Nat)
  BY FeedConn DEF TypeOK
<1>2. /\ offered' = [offered EXCEPT ![c] = n]
      /\ \/ frames' = [frames EXCEPT ![c] = Append(frames[c], n)] /\ sending' = sending
         \/ frames' = frames /\ sending' = [sending EXCEPT ![feed] = Inside("evict", n, 0)]
      /\ UNCHANGED <<dropped, pump, hand, wire>>
      /\ sending[feed].at = "idle"
  BY DEF Send
<1>3. Holding(feed) = {}
  BY <1>2, HoldingInside
<1>4. \A g \in Feeds \ {feed} : sending'[g] = sending[g]
  BY <1>2 DEF TypeOK
<1>5. \A d \in Conns \ {c} :
        offered'[d] = offered[d] /\ frames'[d] = frames[d] /\ dropped'[d] = dropped[d]
  BY <1>2 DEF TypeOK
<1>6. ASSUME pump[c] # "stopped" PROVE Ledger(c)'
  <2>1. Ledger(c)
    BY <1>1, <1>6 DEF Accounted
  <2>2. offered'[c] = n
    BY <1>1, <1>2 DEF TypeOK
  <2>3. {n} \cap (1 .. offered[c]) = {} /\ 1 .. offered'[c] = (1 .. offered[c]) \cup {n}
    BY <1>1, <2>2
  <2>4. n \notin Elems(frames[c]) \cup dropped[c]
    BY <2>1, <2>3 DEF Ledger, Complete
  <2>5. Elems(frames[c]) \cap dropped[c] = {} /\ Distinct(frames[c])
    BY <2>1 DEF Ledger, Once
  <2>6. CASE frames' = [frames EXCEPT ![c] = Append(frames[c], n)] /\ sending' = sending
    <3>1. frames'[c] = Append(frames[c], n)
      BY <2>6, <1>1 DEF TypeOK
    <3>2. Elems(frames'[c]) = Elems(frames[c]) \cup {n}
      BY <3>1, <1>1, ElemsAppend
    <3>3. Distinct(frames'[c])
      BY <3>1, <1>1, <2>4, <2>5, DistinctAppend
    <3>4. Holding(feed)' = {}
      BY <2>6, <1>3 DEF Holding
    <3>5. pump'[c] = pump[c] /\ hand'[c] = hand[c] /\ wire'[c] = wire[c] /\ dropped'[c] = dropped[c]
      BY <1>2
    <3> HIDE DEF n
    <3>6. /\ Elems(frames'[c]) \cup dropped'[c] \cup Holding(feed)'
               = Elems(frames[c]) \cup dropped[c] \cup Holding(feed) \cup {n}
          /\ Elems(frames'[c]) \cap dropped'[c] = {}
          /\ Elems(frames'[c]) \cap Holding(feed)' = {}
          /\ dropped'[c] \cap Holding(feed)' = {}
      BY <1>3, <2>4, <2>5, <3>2, <3>4, <3>5
    <3> QED BY <1>1, <1>4, <2>1, <2>3, <3>3, <3>5, <3>6, LedgerProducer
  <2>7. CASE frames' = frames /\ sending' = [sending EXCEPT ![feed] = Inside("evict", n, 0)]
    <3>1. Holding(feed)' = {n}
      BY <2>7, <1>1, HoldingNext
    <3>2. /\ pump'[c] = pump[c] /\ hand'[c] = hand[c] /\ wire'[c] = wire[c]
          /\ dropped'[c] = dropped[c] /\ frames'[c] = frames[c]
      BY <1>2, <2>7
    <3>3. Elems(frames'[c]) = Elems(frames[c])
      BY <3>2
    <3> HIDE DEF n
    <3>4. /\ Elems(frames'[c]) \cup dropped'[c] \cup Holding(feed)'
               = Elems(frames[c]) \cup dropped[c] \cup Holding(feed) \cup {n}
          /\ Elems(frames'[c]) \cap dropped'[c] = {}
          /\ Elems(frames'[c]) \cap Holding(feed)' = {}
          /\ dropped'[c] \cap Holding(feed)' = {}
          /\ Distinct(frames'[c])
      BY <1>3, <2>4, <2>5, <3>1, <3>2, <3>3
    <3> QED BY <1>1, <1>4, <2>1, <2>3, <3>2, <3>4, LedgerProducer
  <2> QED BY <1>2, <2>6, <2>7
<1> QED BY <1>2, <1>4, <1>5, <1>6, OtherConns

LEMMA EvictAccounted ==
  ASSUME TypeOK, Accounted, NEW feed \in Feeds, Evict(feed)
  PROVE  Accounted'
<1> DEFINE c == ConnOf(feed)
           n == sending[feed].frame
           h == Head(frames[c])
<1>1. c \in Conns /\ n \in Nat /\ frames[c] \in Seq(Nat)
  BY FeedConn, SendingType DEF TypeOK
<1>2. /\ \/ /\ frames[c] # <<>>
            /\ frames' = [frames EXCEPT ![c] = Tail(frames[c])]
            /\ sending' = [sending EXCEPT ![feed] = Inside("count", n, h)]
         \/ /\ frames' = frames
            /\ sending' = [sending EXCEPT ![feed] = Inside("retry", n, 0)]
      /\ UNCHANGED <<offered, dropped, pump, hand, wire>>
      /\ sending[feed].at = "evict"
  BY DEF Evict
<1>4. \A g \in Feeds \ {feed} : sending'[g] = sending[g]
  BY <1>2 DEF TypeOK
<1>5. \A d \in Conns \ {c} :
        offered'[d] = offered[d] /\ frames'[d] = frames[d] /\ dropped'[d] = dropped[d]
  BY <1>2 DEF TypeOK
<1>6. ASSUME pump[c] # "stopped" PROVE Ledger(c)'
  <2>1. Ledger(c)
    BY <1>1, <1>6 DEF Accounted
  <2>2. offered'[c] = offered[c] /\ 1 .. offered'[c] = (1 .. offered[c]) \cup {}
        /\ {} \cap (1 .. offered[c]) = {}
    BY <1>2
  <2>3. /\ Elems(frames[c]) \cap dropped[c] = {}
        /\ Holding(feed) \cap (Elems(frames[c]) \cup dropped[c]) = {}
        /\ Distinct(frames[c])
    BY <2>1, HeldSplit DEF Ledger, Once
  <2>4. Holding(feed) = {n}
    BY <1>2, HoldingInside
  <2>5. CASE /\ frames[c] # <<>>
             /\ frames' = [frames EXCEPT ![c] = Tail(frames[c])]
             /\ sending' = [sending EXCEPT ![feed] = Inside("count", n, h)]
    <3>1. h \in Nat /\ Elems(frames[c]) = Elems(Tail(frames[c])) \cup {h}
      BY <1>1, <2>5, ElemsTail
    <3>2. Distinct(Tail(frames[c])) /\ h \notin Elems(Tail(frames[c]))
      BY <1>1, <2>3, <2>5, DistinctTail
    <3>3. frames'[c] = Tail(frames[c]) /\ dropped'[c] = dropped[c]
      BY <1>1, <1>2, <2>5 DEF TypeOK
    <3>4. Holding(feed)' = {n, h} /\ Holding(feed) = {n}
      BY <1>1, <2>4, <2>5, <3>1, HoldingNext
    <3>5. pump'[c] = pump[c] /\ hand'[c] = hand[c] /\ wire'[c] = wire[c]
      BY <1>2
    <3>6. /\ Elems(frames'[c]) \cup dropped'[c] \cup Holding(feed)'
               = Elems(frames[c]) \cup dropped[c] \cup Holding(feed) \cup {}
          /\ Elems(frames'[c]) \cap dropped'[c] = {}
          /\ Elems(frames'[c]) \cap Holding(feed)' = {}
          /\ dropped'[c] \cap Holding(feed)' = {}
          /\ Distinct(frames'[c])
      BY <2>3, <3>1, <3>2, <3>3, <3>4
    <3> QED BY <1>1, <1>4, <2>1, <2>2, <3>5, <3>6, LedgerProducer
  <2>6. CASE /\ frames' = frames
             /\ sending' = [sending EXCEPT ![feed] = Inside("retry", n, 0)]
    <3>1. frames'[c] = frames[c] /\ dropped'[c] = dropped[c]
      BY <1>2, <2>6
    <3>2. Holding(feed)' = {n} /\ Holding(feed) = {n}
      BY <1>1, <2>4, <2>6, HoldingNext
    <3>3. pump'[c] = pump[c] /\ hand'[c] = hand[c] /\ wire'[c] = wire[c]
      BY <1>2
    <3>4. /\ Elems(frames'[c]) \cup dropped'[c] \cup Holding(feed)'
               = Elems(frames[c]) \cup dropped[c] \cup Holding(feed) \cup {}
          /\ Elems(frames'[c]) \cap dropped'[c] = {}
          /\ Elems(frames'[c]) \cap Holding(feed)' = {}
          /\ dropped'[c] \cap Holding(feed)' = {}
          /\ Distinct(frames'[c])
      BY <2>3, <3>1, <3>2
    <3> QED BY <1>1, <1>4, <2>1, <2>2, <3>3, <3>4, LedgerProducer
  <2> QED BY <1>2, <2>5, <2>6
<1> QED BY <1>2, <1>4, <1>5, <1>6, OtherConns

LEMMA CountAccounted ==
  ASSUME TypeOK, Accounted, NEW feed \in Feeds, Count(feed)
  PROVE  Accounted'
<1> DEFINE c == ConnOf(feed)
           n == sending[feed].frame
           v == sending[feed].victim
<1>1. c \in Conns /\ n \in Nat /\ v \in Nat
  BY FeedConn, SendingType DEF TypeOK
<1>2. /\ dropped' = [dropped EXCEPT ![c] = dropped[c] \cup {v}]
      /\ \/ v = n /\ sending' = [sending EXCEPT ![feed] = Idle]
         \/ v # n /\ sending' = [sending EXCEPT ![feed] = Inside("retry", n, 0)]
      /\ UNCHANGED <<offered, frames, pump, hand, wire>>
      /\ sending[feed].at = "count"
  BY DEF Count
<1>4. \A g \in Feeds \ {feed} : sending'[g] = sending[g]
  BY <1>2 DEF TypeOK
<1>5. \A d \in Conns \ {c} :
        offered'[d] = offered[d] /\ frames'[d] = frames[d] /\ dropped'[d] = dropped[d]
  BY <1>2 DEF TypeOK
<1>6. ASSUME pump[c] # "stopped" PROVE Ledger(c)'
  <2>1. Ledger(c)
    BY <1>1, <1>6 DEF Accounted
  <2>2. offered'[c] = offered[c] /\ 1 .. offered'[c] = (1 .. offered[c]) \cup {}
        /\ {} \cap (1 .. offered[c]) = {}
    BY <1>2
  <2>3. /\ Elems(frames[c]) \cap dropped[c] = {}
        /\ Holding(feed) \cap (Elems(frames[c]) \cup dropped[c]) = {}
        /\ Distinct(frames[c])
    BY <2>1, HeldSplit DEF Ledger, Once
  <2>4. Holding(feed) = {n, v}
    BY <1>2, HoldingInside
  <2>5. dropped'[c] = dropped[c] \cup {v} /\ frames'[c] = frames[c]
    BY <1>1, <1>2 DEF TypeOK
  <2>6. CASE v = n /\ sending' = [sending EXCEPT ![feed] = Idle]
    <3>1. Holding(feed)' = {}
      BY <1>1, <2>6, HoldingNext
    <3>2. v = n /\ Holding(feed) = {n, v} /\ dropped'[c] = dropped[c] \cup {v} /\ frames'[c] = frames[c]
      BY <2>4, <2>5, <2>6
    <3>3. pump'[c] = pump[c] /\ hand'[c] = hand[c] /\ wire'[c] = wire[c]
      BY <1>2
    <3>4. /\ Elems(frames'[c]) \cup dropped'[c] \cup Holding(feed)'
               = Elems(frames[c]) \cup dropped[c] \cup Holding(feed) \cup {}
          /\ Elems(frames'[c]) \cap dropped'[c] = {}
          /\ Elems(frames'[c]) \cap Holding(feed)' = {}
          /\ dropped'[c] \cap Holding(feed)' = {}
          /\ Distinct(frames'[c])
      BY <2>3, <3>1, <3>2
    <3> QED BY <1>1, <1>4, <2>1, <2>2, <3>3, <3>4, LedgerProducer
  <2>7. CASE v # n /\ sending' = [sending EXCEPT ![feed] = Inside("retry", n, 0)]
    <3>1. Holding(feed)' = {n}
      BY <1>1, <2>7, HoldingNext
    <3>2. v # n /\ Holding(feed) = {n, v} /\ dropped'[c] = dropped[c] \cup {v} /\ frames'[c] = frames[c]
      BY <2>4, <2>5, <2>7
    <3>3. pump'[c] = pump[c] /\ hand'[c] = hand[c] /\ wire'[c] = wire[c]
      BY <1>2
    <3>4. /\ Elems(frames'[c]) \cup dropped'[c] \cup Holding(feed)'
               = Elems(frames[c]) \cup dropped[c] \cup Holding(feed) \cup {}
          /\ Elems(frames'[c]) \cap dropped'[c] = {}
          /\ Elems(frames'[c]) \cap Holding(feed)' = {}
          /\ dropped'[c] \cap Holding(feed)' = {}
          /\ Distinct(frames'[c])
      BY <2>3, <3>1, <3>2
    <3> QED BY <1>1, <1>4, <2>1, <2>2, <3>3, <3>4, LedgerProducer
  <2> QED BY <1>2, <2>6, <2>7
<1> QED BY <1>2, <1>4, <1>5, <1>6, OtherConns

LEMMA RetryAccounted ==
  ASSUME TypeOK, Accounted, NEW feed \in Feeds, Retry(feed)
  PROVE  Accounted'
<1> DEFINE c == ConnOf(feed)
           n == sending[feed].frame
<1>1. c \in Conns /\ n \in Nat /\ frames[c] \in Seq(Nat)
  BY FeedConn, SendingType DEF TypeOK
<1>2. /\ \/ /\ frames' = [frames EXCEPT ![c] = Append(frames[c], n)]
            /\ sending' = [sending EXCEPT ![feed] = Idle]
         \/ /\ frames' = frames
            /\ sending' = [sending EXCEPT ![feed] = Inside("count", n, n)]
      /\ UNCHANGED <<offered, dropped, pump, hand, wire>>
      /\ sending[feed].at = "retry"
  BY DEF Retry
<1>4. \A g \in Feeds \ {feed} : sending'[g] = sending[g]
  BY <1>2 DEF TypeOK
<1>5. \A d \in Conns \ {c} :
        offered'[d] = offered[d] /\ frames'[d] = frames[d] /\ dropped'[d] = dropped[d]
  BY <1>2 DEF TypeOK
<1>6. ASSUME pump[c] # "stopped" PROVE Ledger(c)'
  <2>1. Ledger(c)
    BY <1>1, <1>6 DEF Accounted
  <2>2. offered'[c] = offered[c] /\ 1 .. offered'[c] = (1 .. offered[c]) \cup {}
        /\ {} \cap (1 .. offered[c]) = {}
    BY <1>2
  <2>3. /\ Elems(frames[c]) \cap dropped[c] = {}
        /\ Holding(feed) \cap (Elems(frames[c]) \cup dropped[c]) = {}
        /\ Distinct(frames[c])
    BY <2>1, HeldSplit DEF Ledger, Once
  <2>4. Holding(feed) = {n}
    BY <1>2, HoldingInside
  <2>5. CASE /\ frames' = [frames EXCEPT ![c] = Append(frames[c], n)]
             /\ sending' = [sending EXCEPT ![feed] = Idle]
    <3>1. frames'[c] = Append(frames[c], n) /\ dropped'[c] = dropped[c]
      BY <1>1, <1>2, <2>5 DEF TypeOK
    <3>2. Elems(frames'[c]) = Elems(frames[c]) \cup {n}
      BY <1>1, <3>1, ElemsAppend
    <3>3. Distinct(frames'[c])
      BY <1>1, <2>3, <2>4, <3>1, DistinctAppend
    <3>4. Holding(feed)' = {} /\ Holding(feed) = {n}
      BY <1>1, <2>4, <2>5, HoldingNext
    <3>5. pump'[c] = pump[c] /\ hand'[c] = hand[c] /\ wire'[c] = wire[c]
      BY <1>2
    <3>6. /\ Elems(frames'[c]) \cup dropped'[c] \cup Holding(feed)'
               = Elems(frames[c]) \cup dropped[c] \cup Holding(feed) \cup {}
          /\ Elems(frames'[c]) \cap dropped'[c] = {}
          /\ Elems(frames'[c]) \cap Holding(feed)' = {}
          /\ dropped'[c] \cap Holding(feed)' = {}
          /\ Distinct(frames'[c])
      BY <2>3, <3>1, <3>2, <3>3, <3>4
    <3> QED BY <1>1, <1>4, <2>1, <2>2, <3>5, <3>6, LedgerProducer
  <2>6. CASE /\ frames' = frames
             /\ sending' = [sending EXCEPT ![feed] = Inside("count", n, n)]
    <3>1. frames'[c] = frames[c] /\ dropped'[c] = dropped[c]
      BY <1>2, <2>6
    <3>2. Holding(feed)' = {n} /\ Holding(feed) = {n}
      BY <1>1, <2>4, <2>6, HoldingNext
    <3>3. pump'[c] = pump[c] /\ hand'[c] = hand[c] /\ wire'[c] = wire[c]
      BY <1>2
    <3>4. /\ Elems(frames'[c]) \cup dropped'[c] \cup Holding(feed)'
               = Elems(frames[c]) \cup dropped[c] \cup Holding(feed) \cup {}
          /\ Elems(frames'[c]) \cap dropped'[c] = {}
          /\ Elems(frames'[c]) \cap Holding(feed)' = {}
          /\ dropped'[c] \cap Holding(feed)' = {}
          /\ Distinct(frames'[c])
      BY <2>3, <3>1, <3>2
    <3> QED BY <1>1, <1>4, <2>1, <2>2, <3>3, <3>4, LedgerProducer
  <2> QED BY <1>2, <2>5, <2>6
<1> QED BY <1>2, <1>4, <1>5, <1>6, OtherConns

-----------------------------------------------------------------------------
(* The pump's half of the accounting.                                      *)

LEMMA WireAppend ==
  ASSUME TypeOK, TypeOK', NEW c \in Conns, NEW m \in Message, wire'[c] = Append(wire[c], m)
  PROVE  /\ Written(c)' = Written(c) \cup (IF m.kind = "data" THEN {m.frame} ELSE {})
         /\ Reported(c)' = Reported(c) \cup m.lost
<1>1. wire[c] \in Seq(Message)
  BY DEF TypeOK
<1>2. Elems(wire'[c]) = Elems(wire[c]) \cup {m}
  BY <1>1, ElemsAppend
<1>3. Written(c)' = Written(c) \cup (IF m.kind = "data" THEN {m.frame} ELSE {})
  BY <1>2 DEF Written
<1>4. Reported(c)' = Reported(c) \cup m.lost
  BY <1>2 DEF Reported
<1> QED BY <1>3, <1>4

(* What a step of the pump has to show.                                    *)
LEMMA LedgerPump ==
  ASSUME NEW c \in Conns, Ledger(c), sending' = sending, offered' = offered,
         Written(c)' \cup Reported(c)' \cup dropped'[c] \cup Elems(frames'[c]) \cup InHand(c)'
           = Written(c) \cup Reported(c) \cup dropped[c] \cup Elems(frames[c]) \cup InHand(c),
         Written(c)' \cap (Reported(c)' \cup dropped'[c]) = {},
         Reported(c)' \cap dropped'[c] = {},
         (Elems(frames'[c]) \cup InHand(c)')
           \cap (Written(c)' \cup Reported(c)' \cup dropped'[c]) = {},
         Elems(frames'[c]) \cap InHand(c)' = {},
         Distinct(frames'[c])
  PROVE  Ledger(c)'
<1>1. \A g \in Feeds : Holding(g)' = Holding(g)
  BY DEF Holding
<1>2. HeldFor(c)' = HeldFor(c)
  BY <1>1 DEF HeldFor
<1>3. Complete(c)'
  BY <1>2 DEF Ledger, Complete
<1>4. Once(c)'
  BY <1>2 DEF Ledger, Once
<1>5. Exclusive(c)'
  BY <1>1 DEF Ledger, Exclusive
<1> QED BY <1>3, <1>4, <1>5 DEF Ledger

LEMMA OtherPumps ==
  ASSUME Accounted, NEW c \in Conns,
         sending' = sending, offered' = offered,
         \A d \in Conns \ {c} :
           /\ frames'[d] = frames[d] /\ dropped'[d] = dropped[d] /\ pump'[d] = pump[d]
           /\ hand'[d] = hand[d] /\ wire'[d] = wire[d],
         pump'[c] # "stopped" => Ledger(c)'
  PROVE  Accounted'
<1> SUFFICES ASSUME NEW d \in Conns, pump'[d] # "stopped" PROVE Ledger(d)'
  BY DEF Accounted
<1>1. CASE d = c
  BY <1>1
<1>2. CASE d # c
  <2>1. Ledger(d)
    BY <1>2 DEF Accounted
  <2> QED BY <1>2, <2>1, LedgerFrame
<1> QED BY <1>1, <1>2

LEMMA TakeAccounted ==
  ASSUME TypeOK, TypeOK', Accounted, NEW c \in Conns, Take(c)
  PROVE  Accounted'
<1> DEFINE h == Head(frames[c])
<1>1. /\ pump[c] = "select" /\ frames[c] # <<>>
      /\ hand' = [hand EXCEPT ![c] = h]
      /\ frames' = [frames EXCEPT ![c] = Tail(frames[c])]
      /\ pump' = [pump EXCEPT ![c] = "mark"]
      /\ UNCHANGED <<offered, dropped, sending, wire>>
  BY DEF Take
<1>2. \A d \in Conns \ {c} :
        /\ frames'[d] = frames[d] /\ dropped'[d] = dropped[d] /\ pump'[d] = pump[d]
        /\ hand'[d] = hand[d] /\ wire'[d] = wire[d]
  BY <1>1 DEF TypeOK
<1>3. Ledger(c)
  BY <1>1 DEF Accounted
<1>4. frames'[c] = Tail(frames[c]) /\ pump'[c] = "mark" /\ hand'[c] = h /\ frames[c] \in Seq(Nat)
  BY <1>1 DEF TypeOK
<1>5. InHand(c) = {} /\ InHand(c)' = {h}
  BY <1>1, <1>4 DEF InHand
<1>6. /\ Elems(frames[c]) = Elems(frames'[c]) \cup {h}
      /\ h \notin Elems(frames'[c])
      /\ Distinct(frames'[c])
  BY <1>1, <1>3, <1>4, ElemsTail, DistinctTail DEF Ledger
<1>7. Written(c)' = Written(c) /\ Reported(c)' = Reported(c) /\ dropped'[c] = dropped[c]
  BY <1>1 DEF Written, Reported
<1>8. Ledger(c)'
  <2>1. /\ Written(c)' \cup Reported(c)' \cup dropped'[c] \cup Elems(frames'[c]) \cup InHand(c)'
             = Written(c) \cup Reported(c) \cup dropped[c] \cup Elems(frames[c]) \cup InHand(c)
        /\ Written(c)' \cap (Reported(c)' \cup dropped'[c]) = {}
        /\ Reported(c)' \cap dropped'[c] = {}
        /\ (Elems(frames'[c]) \cup InHand(c)')
             \cap (Written(c)' \cup Reported(c)' \cup dropped'[c]) = {}
        /\ Elems(frames'[c]) \cap InHand(c)' = {}
    BY <1>3, <1>5, <1>6, <1>7 DEF Ledger, Once
  <2> QED BY <1>1, <1>3, <1>6, <2>1, LedgerPump
<1> QED BY <1>1, <1>2, <1>8, OtherPumps

LEMMA TakeEndAccounted ==
  ASSUME TypeOK, Accounted, NEW c \in Conns, TakeEnd(c)
  PROVE  Accounted'
<1>1. /\ pump[c] = "select"
      /\ pump' = [pump EXCEPT ![c] = "drain"]
      /\ UNCHANGED <<offered, frames, dropped, sending, hand, wire>>
  BY DEF TakeEnd
<1>2. \A d \in Conns \ {c} :
        /\ frames'[d] = frames[d] /\ dropped'[d] = dropped[d] /\ pump'[d] = pump[d]
        /\ hand'[d] = hand[d] /\ wire'[d] = wire[d]
  BY <1>1 DEF TypeOK
<1>3. Ledger(c)
  BY <1>1 DEF Accounted
<1>4. InHand(c) = {} /\ InHand(c)' = {}
  <2>1. pump'[c] = "drain"
    BY <1>1 DEF TypeOK
  <2> QED BY <1>1, <2>1 DEF InHand
<1>5. /\ Written(c)' = Written(c) /\ Reported(c)' = Reported(c) /\ dropped'[c] = dropped[c]
      /\ frames'[c] = frames[c]
  BY <1>1 DEF Written, Reported
<1>6. Ledger(c)'
  BY <1>1, <1>3, <1>4, <1>5, LedgerPump DEF Ledger, Once
<1> QED BY <1>1, <1>2, <1>6, OtherPumps

(* A pump that stops owes nothing more.                                    *)
LEMMA StopAccounted ==
  ASSUME TypeOK, Accounted, NEW c \in Conns,
         pump' = [pump EXCEPT ![c] = "stopped"],
         sending' = sending, offered' = offered, frames' = frames, hand' = hand,
         \A d \in Conns \ {c} : dropped'[d] = dropped[d] /\ wire'[d] = wire[d]
  PROVE  Accounted'
<1>1. pump'[c] = "stopped" /\ \A d \in Conns \ {c} : pump'[d] = pump[d]
  BY DEF TypeOK
<1> QED BY <1>1, OtherPumps

LEMMA MarkAccounted ==
  ASSUME TypeOK, TypeOK', Accounted, NEW c \in Conns, Mark(c)
  PROVE  Accounted'
<1> DEFINE next == IF pump[c] = "mark" THEN "write" ELSE "closing"
<1>1. /\ pump[c] \in {"mark", "drain"}
      /\ dropped' = [dropped EXCEPT ![c] = {}]
      /\ \/ /\ \/ dropped[c] = {} /\ wire' = wire
               \/ wire' = [wire EXCEPT ![c] = Append(wire[c], Resync(dropped[c]))]
            /\ pump' = [pump EXCEPT ![c] = next]
         \/ pump' = [pump EXCEPT ![c] = "stopped"] /\ wire' = wire
      /\ UNCHANGED <<offered, frames, sending, hand>>
  BY DEF Mark, Stop
<1>2. \A d \in Conns \ {c} : dropped'[d] = dropped[d] /\ wire'[d] = wire[d]
  BY <1>1 DEF TypeOK
<1>3. CASE pump' = [pump EXCEPT ![c] = "stopped"]
  BY <1>1, <1>2, <1>3, StopAccounted
<1>4. CASE /\ \/ dropped[c] = {} /\ wire' = wire
              \/ wire' = [wire EXCEPT ![c] = Append(wire[c], Resync(dropped[c]))]
           /\ pump' = [pump EXCEPT ![c] = next]
  <2>1. Ledger(c)
    BY <1>1 DEF Accounted
  <2>2. pump'[c] = next /\ hand'[c] = hand[c] /\ dropped'[c] = {} /\ frames'[c] = frames[c]
    BY <1>1, <1>4 DEF TypeOK
  <2>3. InHand(c)' = InHand(c)
    BY <1>1, <2>2 DEF InHand
  <2>4. Written(c)' = Written(c) /\ Reported(c)' = Reported(c) \cup dropped[c]
    <3>1. CASE dropped[c] = {} /\ wire' = wire
      BY <3>1 DEF Written, Reported
    <3>2. CASE wire' = [wire EXCEPT ![c] = Append(wire[c], Resync(dropped[c]))]
      <4>1. wire'[c] = Append(wire[c], Resync(dropped[c]))
        BY <3>2 DEF TypeOK
      <4>2. dropped[c] \in SUBSET Nat
        BY DEF TypeOK
      <4>3. Resync(dropped[c]) \in Message
        BY <4>2, MessageType
      <4>4. Resync(dropped[c]).kind = "resync" /\ Resync(dropped[c]).lost = dropped[c]
        BY DEF Resync
      <4> QED BY <4>1, <4>3, <4>4, WireAppend
    <3> QED BY <1>4, <3>1, <3>2
  <2>5. Ledger(c)'
    <3>1. /\ Written(c)' \cup Reported(c)' \cup dropped'[c] \cup Elems(frames'[c]) \cup InHand(c)'
               = Written(c) \cup Reported(c) \cup dropped[c] \cup Elems(frames[c]) \cup InHand(c)
          /\ Written(c)' \cap (Reported(c)' \cup dropped'[c]) = {}
          /\ Reported(c)' \cap dropped'[c] = {}
          /\ (Elems(frames'[c]) \cup InHand(c)')
               \cap (Written(c)' \cup Reported(c)' \cup dropped'[c]) = {}
          /\ Elems(frames'[c]) \cap InHand(c)' = {}
          /\ Distinct(frames'[c])
      BY <2>1, <2>2, <2>3, <2>4 DEF Ledger, Once
    <3> QED BY <1>1, <2>1, <3>1, LedgerPump
  <2>6. \A d \in Conns \ {c} :
          /\ frames'[d] = frames[d] /\ dropped'[d] = dropped[d] /\ pump'[d] = pump[d]
          /\ hand'[d] = hand[d] /\ wire'[d] = wire[d]
    BY <1>1, <1>2, <1>4 DEF TypeOK
  <2> QED BY <1>1, <2>5, <2>6, OtherPumps
<1> QED BY <1>1, <1>3, <1>4

LEMMA WriteAccounted ==
  ASSUME TypeOK, TypeOK', Accounted, NEW c \in Conns, Write(c)
  PROVE  Accounted'
<1>1. /\ pump[c] = "write"
      /\ \/ /\ wire' = [wire EXCEPT ![c] = Append(wire[c], Data(hand[c]))]
            /\ hand' = [hand EXCEPT ![c] = 0]
            /\ pump' = [pump EXCEPT ![c] = "select"]
         \/ pump' = [pump EXCEPT ![c] = "stopped"] /\ wire' = wire /\ hand' = hand
      /\ UNCHANGED <<offered, frames, dropped, sending>>
  BY DEF Write, Stop
<1>2. CASE pump' = [pump EXCEPT ![c] = "stopped"] /\ wire' = wire /\ hand' = hand
  BY <1>1, <1>2, StopAccounted
<1>3. CASE /\ wire' = [wire EXCEPT ![c] = Append(wire[c], Data(hand[c]))]
           /\ hand' = [hand EXCEPT ![c] = 0]
           /\ pump' = [pump EXCEPT ![c] = "select"]
  <2>1. Ledger(c)
    BY <1>1 DEF Accounted
  <2>2. pump'[c] = "select" /\ wire'[c] = Append(wire[c], Data(hand[c])) /\ hand[c] \in Nat
    BY <1>3 DEF TypeOK
  <2>3. InHand(c) = {hand[c]} /\ InHand(c)' = {}
    BY <1>1, <2>2 DEF InHand
  <2>4. Data(hand[c]).kind = "data" /\ Data(hand[c]).frame = hand[c] /\ Data(hand[c]).lost = {}
    BY DEF Data
  <2>5. Written(c)' = Written(c) \cup {hand[c]} /\ Reported(c)' = Reported(c)
    BY <2>2, <2>4, MessageType, WireAppend, ZenonT(60)
  <2>6. Ledger(c)'
    <3>1. /\ Written(c)' \cup Reported(c)' \cup dropped'[c] \cup Elems(frames'[c]) \cup InHand(c)'
               = Written(c) \cup Reported(c) \cup dropped[c] \cup Elems(frames[c]) \cup InHand(c)
          /\ Written(c)' \cap (Reported(c)' \cup dropped'[c]) = {}
          /\ Reported(c)' \cap dropped'[c] = {}
          /\ (Elems(frames'[c]) \cup InHand(c)')
               \cap (Written(c)' \cup Reported(c)' \cup dropped'[c]) = {}
          /\ Elems(frames'[c]) \cap InHand(c)' = {}
          /\ Distinct(frames'[c])
      BY <1>1, <2>1, <2>3, <2>5 DEF Ledger, Once
    <3> QED BY <1>1, <2>1, <3>1, LedgerPump
  <2>7. \A d \in Conns \ {c} :
          /\ frames'[d] = frames[d] /\ dropped'[d] = dropped[d] /\ pump'[d] = pump[d]
          /\ hand'[d] = hand[d] /\ wire'[d] = wire[d]
    BY <1>1, <1>3 DEF TypeOK
  <2> QED BY <1>1, <2>6, <2>7, OtherPumps
<1> QED BY <1>1, <1>2, <1>3

LEMMA AccountedInvariant == Spec => []Accounted
<1>1. Init => Accounted
  <2> SUFFICES ASSUME Init, NEW c \in Conns PROVE Ledger(c)
    BY DEF Accounted
  <2>1. \A f \in Feeds : Holding(f) = {}
    BY IdleType DEF Init, Holding
  <2>2. HeldFor(c) = {}
    BY <2>1 DEF HeldFor
  <2>3. frames[c] = <<>> /\ wire[c] = <<>> /\ offered[c] = 0 /\ dropped[c] = {} /\ pump[c] = "select"
    BY DEF Init
  <2>4. Elems(frames[c]) = {} /\ Elems(wire[c]) = {} /\ InHand(c) = {} /\ Distinct(frames[c])
    BY <2>3 DEF Elems, InHand, Distinct
  <2>5. Written(c) = {} /\ Reported(c) = {}
    BY <2>4 DEF Written, Reported
  <2>6. 1 .. offered[c] = {}
    BY <2>3
  <2> QED BY <2>1, <2>2, <2>3, <2>4, <2>5, <2>6 DEF Ledger, Complete, Once, Exclusive
<1>2. TypeOK /\ TypeOK' /\ Accounted /\ [Next]_vars => Accounted'
  <2> SUFFICES ASSUME TypeOK, TypeOK', Accounted, [Next]_vars PROVE Accounted'
    OBVIOUS
  <2>1. ASSUME NEW feed \in Feeds, Produce(feed) \/ ProducerStep(feed) PROVE Accounted'
    BY <2>1, SendAccounted, EvictAccounted, CountAccounted, RetryAccounted DEF Produce, ProducerStep
  <2>2. ASSUME UNCHANGED <<offered, frames, dropped, sending, pump, hand, wire>> PROVE Accounted'
    BY <2>2, LedgerFrame DEF Accounted
  <2>3. ASSUME NEW c \in Conns, TakeDone(c) \/ WriteClosure(c) PROVE Accounted'
    <3>1. \A d \in Conns \ {c} : wire'[d] = wire[d]
      BY <2>3 DEF TakeDone, WriteClosure, TypeOK
    <3> QED BY <2>3, <3>1, StopAccounted DEF TakeDone, WriteClosure, Stop
  <2>4. ASSUME NEW c \in Conns, PumpStep(c) PROVE Accounted'
    BY <2>3, <2>4, TakeAccounted, TakeEndAccounted, MarkAccounted, WriteAccounted DEF PumpStep
  <2> QED BY <2>1, <2>2, <2>4 DEF Next, FinishFeed, Finish, PeerGone, Close, vars
<1> QED BY <1>1, <1>2, TypeCorrect, PTL DEF Spec

-----------------------------------------------------------------------------

(* conn.go's "counted, never hidden": for any number of producers and      *)
(* connections and any queue, every frame send was called with is written, *)
(* reported, counted, queued or in somebody's hands.                       *)
THEOREM NoFrameHidden == Spec => []NothingHidden
<1>1. Accounted => NothingHidden
  BY DEF Accounted, Ledger, Complete, NothingHidden
<1> QED BY <1>1, AccountedInvariant, PTL

(* And none is accounted for twice: a written frame is never reported as   *)
(* lost, and no frame is reported by two markers.                          *)
THEOREM NoFrameCountedTwice == Spec => []NothingCountedTwice
<1>1. Accounted => NothingCountedTwice
  BY DEF Accounted, Ledger, Once, NothingCountedTwice
<1> QED BY <1>1, AccountedInvariant, PTL

-----------------------------------------------------------------------------
(* One producer's frames in their order.  A producer that has a connection *)
(* to itself never loses the frame it is sending: the room it makes in the *)
(* queue stays, because nobody else fills it.  So the newest frame is on   *)
(* its way or written, and a closure, written when the queue has been      *)
(* finished and emptied, comes after it.                                   *)

Increasing(q) == \A i, j \in DOMAIN q : i < j => q[i] < q[j]

Below(S, T) == \A m \in S, n \in T : m < n

Kept(c) == Written(c) \cup InHand(c) \cup Elems(frames[c])

HasClosure(c) == \E m \in Elems(wire[c]) : m.kind = "close"

DataIncreasing(w) ==
  \A i, j \in DOMAIN w :
    (i < j /\ w[i].kind = "data" /\ w[j].kind = "data") => w[i].frame < w[j].frame

(* The order of the frames between the producer and the peer.              *)
Ordered(c) ==
  /\ Kept(c) \subseteq 1 .. offered[c]
  /\ Increasing(frames[c])
  /\ Below(Written(c), InHand(c) \cup Elems(frames[c]))
  /\ Below(InHand(c), Elems(frames[c]))
  /\ DataIncreasing(wire[c])

(* What the producer is doing with the newest one.                         *)
Newest(feed) ==
  LET c == ConnOf(feed)
      s == sending[feed]
      n == offered[c]
  IN /\ s.at # "idle" => s.frame = n /\ n # 0 /\ n \notin Kept(c) /\ ~finished[c]
     /\ s.at \in {"count", "retry"} => ~IsFull(c)
     /\ s.at = "count" => s.victim # n
     /\ (s.at = "idle" /\ pump[c] # "stopped" /\ n # 0) => n \in Kept(c)

(* And how the stream ends.                                                *)
Ending(c) ==
  /\ pump[c] \in {"drain", "closing"} => finished[c] /\ frames[c] = <<>>
  /\ HasClosure(c) =>
       /\ finished[c] /\ pump[c] = "stopped"
       /\ offered[c] = 0 \/ offered[c] \in Written(c)

InLine(feed) == Ordered(ConnOf(feed)) /\ Newest(feed) /\ Ending(ConnOf(feed))

Queued == \A feed \in Feeds : SoleFeed(feed) => InLine(feed)

LEMMA IncreasingAppend ==
  ASSUME NEW q \in Seq(Nat), NEW x \in Nat, Increasing(q), Below(Elems(q), {x})
  PROVE  Increasing(Append(q, x))
<1>1. /\ DOMAIN Append(q, x) = 1 .. Len(q) + 1
      /\ DOMAIN q = 1 .. Len(q)
      /\ Len(q) \in Nat
      /\ \A i \in 1 .. Len(q) : Append(q, x)[i] = q[i]
      /\ Append(q, x)[Len(q) + 1] = x
  OBVIOUS
<1>2. \A i \in 1 .. Len(q) : q[i] < x
  BY <1>1 DEF Elems, Below
<1> QED BY <1>1, <1>2 DEF Increasing

LEMMA IncreasingTail ==
  ASSUME NEW q \in Seq(Nat), q # <<>>, Increasing(q)
  PROVE  Increasing(Tail(q)) /\ Below({Head(q)}, Elems(Tail(q)))
<1>1. /\ DOMAIN Tail(q) = 1 .. Len(q) - 1
      /\ DOMAIN q = 1 .. Len(q)
      /\ Len(q) \in Nat \ {0}
      /\ \A i \in 1 .. Len(q) - 1 : Tail(q)[i] = q[i + 1]
      /\ Head(q) = q[1]
  OBVIOUS
<1>2. \A i \in 1 .. Len(q) - 1 : i + 1 \in 1 .. Len(q) /\ 1 < i + 1
  BY <1>1
<1>3. Increasing(Tail(q))
  <2> SUFFICES ASSUME NEW i \in 1 .. Len(q) - 1, NEW j \in 1 .. Len(q) - 1, i < j
               PROVE  Tail(q)[i] < Tail(q)[j]
    BY <1>1 DEF Increasing
  <2>1. i + 1 < j + 1 /\ i + 1 \in DOMAIN q /\ j + 1 \in DOMAIN q
    BY <1>1, <1>2
  <2> QED BY <1>1, <2>1 DEF Increasing
<1>4. Below({Head(q)}, Elems(Tail(q)))
  <2> SUFFICES ASSUME NEW i \in 1 .. Len(q) - 1 PROVE Head(q) < Tail(q)[i]
    BY <1>1 DEF Below, Elems
  <2>1. 1 < i + 1 /\ 1 \in DOMAIN q /\ i + 1 \in DOMAIN q
    BY <1>1, <1>2
  <2> QED BY <1>1, <2>1 DEF Increasing
<1> QED BY <1>3, <1>4

(* A data frame written after all others keeps the order, a marker or a    *)
(* closure does not touch it.                                              *)
LEMMA WireInOrder ==
  ASSUME NEW w \in Seq(Message), NEW m \in Message, DataIncreasing(w),
         m.kind = "data" => \A x \in Elems(w) : x.kind = "data" => x.frame < m.frame
  PROVE  DataIncreasing(Append(w, m))
<1>1. /\ DOMAIN Append(w, m) = 1 .. Len(w) + 1
      /\ DOMAIN w = 1 .. Len(w)
      /\ Len(w) \in Nat
      /\ \A i \in 1 .. Len(w) : Append(w, m)[i] = w[i]
      /\ Append(w, m)[Len(w) + 1] = m
  OBVIOUS
<1>2. \A i \in 1 .. Len(w) : w[i] \in Elems(w)
  BY <1>1 DEF Elems
<1> SUFFICES ASSUME NEW i \in 1 .. Len(w) + 1, NEW j \in 1 .. Len(w) + 1, i < j,
                    Append(w, m)[i].kind = "data", Append(w, m)[j].kind = "data"
             PROVE  Append(w, m)[i].frame < Append(w, m)[j].frame
  BY <1>1 DEF DataIncreasing
<1>3. i \in 1 .. Len(w) /\ Append(w, m)[i] = w[i]
  BY <1>1
<1>4. CASE j = Len(w) + 1
  BY <1>1, <1>2, <1>3, <1>4
<1>5. CASE j \in 1 .. Len(w)
  BY <1>1, <1>3, <1>5 DEF DataIncreasing
<1> QED BY <1>1, <1>4, <1>5

(* A step that leaves a connection and its producer alone.                 *)
LEMMA LineFrame ==
  ASSUME NEW feed \in Feeds, NEW c, c = ConnOf(feed), InLine(feed),
         offered'[c] = offered[c], frames'[c] = frames[c], finished'[c] = finished[c],
         sending'[feed] = sending[feed], pump'[c] = pump[c], hand'[c] = hand[c],
         wire'[c] = wire[c]
  PROVE  InLine(feed)'
<1>1. /\ Written(c)' = Written(c) /\ InHand(c)' = InHand(c) /\ IsFull(c)' = IsFull(c)
      /\ HasClosure(c)' = HasClosure(c) /\ Elems(frames[c])' = Elems(frames[c])
  BY DEF Written, InHand, IsFull, HasClosure, Elems
<1>2. Kept(c)' = Kept(c)
  BY <1>1 DEF Kept
<1>3. Ordered(c)'
  BY <1>1, <1>2 DEF InLine, Ordered
<1>4. Newest(feed)'
  BY <1>1, <1>2 DEF InLine, Newest
<1>5. Ending(c)'
  BY <1>1 DEF InLine, Ending
<1> QED BY <1>3, <1>4, <1>5 DEF InLine

(* The parts of the state a producer's step leaves alone.                  *)
LEMMA LineSets ==
  ASSUME NEW c, pump'[c] = pump[c], hand'[c] = hand[c], wire'[c] = wire[c]
  PROVE  Written(c)' = Written(c) /\ InHand(c)' = InHand(c) /\ HasClosure(c)' = HasClosure(c)
BY DEF Written, InHand, HasClosure, Elems

LEMMA KeptNat ==
  ASSUME TypeOK, NEW c \in Conns, Ordered(c)
  PROVE  /\ offered[c] \in Nat
         /\ Written(c) \subseteq Nat /\ InHand(c) \subseteq Nat /\ Elems(frames[c]) \subseteq Nat
         /\ \A n \in Kept(c) : n <= offered[c]
BY DEF TypeOK, Ordered, Kept

LEMMA SendLine ==
  ASSUME TypeOK, NEW feed \in Feeds, InLine(feed), Produce(feed)
  PROVE  InLine(feed)'
<1> DEFINE c == ConnOf(feed)
           n == offered[c] + 1
<1>1. c \in Conns /\ n \in Nat \ {0} /\ offered[c] \in Nat /\ frames[c] \in Seq(Nat)
  BY FeedConn DEF TypeOK
<1>2. /\ offered' = [offered EXCEPT ![c] = n]
      /\ \/ frames' = [frames EXCEPT ![c] = Append(frames[c], n)] /\ sending' = sending
         \/ frames' = frames /\ sending' = [sending EXCEPT ![feed] = Inside("evict", n, 0)]
      /\ UNCHANGED <<finished, pump, hand, wire>>
      /\ sending[feed].at = "idle"
      /\ ~finished[c]
  BY DEF Produce, Send
<1>3. /\ offered'[c] = n /\ finished'[c] = finished[c] /\ pump'[c] = pump[c]
      /\ hand'[c] = hand[c] /\ wire'[c] = wire[c]
  BY <1>1, <1>2 DEF TypeOK
<1>4. Written(c)' = Written(c) /\ InHand(c)' = InHand(c) /\ HasClosure(c)' = HasClosure(c)
  BY <1>3, LineSets
<1>5. Ordered(c) /\ Newest(feed) /\ Ending(c)
  BY DEF InLine
<1>6. /\ Written(c) \subseteq Nat /\ InHand(c) \subseteq Nat /\ Elems(frames[c]) \subseteq Nat
      /\ \A m \in Kept(c) : m < n
      /\ n \notin Kept(c)
  <2>1. Kept(c) \subseteq 1 .. offered[c]
    BY <1>5 DEF Ordered
  <2>2. \A m \in 1 .. offered[c] : m < n
    BY <1>1
  <2> QED BY <1>1, <1>5, <2>1, <2>2, KeptNat
<1>7. 1 .. offered[c] \subseteq 1 .. n
  BY <1>1
<1>8. Ending(c)'
  BY <1>2, <1>3, <1>4, <1>5 DEF Ending
<1>9. CASE frames' = [frames EXCEPT ![c] = Append(frames[c], n)] /\ sending' = sending
  <2>1. frames'[c] = Append(frames[c], n) /\ sending'[feed] = sending[feed]
    BY <1>1, <1>9 DEF TypeOK
  <2>2. Elems(frames'[c]) = Elems(frames[c]) \cup {n}
    <3>1. Elems(Append(frames[c], n)) = Elems(frames[c]) \cup {n}
      BY <1>1, ElemsAppend
    <3> QED BY <2>1, <3>1
  <2>3. Below(Kept(c), {n})
    BY <1>6 DEF Below
  <2>4. Increasing(frames'[c])
    <3>1. Below(Elems(frames[c]), {n})
      BY <2>3 DEF Below, Kept
    <3> QED BY <1>1, <1>5, <2>1, <3>1, IncreasingAppend DEF Ordered
  <2>5. Kept(c)' = Kept(c) \cup {n}
    BY <1>4, <2>2 DEF Kept
  <2> HIDE DEF n
  <2>6. /\ Below(Written(c)', InHand(c)' \cup Elems(frames'[c]))
        /\ Below(InHand(c)', Elems(frames'[c]))
    BY <1>4, <1>5, <2>2, <2>3 DEF Below, Ordered, Kept
  <2>7. Kept(c)' \subseteq 1 .. n
    BY <1>1, <1>5, <1>7, <2>5 DEF Ordered
  <2>8. Ordered(c)'
    BY <1>3, <1>5, <2>4, <2>6, <2>7 DEF Ordered
  <2>9. Newest(feed)'
    BY <1>2, <1>3, <2>1, <2>5 DEF Newest
  <2> QED BY <1>8, <2>8, <2>9 DEF InLine
<1>10. CASE frames' = frames /\ sending' = [sending EXCEPT ![feed] = Inside("evict", n, 0)]
  <2>1. frames'[c] = frames[c] /\ sending'[feed].at = "evict" /\ sending'[feed].frame = n
    <3>1. sending'[feed] = Inside("evict", n, 0)
      BY <1>10 DEF TypeOK
    <3> QED BY <1>1, <1>10, <3>1, InsideType
  <2>2. Elems(frames'[c]) = Elems(frames[c])
    BY <2>1
  <2>3. Kept(c)' = Kept(c)
    BY <1>4, <2>2 DEF Kept
  <2> HIDE DEF n
  <2>4. Kept(c)' \subseteq 1 .. n
    BY <1>5, <1>7, <2>3 DEF Ordered
  <2>5. Ordered(c)'
    BY <1>3, <1>4, <1>5, <2>1, <2>2, <2>4 DEF Ordered
  <2>6. Newest(feed)'
    BY <1>1, <1>2, <1>3, <1>6, <2>1, <2>3 DEF Newest
  <2> QED BY <1>8, <2>5, <2>6 DEF InLine
<1> QED BY <1>2, <1>9, <1>10

LEMMA EvictLine ==
  ASSUME TypeOK, NEW feed \in Feeds, InLine(feed), Evict(feed)
  PROVE  InLine(feed)'
<1> DEFINE c == ConnOf(feed)
           n == sending[feed].frame
           h == Head(frames[c])
<1>1. /\ c \in Conns /\ n \in Nat /\ frames[c] \in Seq(Nat) /\ offered[c] \in Nat
      /\ Len(frames[c]) <= QueueCap /\ Len(frames[c]) \in Nat
  BY FeedConn, SendingType DEF TypeOK
<1>2. /\ \/ /\ frames[c] # <<>>
            /\ frames' = [frames EXCEPT ![c] = Tail(frames[c])]
            /\ sending' = [sending EXCEPT ![feed] = Inside("count", n, h)]
         \/ /\ frames[c] = <<>>
            /\ frames' = frames
            /\ sending' = [sending EXCEPT ![feed] = Inside("retry", n, 0)]
      /\ UNCHANGED <<offered, finished, pump, hand, wire>>
      /\ sending[feed].at = "evict"
  BY DEF Evict
<1>3. /\ offered'[c] = offered[c] /\ finished'[c] = finished[c] /\ pump'[c] = pump[c]
      /\ hand'[c] = hand[c] /\ wire'[c] = wire[c]
  BY <1>2
<1>4. Written(c)' = Written(c) /\ InHand(c)' = InHand(c) /\ HasClosure(c)' = HasClosure(c)
  BY <1>3, LineSets
<1>5. Ordered(c) /\ Newest(feed) /\ Ending(c)
  BY DEF InLine
<1>6. n = offered[c] /\ n # 0 /\ n \notin Kept(c) /\ ~finished[c]
  BY <1>2, <1>5 DEF Newest
<1>7. Ending(c)'
  BY <1>3, <1>4, <1>5, <1>6 DEF Ending
<1>8. CASE /\ frames[c] # <<>>
           /\ frames' = [frames EXCEPT ![c] = Tail(frames[c])]
           /\ sending' = [sending EXCEPT ![feed] = Inside("count", n, h)]
  <2>1. h \in Nat /\ Elems(frames[c]) = Elems(Tail(frames[c])) \cup {h}
    BY <1>1, <1>8, ElemsTail
  <2>2. Increasing(Tail(frames[c]))
    BY <1>1, <1>5, <1>8, IncreasingTail DEF Ordered
  <2>3. frames'[c] = Tail(frames[c])
    BY <1>1, <1>8 DEF TypeOK
  <2>4. Elems(frames'[c]) \subseteq Elems(frames[c]) /\ h \in Kept(c)
    BY <2>1, <2>3 DEF Kept
  <2>5. Kept(c)' \subseteq Kept(c)
    BY <1>4, <2>4 DEF Kept
  <2>6. Ordered(c)'
    BY <1>3, <1>4, <1>5, <2>2, <2>3, <2>4, <2>5 DEF Ordered, Below
  <2>7. ~IsFull(c)'
    <3>1. Len(Tail(frames[c])) = Len(frames[c]) - 1
      BY <1>1, <1>8
    <3>2. Len(frames'[c]) = Len(frames[c]) - 1
      BY <2>3, <3>1
    <3> QED BY <1>1, <3>2, StreamConnAssumption DEF IsFull
  <2>8. /\ sending'[feed].at = "count" /\ sending'[feed].frame = n /\ sending'[feed].victim = h
    <3>1. sending'[feed] = Inside("count", n, h)
      BY <1>8 DEF TypeOK
    <3> QED BY <1>1, <2>1, <3>1, InsideType
  <2>9. Newest(feed)'
    BY <1>3, <1>6, <2>4, <2>5, <2>7, <2>8 DEF Newest
  <2> QED BY <1>7, <2>6, <2>9 DEF InLine
<1>9. CASE /\ frames[c] = <<>>
           /\ frames' = frames
           /\ sending' = [sending EXCEPT ![feed] = Inside("retry", n, 0)]
  <2>1. frames'[c] = frames[c] /\ Elems(frames'[c]) = Elems(frames[c])
    BY <1>9
  <2>2. Kept(c)' = Kept(c)
    BY <1>4, <2>1 DEF Kept
  <2>3. Ordered(c)'
    BY <1>3, <1>4, <1>5, <2>1, <2>2 DEF Ordered
  <2>4. ~IsFull(c)'
    <3>1. Len(frames'[c]) = 0
      BY <1>9
    <3> QED BY <3>1, StreamConnAssumption DEF IsFull
  <2>5. sending'[feed].at = "retry" /\ sending'[feed].frame = n
    <3>1. sending'[feed] = Inside("retry", n, 0)
      BY <1>9 DEF TypeOK
    <3> QED BY <1>1, <3>1, InsideType
  <2>6. Newest(feed)'
    BY <1>3, <1>6, <2>2, <2>4, <2>5 DEF Newest
  <2> QED BY <1>7, <2>3, <2>6 DEF InLine
<1> QED BY <1>2, <1>8, <1>9

LEMMA CountLine ==
  ASSUME TypeOK, NEW feed \in Feeds, InLine(feed), Count(feed)
  PROVE  InLine(feed)'
<1> DEFINE c == ConnOf(feed)
           n == sending[feed].frame
<1>1. c \in Conns /\ n \in Nat /\ frames[c] \in Seq(Nat) /\ offered[c] \in Nat
  BY FeedConn, SendingType DEF TypeOK
<1>2. Ordered(c) /\ Newest(feed) /\ Ending(c)
  BY DEF InLine
<1>3. /\ sending[feed].at = "count"
      /\ sending' = [sending EXCEPT ![feed] =
                       IF sending[feed].victim = n THEN Idle ELSE Inside("retry", n, 0)]
      /\ UNCHANGED <<offered, frames, finished, pump, hand, wire>>
  BY DEF Count
<1>4. n = offered[c] /\ n # 0 /\ n \notin Kept(c) /\ ~finished[c] /\ ~IsFull(c)
      /\ sending[feed].victim # n
  BY <1>2, <1>3 DEF Newest
<1>5. sending'[feed].at = "retry" /\ sending'[feed].frame = n
  <2>1. sending'[feed] = Inside("retry", n, 0)
    BY <1>3, <1>4 DEF TypeOK
  <2> QED BY <1>1, <2>1, InsideType
<1>6. /\ offered'[c] = offered[c] /\ finished'[c] = finished[c] /\ pump'[c] = pump[c]
      /\ hand'[c] = hand[c] /\ wire'[c] = wire[c] /\ frames'[c] = frames[c]
  BY <1>3
<1>7. Written(c)' = Written(c) /\ InHand(c)' = InHand(c) /\ HasClosure(c)' = HasClosure(c)
  BY <1>6, LineSets
<1>8. Kept(c)' = Kept(c) /\ IsFull(c)' = IsFull(c)
  BY <1>6, <1>7 DEF Kept, IsFull, Elems
<1>9. Ordered(c)' /\ Ending(c)'
  BY <1>2, <1>6, <1>7, <1>8 DEF Ordered, Ending, Elems
<1>10. Newest(feed)'
  BY <1>4, <1>5, <1>6, <1>8 DEF Newest
<1> QED BY <1>9, <1>10 DEF InLine

LEMMA RetryLine ==
  ASSUME TypeOK, NEW feed \in Feeds, InLine(feed), Retry(feed)
  PROVE  InLine(feed)'
<1> DEFINE c == ConnOf(feed)
           n == sending[feed].frame
<1>1. c \in Conns /\ n \in Nat /\ frames[c] \in Seq(Nat) /\ offered[c] \in Nat
  BY FeedConn, SendingType DEF TypeOK
<1>2. Ordered(c) /\ Newest(feed) /\ Ending(c)
  BY DEF InLine
<1>3. sending[feed].at = "retry" /\ UNCHANGED <<offered, finished, pump, hand, wire>>
  BY DEF Retry
<1>4. n = offered[c] /\ n # 0 /\ n \notin Kept(c) /\ ~finished[c] /\ ~IsFull(c)
  BY <1>2, <1>3 DEF Newest
<1>5. /\ frames' = [frames EXCEPT ![c] = Append(frames[c], n)]
      /\ sending' = [sending EXCEPT ![feed] = Idle]
  BY <1>4 DEF Retry
<1>6. /\ offered'[c] = offered[c] /\ finished'[c] = finished[c] /\ pump'[c] = pump[c]
      /\ hand'[c] = hand[c] /\ wire'[c] = wire[c]
      /\ frames'[c] = Append(frames[c], n) /\ sending'[feed].at = "idle"
  BY <1>1, <1>3, <1>5, IdleType DEF TypeOK
<1>7. Written(c)' = Written(c) /\ InHand(c)' = InHand(c) /\ HasClosure(c)' = HasClosure(c)
  BY <1>6, LineSets
<1>8. Elems(frames'[c]) = Elems(frames[c]) \cup {n}
  <2>1. Elems(Append(frames[c], n)) = Elems(frames[c]) \cup {n}
    BY <1>1, ElemsAppend
  <2> QED BY <1>6, <2>1
<1>9. Kept(c)' = Kept(c) \cup {n}
  BY <1>7, <1>8 DEF Kept
<1>10. Below(Kept(c), {n})
  BY <1>1, <1>2, <1>4 DEF Below, Ordered
<1>11. Increasing(frames'[c])
  <2>1. Below(Elems(frames[c]), {n})
    BY <1>10 DEF Below, Kept
  <2> QED BY <1>1, <1>2, <1>6, <2>1, IncreasingAppend DEF Ordered
<1>12. /\ Below(Written(c)', InHand(c)' \cup Elems(frames'[c]))
       /\ Below(InHand(c)', Elems(frames'[c]))
  BY <1>2, <1>7, <1>8, <1>10 DEF Below, Ordered, Kept
<1>13. Kept(c)' \subseteq 1 .. offered'[c]
  BY <1>1, <1>2, <1>4, <1>6, <1>9 DEF Ordered
<1>14. Ordered(c)'
  BY <1>2, <1>6, <1>11, <1>12, <1>13 DEF Ordered
<1>15. Newest(feed)' /\ Ending(c)'
  BY <1>2, <1>4, <1>6, <1>7, <1>9 DEF Newest, Ending
<1> QED BY <1>14, <1>15 DEF InLine

(* What a step of the pump has to show.                                    *)
LEMMA LinePump ==
  ASSUME NEW feed \in Feeds, NEW c, c = ConnOf(feed), InLine(feed),
         offered'[c] = offered[c], finished'[c] = finished[c], sending'[feed] = sending[feed],
         Kept(c)' \subseteq Kept(c),
         pump'[c] # "stopped" => pump[c] # "stopped" /\ Kept(c)' = Kept(c),
         IsFull(c)' => IsFull(c),
         Increasing(frames'[c]),
         Below(Written(c)', InHand(c)' \cup Elems(frames'[c])),
         Below(InHand(c)', Elems(frames'[c])),
         DataIncreasing(wire'[c]),
         Ending(c)'
  PROVE  InLine(feed)'
<1>1. Ordered(c)'
  BY DEF InLine, Ordered
<1>2. Newest(feed)'
  BY DEF InLine, Newest
<1> QED BY <1>1, <1>2 DEF InLine

LEMMA WireLine ==
  ASSUME TypeOK, TypeOK', NEW c \in Conns, NEW m \in Message, wire'[c] = Append(wire[c], m)
  PROVE  /\ Written(c)' = Written(c) \cup (IF m.kind = "data" THEN {m.frame} ELSE {})
         /\ HasClosure(c)' <=> HasClosure(c) \/ m.kind = "close"
<1>1. wire[c] \in Seq(Message)
  BY DEF TypeOK
<1>2. Elems(wire'[c]) = Elems(wire[c]) \cup {m}
  BY <1>1, ElemsAppend
<1> QED BY <1>2, WireAppend DEF HasClosure

LEMMA TakeLine ==
  ASSUME TypeOK, NEW feed \in Feeds, InLine(feed), Take(ConnOf(feed))
  PROVE  InLine(feed)'
<1> DEFINE c == ConnOf(feed)
           h == Head(frames[c])
<1>1. /\ c \in Conns /\ frames[c] \in Seq(Nat) /\ Len(frames[c]) \in Nat
  BY FeedConn DEF TypeOK
<1>2. /\ pump[c] = "select" /\ frames[c] # <<>>
      /\ hand' = [hand EXCEPT ![c] = h]
      /\ frames' = [frames EXCEPT ![c] = Tail(frames[c])]
      /\ pump' = [pump EXCEPT ![c] = "mark"]
      /\ UNCHANGED <<offered, finished, sending, wire>>
  BY DEF Take
<1>3. /\ offered'[c] = offered[c] /\ finished'[c] = finished[c] /\ sending'[feed] = sending[feed]
      /\ wire'[c] = wire[c] /\ pump'[c] = "mark" /\ hand'[c] = h /\ frames'[c] = Tail(frames[c])
  BY <1>1, <1>2 DEF TypeOK
<1>4. Written(c)' = Written(c) /\ HasClosure(c)' = HasClosure(c)
  BY <1>3 DEF Written, HasClosure, Elems
<1>5. InHand(c) = {} /\ InHand(c)' = {h}
  BY <1>2, <1>3 DEF InHand
<1>6. /\ Elems(frames[c]) = Elems(frames'[c]) \cup {h}
      /\ Increasing(frames'[c]) /\ Below({h}, Elems(frames'[c]))
  BY <1>1, <1>2, <1>3, ElemsTail, IncreasingTail DEF InLine, Ordered
<1>7. Kept(c)' = Kept(c)
  BY <1>4, <1>5, <1>6 DEF Kept
<1>8. Ordered(c) /\ Ending(c)
  BY DEF InLine
<1>9. /\ Below(Written(c)', InHand(c)' \cup Elems(frames'[c]))
      /\ Below(InHand(c)', Elems(frames'[c]))
  BY <1>4, <1>5, <1>6, <1>8 DEF Ordered, Below
<1>10. IsFull(c)' => IsFull(c)
  <2>1. Len(Tail(frames[c])) = Len(frames[c]) - 1
    BY <1>1, <1>2
  <2>2. Len(frames'[c]) = Len(frames[c]) - 1
    BY <1>3, <2>1
  <2> QED BY <1>1, <2>2, StreamConnAssumption DEF IsFull
<1>11. Ending(c)'
  BY <1>2, <1>3, <1>4, <1>8 DEF Ending
<1>12. DataIncreasing(wire'[c])
  BY <1>3, <1>8 DEF Ordered
<1> QED BY <1>2, <1>3, <1>6, <1>7, <1>9, <1>10, <1>11, <1>12, LinePump

(* A pump that stops has only the written frames and the queue to answer   *)
(* for.                                                                    *)
LEMMA StopLine ==
  ASSUME TypeOK, NEW feed \in Feeds, NEW c, c = ConnOf(feed), InLine(feed),
         pump'[c] = "stopped",
         offered'[c] = offered[c], finished'[c] = finished[c], sending'[feed] = sending[feed],
         frames'[c] = frames[c], wire'[c] = wire[c]
  PROVE  InLine(feed)'
<1>1. Written(c)' = Written(c) /\ HasClosure(c)' = HasClosure(c) /\ InHand(c)' = {}
  BY DEF Written, HasClosure, Elems, InHand
<1>2. Elems(frames'[c]) = Elems(frames[c]) /\ IsFull(c)' = IsFull(c)
  BY DEF Elems, IsFull
<1>3. Kept(c)' \subseteq Kept(c)
  BY <1>1, <1>2 DEF Kept
<1>4. Ordered(c) /\ Ending(c)
  BY DEF InLine
<1>5. /\ Below(Written(c)', InHand(c)' \cup Elems(frames'[c]))
      /\ Below(InHand(c)', Elems(frames'[c]))
  BY <1>1, <1>2, <1>4 DEF Ordered, Below
<1>6. Ending(c)'
  BY <1>1, <1>4 DEF Ending
<1>7. Increasing(frames'[c]) /\ DataIncreasing(wire'[c])
  BY <1>4 DEF Ordered
<1> QED BY <1>2, <1>3, <1>5, <1>6, <1>7, LinePump

LEMMA TakeEndLine ==
  ASSUME TypeOK, NEW feed \in Feeds, InLine(feed), TakeEnd(ConnOf(feed))
  PROVE  InLine(feed)'
<1> DEFINE c == ConnOf(feed)
<1>1. c \in Conns
  BY FeedConn
<1>2. /\ pump[c] = "select" /\ frames[c] = <<>> /\ finished[c]
      /\ pump' = [pump EXCEPT ![c] = "drain"]
      /\ UNCHANGED <<offered, frames, finished, sending, hand, wire>>
  BY DEF TakeEnd
<1>3. /\ offered'[c] = offered[c] /\ finished'[c] = finished[c] /\ sending'[feed] = sending[feed]
      /\ wire'[c] = wire[c] /\ pump'[c] = "drain" /\ frames'[c] = frames[c]
  BY <1>1, <1>2 DEF TypeOK
<1>4. /\ Written(c)' = Written(c) /\ HasClosure(c)' = HasClosure(c)
      /\ InHand(c)' = {} /\ InHand(c) = {} /\ IsFull(c)' = IsFull(c)
      /\ Elems(frames'[c]) = Elems(frames[c])
  BY <1>2, <1>3 DEF Written, HasClosure, Elems, InHand, IsFull
<1>5. Kept(c)' = Kept(c)
  BY <1>4 DEF Kept
<1>6. Ordered(c) /\ Ending(c)
  BY DEF InLine
<1>7. Ending(c)'
  BY <1>2, <1>3, <1>4, <1>6 DEF Ending
<1>8. /\ Below(Written(c)', InHand(c)' \cup Elems(frames'[c]))
      /\ Below(InHand(c)', Elems(frames'[c]))
      /\ Increasing(frames'[c]) /\ DataIncreasing(wire'[c])
  BY <1>3, <1>4, <1>6 DEF Ordered
<1> QED BY <1>2, <1>3, <1>4, <1>5, <1>7, <1>8, LinePump

LEMMA MarkLine ==
  ASSUME TypeOK, TypeOK', NEW feed \in Feeds, InLine(feed), Mark(ConnOf(feed))
  PROVE  InLine(feed)'
<1> DEFINE c == ConnOf(feed)
           next == IF pump[c] = "mark" THEN "write" ELSE "closing"
<1>1. c \in Conns
  BY FeedConn
<1>2. /\ pump[c] \in {"mark", "drain"}
      /\ \/ /\ \/ wire' = wire
               \/ wire' = [wire EXCEPT ![c] = Append(wire[c], Resync(dropped[c]))]
            /\ pump' = [pump EXCEPT ![c] = next]
         \/ pump' = [pump EXCEPT ![c] = "stopped"] /\ wire' = wire
      /\ UNCHANGED <<offered, frames, finished, sending, hand>>
  BY DEF Mark, Stop
<1>3. /\ offered'[c] = offered[c] /\ finished'[c] = finished[c] /\ sending'[feed] = sending[feed]
      /\ frames'[c] = frames[c] /\ hand'[c] = hand[c]
      /\ IsFull(c)' = IsFull(c) /\ Elems(frames'[c]) = Elems(frames[c])
  BY <1>2 DEF IsFull, Elems
<1>4. CASE pump' = [pump EXCEPT ![c] = "stopped"] /\ wire' = wire
  <2>1. pump'[c] = "stopped" /\ wire'[c] = wire[c]
    BY <1>1, <1>4 DEF TypeOK
  <2> QED BY <1>3, <2>1, StopLine
<1>5. CASE /\ \/ wire' = wire
              \/ wire' = [wire EXCEPT ![c] = Append(wire[c], Resync(dropped[c]))]
           /\ pump' = [pump EXCEPT ![c] = next]
  <2>1. pump'[c] = next
    BY <1>1, <1>5 DEF TypeOK
  <2>2. InHand(c)' = InHand(c)
    BY <1>2, <1>3, <2>1 DEF InHand
  <2>3. Ordered(c) /\ Ending(c)
    BY DEF InLine
  <2>4. /\ Written(c)' = Written(c) /\ (HasClosure(c)' <=> HasClosure(c))
        /\ DataIncreasing(wire'[c])
    <3>1. CASE wire' = wire
      BY <2>3, <3>1 DEF Written, HasClosure, Elems, Ordered
    <3>2. CASE wire' = [wire EXCEPT ![c] = Append(wire[c], Resync(dropped[c]))]
      <4>1. wire'[c] = Append(wire[c], Resync(dropped[c])) /\ wire[c] \in Seq(Message)
        BY <1>1, <3>2 DEF TypeOK
      <4>2. Resync(dropped[c]) \in Message
        <5>1. dropped[c] \in SUBSET Nat
          BY <1>1 DEF TypeOK
        <5> QED BY <5>1, MessageType
      <4>3. Resync(dropped[c]).kind = "resync"
        BY DEF Resync
      <4>4. Written(c)' = Written(c) /\ (HasClosure(c)' <=> HasClosure(c))
        BY <1>1, <4>1, <4>2, <4>3, WireLine
      <4>5. DataIncreasing(Append(wire[c], Resync(dropped[c])))
        BY <2>3, <4>1, <4>2, <4>3, WireInOrder DEF Ordered
      <4> QED BY <4>1, <4>4, <4>5
    <3> QED BY <1>5, <3>1, <3>2
  <2>5. Kept(c)' = Kept(c)
    BY <1>3, <2>2, <2>4 DEF Kept
  <2>6. Ending(c)'
    BY <1>2, <1>3, <2>1, <2>3, <2>4 DEF Ending
  <2>7. /\ Below(Written(c)', InHand(c)' \cup Elems(frames'[c]))
        /\ Below(InHand(c)', Elems(frames'[c]))
        /\ Increasing(frames'[c])
    BY <1>3, <2>2, <2>3, <2>4 DEF Ordered
  <2> QED BY <1>2, <1>3, <2>4, <2>5, <2>6, <2>7, LinePump
<1> QED BY <1>2, <1>4, <1>5

LEMMA WriteLine ==
  ASSUME TypeOK, TypeOK', NEW feed \in Feeds, InLine(feed), Write(ConnOf(feed))
  PROVE  InLine(feed)'
<1> DEFINE c == ConnOf(feed)
<1>1. c \in Conns
  BY FeedConn
<1>2. /\ pump[c] = "write"
      /\ \/ /\ wire' = [wire EXCEPT ![c] = Append(wire[c], Data(hand[c]))]
            /\ hand' = [hand EXCEPT ![c] = 0]
            /\ pump' = [pump EXCEPT ![c] = "select"]
         \/ pump' = [pump EXCEPT ![c] = "stopped"] /\ wire' = wire /\ hand' = hand
      /\ UNCHANGED <<offered, frames, finished, sending>>
  BY DEF Write, Stop
<1>3. /\ offered'[c] = offered[c] /\ finished'[c] = finished[c] /\ sending'[feed] = sending[feed]
      /\ frames'[c] = frames[c]
      /\ IsFull(c)' = IsFull(c) /\ Elems(frames'[c]) = Elems(frames[c])
  BY <1>2 DEF IsFull, Elems
<1>4. CASE pump' = [pump EXCEPT ![c] = "stopped"] /\ wire' = wire /\ hand' = hand
  <2>1. pump'[c] = "stopped" /\ wire'[c] = wire[c]
    BY <1>1, <1>4 DEF TypeOK
  <2> QED BY <1>3, <2>1, StopLine
<1>5. CASE /\ wire' = [wire EXCEPT ![c] = Append(wire[c], Data(hand[c]))]
           /\ hand' = [hand EXCEPT ![c] = 0]
           /\ pump' = [pump EXCEPT ![c] = "select"]
  <2>1. /\ pump'[c] = "select" /\ hand[c] \in Nat /\ wire[c] \in Seq(Message)
        /\ wire'[c] = Append(wire[c], Data(hand[c]))
    BY <1>1, <1>5 DEF TypeOK
  <2>2. InHand(c)' = {} /\ InHand(c) = {hand[c]}
    BY <1>2, <2>1 DEF InHand
  <2>3. Data(hand[c]).kind = "data" /\ Data(hand[c]).frame = hand[c] /\ Data(hand[c]) \in Message
    BY <2>1, MessageType DEF Data
  <2>4. Written(c)' = Written(c) \cup {hand[c]} /\ (HasClosure(c)' <=> HasClosure(c))
    BY <1>1, <2>1, <2>3, WireLine
  <2>5. Ordered(c) /\ Ending(c)
    BY DEF InLine
  <2>6. DataIncreasing(wire'[c])
    <3>1. \A x \in Elems(wire[c]) : x.kind = "data" => x.frame < hand[c]
      BY <2>2, <2>5 DEF Ordered, Below, Written
    <3> QED BY <2>1, <2>3, <2>5, <3>1, WireInOrder DEF Ordered
  <2>7. Kept(c)' = Kept(c)
    BY <1>3, <2>2, <2>4 DEF Kept
  <2>8. /\ Below(Written(c)', InHand(c)' \cup Elems(frames'[c]))
        /\ Below(InHand(c)', Elems(frames'[c]))
        /\ Increasing(frames'[c])
    BY <1>3, <2>2, <2>4, <2>5 DEF Ordered, Below
  <2>9. Ending(c)'
    BY <1>2, <1>3, <2>1, <2>4, <2>5 DEF Ending
  <2> QED BY <1>2, <1>3, <2>6, <2>7, <2>8, <2>9, LinePump
<1> QED BY <1>2, <1>4, <1>5

LEMMA WriteClosureLine ==
  ASSUME TypeOK, TypeOK', NEW feed \in Feeds, InLine(feed), WriteClosure(ConnOf(feed))
  PROVE  InLine(feed)'
<1> DEFINE c == ConnOf(feed)
<1>1. c \in Conns
  BY FeedConn
<1>2. /\ pump[c] = "closing"
      /\ pump' = [pump EXCEPT ![c] = "stopped"]
      /\ wire' = wire \/ wire' = [wire EXCEPT ![c] = Append(wire[c], Closure)]
      /\ UNCHANGED <<offered, frames, finished, sending, hand>>
  BY DEF WriteClosure, Stop
<1>3. /\ offered'[c] = offered[c] /\ finished'[c] = finished[c] /\ sending'[feed] = sending[feed]
      /\ frames'[c] = frames[c] /\ pump'[c] = "stopped"
      /\ IsFull(c)' = IsFull(c) /\ Elems(frames'[c]) = Elems(frames[c])
  BY <1>1, <1>2 DEF IsFull, Elems, TypeOK
<1>4. CASE wire' = wire
  BY <1>3, <1>4, StopLine
<1>5. CASE wire' = [wire EXCEPT ![c] = Append(wire[c], Closure)]
  <2>1. wire[c] \in Seq(Message) /\ wire'[c] = Append(wire[c], Closure)
    BY <1>1, <1>5 DEF TypeOK
  <2>2. Closure \in Message /\ Closure.kind = "close"
    BY MessageType DEF Closure
  <2>3. Written(c)' = Written(c)
    BY <1>1, <2>1, <2>2, WireLine
  <2>4. Ordered(c) /\ Ending(c) /\ Newest(feed)
    BY DEF InLine
  <2>5. frames[c] = <<>> /\ finished[c] /\ InHand(c) = {} /\ InHand(c)' = {}
    BY <1>2, <1>3, <2>4 DEF Ending, InHand
  <2>6. Elems(frames[c]) = {}
    BY <2>5 DEF Elems
  <2>7. offered[c] = 0 \/ offered[c] \in Written(c)
    BY <1>2, <2>4, <2>5, <2>6 DEF Newest, Kept
  <2>8. Ending(c)'
    BY <1>3, <2>3, <2>5, <2>7 DEF Ending
  <2>9. DataIncreasing(wire'[c])
    BY <2>1, <2>2, <2>4, WireInOrder DEF Ordered
  <2>10. Kept(c)' \subseteq Kept(c)
    BY <1>3, <2>3, <2>5 DEF Kept
  <2>11. /\ Below(Written(c)', InHand(c)' \cup Elems(frames'[c]))
         /\ Below(InHand(c)', Elems(frames'[c]))
         /\ Increasing(frames'[c])
    BY <1>3, <2>3, <2>4, <2>5 DEF Ordered
  <2> QED BY <1>3, <2>8, <2>9, <2>10, <2>11, LinePump
<1> QED BY <1>2, <1>4, <1>5

(* finish is called between two sends, and closing the socket touches      *)
(* nothing of this.                                                        *)
LEMMA FinishLine ==
  ASSUME TypeOK, NEW feed \in Feeds, InLine(feed), FinishFeed(feed)
  PROVE  InLine(feed)'
<1> DEFINE c == ConnOf(feed)
<1>1. c \in Conns
  BY FeedConn
<1>2. /\ sending[feed].at = "idle" /\ finished'[c] = TRUE
      /\ UNCHANGED <<offered, frames, dropped, sending, pump, hand, wire>>
  BY <1>1 DEF FinishFeed, Finish, TypeOK
<1>3. /\ Written(c)' = Written(c) /\ InHand(c)' = InHand(c) /\ HasClosure(c)' = HasClosure(c)
      /\ IsFull(c)' = IsFull(c) /\ Elems(frames'[c]) = Elems(frames[c])
  BY <1>2 DEF Written, InHand, HasClosure, IsFull, Elems
<1>4. Kept(c)' = Kept(c)
  BY <1>3 DEF Kept
<1>5. Ordered(c)'
  BY <1>2, <1>3, <1>4 DEF InLine, Ordered
<1>6. Newest(feed)'
  BY <1>2, <1>4 DEF InLine, Newest
<1>7. Ending(c)'
  BY <1>2, <1>3 DEF InLine, Ending
<1> QED BY <1>5, <1>6, <1>7 DEF InLine

(* What another producer, or the writer of another connection, leaves      *)
(* alone.                                                                  *)
LEMMA OtherProducer ==
  ASSUME TypeOK, NEW feed \in Feeds, SoleFeed(feed), NEW other \in Feeds, other # feed,
         Produce(other) \/ ProducerStep(other) \/ FinishFeed(other)
  PROVE  LET c == ConnOf(feed)
         IN /\ offered'[c] = offered[c] /\ frames'[c] = frames[c] /\ finished'[c] = finished[c]
            /\ dropped'[c] = dropped[c] /\ sending'[feed] = sending[feed]
            /\ pump'[c] = pump[c] /\ hand'[c] = hand[c] /\ wire'[c] = wire[c]
<1> DEFINE c == ConnOf(feed)
<1>1. c \in Conns /\ ConnOf(other) # c
  BY FeedConn DEF SoleFeed
<1>2. CASE Produce(other)
  BY <1>1, <1>2 DEF Produce, Send, TypeOK
<1>3. CASE Evict(other)
  BY <1>1, <1>3 DEF Evict, TypeOK
<1>4. CASE Count(other)
  BY <1>1, <1>4 DEF Count, TypeOK
<1>5. CASE Retry(other)
  BY <1>1, <1>5 DEF Retry, TypeOK
<1>6. CASE FinishFeed(other)
  BY <1>1, <1>6 DEF FinishFeed, Finish, TypeOK
<1> QED BY <1>2, <1>3, <1>4, <1>5, <1>6 DEF ProducerStep

LEMMA OtherPump ==
  ASSUME TypeOK, NEW c \in Conns, NEW d \in Conns, d # c, PumpStep(d)
  PROVE  /\ offered' = offered /\ frames'[c] = frames[c] /\ finished' = finished
         /\ dropped'[c] = dropped[c] /\ sending' = sending
         /\ pump'[c] = pump[c] /\ hand'[c] = hand[c] /\ wire'[c] = wire[c]
<1>1. CASE Take(d)
  BY <1>1 DEF Take, TypeOK
<1>2. CASE TakeEnd(d) \/ TakeDone(d)
  BY <1>2 DEF TakeEnd, TakeDone, Stop, TypeOK
<1>3. CASE Mark(d)
  BY <1>3 DEF Mark, Stop, TypeOK
<1>4. CASE Write(d)
  BY <1>4 DEF Write, Stop, TypeOK
<1>5. CASE WriteClosure(d)
  BY <1>5 DEF WriteClosure, Stop, TypeOK
<1> QED BY <1>1, <1>2, <1>3, <1>4, <1>5 DEF PumpStep

(* A connection with one producer writes its frames in their order, and a  *)
(* closure only behind the newest of them (conn.go: send and writePump).   *)
THEOREM NewestFrameFirst == Spec => []Queued
<1>1. Init => Queued
  <2> SUFFICES ASSUME Init, NEW feed \in Feeds PROVE InLine(feed)
    BY DEF Queued
  <2> DEFINE c == ConnOf(feed)
  <2>1. c \in Conns
    BY FeedConn
  <2>2. /\ frames[c] = <<>> /\ wire[c] = <<>> /\ offered[c] = 0 /\ pump[c] = "select"
        /\ sending[feed].at = "idle"
    BY <2>1, IdleType DEF Init
  <2>3. /\ Elems(frames[c]) = {} /\ Elems(wire[c]) = {} /\ InHand(c) = {}
        /\ Increasing(frames[c]) /\ DataIncreasing(wire[c])
    BY <2>2 DEF Elems, InHand, Increasing, DataIncreasing
  <2>4. Written(c) = {} /\ ~HasClosure(c)
    BY <2>3 DEF Written, HasClosure
  <2>5. Kept(c) = {}
    BY <2>3, <2>4 DEF Kept
  <2>6. Ordered(c)
    BY <2>3, <2>4, <2>5 DEF Ordered, Below
  <2>7. Newest(feed) /\ Ending(c)
    BY <2>2, <2>4 DEF Newest, Ending
  <2> QED BY <2>6, <2>7 DEF InLine
<1>2. TypeOK /\ TypeOK' /\ Queued /\ [Next]_vars => Queued'
  <2> SUFFICES ASSUME TypeOK, TypeOK', Queued, [Next]_vars,
                      NEW feed \in Feeds, SoleFeed(feed)
               PROVE  InLine(feed)'
    BY DEF Queued, SoleFeed
  <2> DEFINE c == ConnOf(feed)
  <2>1. InLine(feed) /\ c \in Conns
    BY FeedConn DEF Queued
  <2>2. ASSUME NEW other \in Feeds, Produce(other) \/ ProducerStep(other) \/ FinishFeed(other)
        PROVE  InLine(feed)'
    <3>1. CASE other = feed
      BY <2>1, <2>2, <3>1, SendLine, EvictLine, CountLine, RetryLine, FinishLine DEF ProducerStep
    <3>2. CASE other # feed
      BY <2>1, <2>2, <3>2, OtherProducer, LineFrame
    <3> QED BY <3>1, <3>2
  <2>3. ASSUME NEW d \in Conns, PumpStep(d) PROVE InLine(feed)'
    <3>1. CASE d = c /\ ~TakeDone(d)
      BY <2>1, <2>3, <3>1, TakeLine, TakeEndLine, MarkLine, WriteLine, WriteClosureLine DEF PumpStep
    <3>2. CASE d = c /\ TakeDone(d)
      <4>1. /\ pump'[c] = "stopped" /\ offered'[c] = offered[c] /\ finished'[c] = finished[c]
            /\ sending'[feed] = sending[feed] /\ frames'[c] = frames[c] /\ wire'[c] = wire[c]
        BY <2>1, <3>2 DEF TakeDone, Stop, TypeOK
      <4> QED BY <2>1, <4>1, StopLine
    <3>3. CASE d # c
      BY <2>1, <2>3, <3>3, OtherPump, LineFrame
    <3> QED BY <3>1, <3>2, <3>3
  <2>4. ASSUME UNCHANGED <<offered, frames, finished, sending, pump, hand, wire>>
        PROVE  InLine(feed)'
    BY <2>1, <2>4, LineFrame
  <2> QED BY <2>2, <2>3, <2>4 DEF Next, PeerGone, Close, vars
<1> QED BY <1>1, <1>2, TypeCorrect, PTL DEF Spec

-----------------------------------------------------------------------------
(* LossyStream.  What a closure takes besides: once the last marker is     *)
(* written nothing is counted any more, so nothing is left unreported.     *)

Lossy(c) == INSTANCE LossyStream WITH
  offered <- offered[c], sent <- wire[c], state <- StreamState(c)

MarkedLast ==
  \A feed \in Feeds :
    (SoleFeed(feed) /\ pump[ConnOf(feed)] = "closing") => dropped[ConnOf(feed)] = {}

LEMMA MarkedLastCorrect == Spec => []MarkedLast
<1>1. Init => MarkedLast
  BY FeedConn DEF Init, MarkedLast
<1>2. TypeOK /\ Queued /\ MarkedLast /\ [Next]_vars => MarkedLast'
  <2> SUFFICES ASSUME TypeOK, Queued, MarkedLast, [Next]_vars,
                      NEW feed \in Feeds, SoleFeed(feed), pump'[ConnOf(feed)] = "closing"
               PROVE  dropped'[ConnOf(feed)] = {}
    BY DEF MarkedLast, SoleFeed
  <2> DEFINE c == ConnOf(feed)
  <2>1. c \in Conns /\ Newest(feed) /\ Ending(c) /\ (pump[c] = "closing" => dropped[c] = {})
    BY FeedConn DEF Queued, InLine, MarkedLast
  <2>2. ASSUME NEW other \in Feeds, Produce(other) \/ ProducerStep(other) \/ FinishFeed(other)
        PROVE  dropped'[c] = {}
    <3>1. pump' = pump
      BY <2>2 DEF Produce, Send, ProducerStep, Evict, Count, Retry, FinishFeed, Finish
    <3>2. finished[c] /\ sending[feed].at = "idle"
      BY <2>1, <3>1 DEF Ending, Newest
    <3>3. CASE other # feed
      BY <2>1, <2>2, <3>1, <3>3, OtherProducer
    <3>4. CASE other = feed
      BY <2>1, <2>2, <3>1, <3>2, <3>4 DEF Produce, Send, ProducerStep, Evict, Count, Retry, FinishFeed, Finish
    <3> QED BY <3>3, <3>4
  <2>3. ASSUME NEW d \in Conns, PumpStep(d) PROVE dropped'[c] = {}
    <3>1. CASE d # c
      BY <2>1, <2>3, <3>1, OtherPump
    <3>2. CASE d = c /\ Mark(c)
      BY <2>1, <3>2 DEF Mark, TypeOK
    <3>3. CASE d = c /\ ~Mark(c)
      BY <2>1, <2>3, <3>3 DEF PumpStep, Take, TakeEnd, TakeDone, Write, WriteClosure, Stop, TypeOK
    <3> QED BY <3>1, <3>2, <3>3
  <2>4. CASE UNCHANGED <<pump, dropped>>
    BY <2>1, <2>4
  <2> QED BY <2>2, <2>3, <2>4 DEF Next, PeerGone, Close, vars
<1> QED BY <1>1, <1>2, TypeCorrect, NewestFrameFirst, PTL DEF Spec

LEMMA LossyState ==
  ASSUME NEW c
  PROVE  /\ Lossy(c)!Delivered = Written(c) /\ Lossy(c)!Reported = Reported(c)
         /\ pump[c] # "stopped" => StreamState(c) = "open"
         /\ pump[c] = "stopped" /\ HasClosure(c) => StreamState(c) = "complete"
         /\ pump[c] = "stopped" /\ ~HasClosure(c) => StreamState(c) = "broken"
<1>1. Lossy(c)!Delivered = Written(c) /\ Lossy(c)!Reported = Reported(c)
  BY DEF Lossy!Delivered, Lossy!Reported, Lossy!Messages, Written, Reported, Elems
<1>2. CASE pump[c] # "stopped"
  BY <1>1, <1>2 DEF StreamState
<1>3. CASE pump[c] = "stopped" /\ HasClosure(c)
  BY <1>1, <1>3 DEF StreamState, HasClosure
<1>4. CASE pump[c] = "stopped" /\ ~HasClosure(c)
  BY <1>1, <1>4 DEF StreamState, HasClosure
<1> QED BY <1>2, <1>3, <1>4

LEMMA StreamStep ==
  ASSUME TypeOK, TypeOK', Accounted, Queued, Queued', MarkedLast, [Next]_vars,
         NEW feed \in Feeds, SoleFeed(feed)
  PROVE  LET c == ConnOf(feed) IN [Lossy(c)!Next]_(Lossy(c)!vars)
<1> DEFINE c == ConnOf(feed)
<1>1. c \in Conns /\ InLine(feed) /\ InLine(feed)'
  BY FeedConn DEF Queued, SoleFeed
<1>2. Ordered(c) /\ Newest(feed) /\ Ending(c) /\ Ending(c)'
  BY <1>1 DEF InLine
<1>3. ASSUME offered'[c] = offered[c], wire'[c] = wire[c], pump'[c] = pump[c]
      PROVE  [Lossy(c)!Next]_(Lossy(c)!vars)
  BY <1>3 DEF StreamState, Lossy!vars
<1>4. CASE Produce(feed)
  <2>1. /\ offered[c] < MaxFrames /\ offered'[c] = offered[c] + 1 /\ ~finished[c]
        /\ wire' = wire /\ pump' = pump
    BY <1>1, <1>4 DEF Produce, Send, TypeOK
  <2>2. StreamState(c) # "complete"
    BY <1>2, <2>1, LossyState DEF Ending
  <2>3. StreamState(c)' = StreamState(c)
    BY <2>1 DEF StreamState
  <2> QED BY <2>1, <2>2, <2>3 DEF Lossy!Next, Lossy!Offer
<1>5. ASSUME pump[c] # "stopped", pump'[c] = "stopped", offered'[c] = offered[c], wire'[c] = wire[c]
      PROVE  [Lossy(c)!Next]_(Lossy(c)!vars)
  <2>1. ~HasClosure(c)
    BY <1>2, <1>5 DEF Ending
  <2>2. ~HasClosure(c)'
    BY <1>5, <2>1 DEF HasClosure, Elems
  <2>3. StreamState(c) = "open" /\ StreamState(c)' = "broken"
    BY <1>5, <2>2 DEF StreamState, HasClosure
  <2> QED BY <1>5, <2>3 DEF Lossy!Next, Lossy!Break
<1>6. ASSUME pump[c] # "stopped", pump'[c] # "stopped", offered'[c] = offered[c]
      PROVE  /\ wire'[c] = wire[c] => [Lossy(c)!Next]_(Lossy(c)!vars)
             /\ StreamState(c) = "open" /\ StreamState(c)' = "open"
             /\ Complete(c) /\ Once(c)
  <2>1. StreamState(c) = "open" /\ StreamState(c)' = "open"
    BY <1>6 DEF StreamState
  <2>2. Complete(c) /\ Once(c)
    BY <1>1, <1>6 DEF Accounted, Ledger
  <2> QED BY <1>6, <2>1, <2>2 DEF Lossy!vars
<1>7. CASE Take(c) \/ TakeEnd(c)
  BY <1>1, <1>6, <1>7 DEF Take, TakeEnd, TypeOK
<1>8. CASE TakeDone(c)
  BY <1>1, <1>5, <1>8 DEF TakeDone, Stop, TypeOK
<1>9. CASE Mark(c)
  <2>1. CASE Stop(c) /\ UNCHANGED wire
    BY <1>1, <1>5, <1>9, <2>1 DEF Mark, Stop, TypeOK
  <2>2. CASE pump' = [pump EXCEPT ![c] = IF @ = "mark" THEN "write" ELSE "closing"]
    <3>1. pump[c] # "stopped" /\ pump'[c] # "stopped" /\ offered'[c] = offered[c]
      BY <1>1, <1>9, <2>2 DEF Mark, TypeOK
    <3>2. CASE wire' = wire
      BY <1>6, <3>1, <3>2
    <3>3. CASE dropped[c] # {} /\ wire' = [wire EXCEPT ![c] = Append(@, Resync(dropped[c]))]
      <4>1. wire'[c] = Append(wire[c], Lossy(c)!Resync(dropped[c]))
        BY <1>1, <3>3 DEF Resync, Lossy!Resync, TypeOK
      <4>2. dropped[c] \cap (Written(c) \cup Reported(c)) = {} /\ dropped[c] \in SUBSET (1 .. offered[c])
        BY <1>6, <3>1 DEF Complete, Once
      <4>3. Lossy(c)!Report(dropped[c])
        BY <1>6, <3>1, <3>3, <4>1, <4>2, LossyState DEF Lossy!Report, Lossy!Settled
      <4> QED BY <4>2, <4>3 DEF Lossy!Next, Lossy!Settle
    <3> QED BY <1>9, <2>2, <3>2, <3>3 DEF Mark, Stop
  <2> QED BY <1>9, <2>1, <2>2 DEF Mark
<1>10. CASE Write(c)
  <2>1. CASE Stop(c) /\ UNCHANGED wire
    BY <1>1, <1>5, <1>10, <2>1 DEF Write, Stop, TypeOK
  <2>2. CASE wire' = [wire EXCEPT ![c] = Append(@, Data(hand[c]))] /\ pump' = [pump EXCEPT ![c] = "select"]
    <3>1. pump[c] = "write" /\ pump'[c] = "select" /\ offered'[c] = offered[c]
      BY <1>1, <1>10, <2>2 DEF Write, TypeOK
    <3>2. hand[c] \in InHand(c)
      BY <3>1 DEF InHand
    <3>3. hand[c] \in 1 .. offered[c] /\ \A m \in Written(c) : m < hand[c]
      BY <1>2, <3>2 DEF Ordered, Kept, Below
    <3>4. hand[c] \notin Reported(c)
      BY <1>6, <3>1, <3>2 DEF Once
    <3>5. wire'[c] = Append(wire[c], Lossy(c)!Data(hand[c]))
      BY <1>1, <2>2 DEF Data, Lossy!Data, TypeOK
    <3>6. Lossy(c)!Deliver(hand[c])
      BY <1>6, <3>1, <3>3, <3>4, <3>5, LossyState DEF Lossy!Deliver
    <3> QED BY <3>3, <3>6 DEF Lossy!Next, Lossy!Settle
  <2> QED BY <1>10, <2>1, <2>2 DEF Write
<1>11. CASE WriteClosure(c)
  <2>1. pump[c] = "closing" /\ pump'[c] = "stopped" /\ offered'[c] = offered[c]
    BY <1>1, <1>11 DEF WriteClosure, Stop, TypeOK
  <2>2. CASE wire' = wire
    BY <1>5, <2>1, <2>2
  <2>3. CASE wire' = [wire EXCEPT ![c] = Append(@, Closure)]
    <3>1. wire[c] \in Seq(Message) /\ wire'[c] = Append(wire[c], Closure)
      BY <1>1, <2>3 DEF TypeOK
    <3>2. Closure \in Message /\ Closure.kind = "close"
      BY MessageType DEF Closure
    <3>3. HasClosure(c)'
      BY <1>1, <3>1, <3>2, WireLine
    <3>4. StreamState(c) = "open" /\ StreamState(c)' = "complete"
      BY <2>1, <3>3 DEF StreamState, HasClosure
    <3>5. finished[c] /\ frames[c] = <<>> /\ sending[feed].at = "idle"
      BY <1>2, <2>1 DEF Ending, Newest
    <3>6. dropped[c] = {} /\ InHand(c) = {} /\ Elems(frames[c]) = {}
      BY <2>1, <3>5 DEF MarkedLast, InHand, Elems
    <3>7. HeldFor(c) = {}
      <4>1. \A g \in Feeds : ConnOf(g) = c => g = feed
        BY DEF SoleFeed
      <4>2. Holding(feed) = {}
        BY <3>5 DEF Holding
      <4> QED BY <4>1, <4>2 DEF HeldFor
    <3>8. Complete(c)
      BY <1>1, <2>1 DEF Accounted, Ledger
    <3>9. Lossy(c)!Settled = 1 .. offered[c]
      BY <3>6, <3>7, <3>8, LossyState DEF Complete, Lossy!Settled
    <3>10. wire'[c] = Append(wire[c], Lossy(c)!Closure)
      BY <3>1 DEF Closure, Lossy!Closure
    <3> QED BY <2>1, <3>4, <3>9, <3>10 DEF Lossy!Next, Lossy!Complete
  <2> QED BY <1>11, <2>2, <2>3 DEF WriteClosure
<1>12. ASSUME NEW other \in Feeds, other # feed, Produce(other) \/ ProducerStep(other) \/ FinishFeed(other)
       PROVE  [Lossy(c)!Next]_(Lossy(c)!vars)
  BY <1>3, <1>12, OtherProducer
<1>13. CASE ProducerStep(feed) \/ FinishFeed(feed)
  BY <1>3, <1>13 DEF ProducerStep, Evict, Count, Retry, FinishFeed, Finish
<1>14. ASSUME NEW d \in Conns, d # c, PumpStep(d) PROVE [Lossy(c)!Next]_(Lossy(c)!vars)
  BY <1>1, <1>3, <1>14, OtherPump
<1>15. CASE PumpStep(c)
  BY <1>7, <1>8, <1>9, <1>10, <1>11, <1>15 DEF PumpStep
<1>16. CASE UNCHANGED <<offered, wire, pump>>
  BY <1>3, <1>16
<1> QED BY <1>4, <1>12, <1>13, <1>14, <1>15, <1>16 DEF Next, PeerGone, Close, vars

(* A connection with one producer is a LossyStream: whatever the peer, the *)
(* queue and the scheduler do, what it was sent is the frames in order,    *)
(* the markers name frames it does not get, each once, and a closure means *)
(* that nothing is missing from both.                                      *)
THEOREM ImplementsLossy ==
  ASSUME NEW feed \in Feeds, SoleFeed(feed)
  PROVE  Spec => Lossy(ConnOf(feed))!Spec
<1>1. Init => Lossy(ConnOf(feed))!Init
  BY FeedConn DEF Init, Lossy!Init, StreamState
<1>2. TypeOK /\ TypeOK' /\ Accounted /\ Queued /\ Queued' /\ MarkedLast /\ [Next]_vars
        => [Lossy(ConnOf(feed))!Next]_(Lossy(ConnOf(feed))!vars)
  BY StreamStep
<1> QED BY <1>1, <1>2, TypeCorrect, AccountedInvariant, NewestFrameFirst, MarkedLastCorrect, PTL
        DEF Spec, Lossy!Spec
=============================================================================
