----------------------------- MODULE StreamConn -----------------------------
(***************************************************************************)
(* One outbound WebSocket connection of the loopback stream server         *)
(* (internal/stream/conn.go): a bounded queue of frames that never blocks  *)
(* its producer, and the one goroutine that writes to the socket.          *)
(*                                                                         *)
(* Frames are numbered in the order send is called on the connection, and  *)
(* the atomic byte counter `dropped` is abstracted to the SET of frames    *)
(* whose bytes it holds: adding to the counter adds the frame, the swap    *)
(* with zero takes the set, and a resync marker carries it.  (No frame is  *)
(* empty: the pump only broadcasts n > 0 bytes, replays are only sent when *)
(* they are not empty and envelopes never are, so the counter is zero      *)
(* exactly when the set is empty.)                                         *)
(*                                                                         *)
(* A feed <<p, c>> says that goroutine p may call send on connection c.    *)
(* A terminal connection has one feed (its forwarder), an event connection *)
(* has one per publisher.                                                  *)
(***************************************************************************)
EXTENDS Naturals, Sequences

CONSTANTS
  Conns,      \* the connections
  Feeds,      \* the pairs <<producer, connection>> that call send
  QueueCap,   \* outboundQueue
  MaxFrames   \* bound of the model: sends per connection

ASSUME StreamConnAssumption ==
  /\ QueueCap \in Nat \ {0}
  /\ MaxFrames \in Nat
  /\ \A feed \in Feeds : feed[2] \in Conns

VARIABLES
  offered,    \* offered[c]: how many frames send was called with
  frames,     \* frames[c]: the channel c.frames
  finished,   \* finished[c]: the channel has been closed by finish
  dropped,    \* dropped[c]: frames counted as lost since the last marker
  sending,    \* sending[feed]: where that producer is inside send
  pump,       \* pump[c]: where writePump is
  hand,       \* hand[c]: the frame writePump took and has not written, or 0
  wire,       \* wire[c]: every message written to the socket, oldest first
  closed      \* closed[c]: close has run (done closed, socket closed)

vars == <<offered, frames, finished, dropped, sending, pump, hand, wire, closed>>

-----------------------------------------------------------------------------
(* What is on the socket.                                                  *)

Data(n)   == [kind |-> "data", frame |-> n, lost |-> {}]
Resync(S) == [kind |-> "resync", frame |-> 0, lost |-> S]
Closure   == [kind |-> "close", frame |-> 0, lost |-> {}]

Message == [kind : {"data", "resync", "close"}, frame : Nat, lost : SUBSET Nat]

(* Where a producer is: "idle" between calls, "evict" after the first      *)
(* select of send found the queue full, "count" when it holds a discarded  *)
(* frame (victim) it has not added to the counter, "retry" before the last *)
(* select.                                                                 *)
Inside(at, n, v) == [at |-> at, frame |-> n, victim |-> v]

Idle == Inside("idle", 0, 0)

Sending == [at : {"idle", "evict", "count", "retry"}, frame : Nat, victim : Nat]

ConnOf(feed) == feed[2]

IsFull(c) == Len(frames[c]) >= QueueCap

TypeOK ==
  /\ offered  \in [Conns -> Nat]
  /\ frames   \in [Conns -> Seq(Nat)]
  /\ finished \in [Conns -> BOOLEAN]
  /\ dropped  \in [Conns -> SUBSET Nat]
  /\ sending  \in [Feeds -> Sending]
  /\ pump     \in [Conns -> {"select", "mark", "write", "drain", "closing", "stopped"}]
  /\ hand     \in [Conns -> Nat]
  /\ wire     \in [Conns -> Seq(Message)]
  /\ closed   \in [Conns -> BOOLEAN]
  /\ \A c \in Conns : Len(frames[c]) <= QueueCap

Init ==
  /\ offered  = [c \in Conns |-> 0]
  /\ frames   = [c \in Conns |-> <<>>]
  /\ finished = [c \in Conns |-> FALSE]
  /\ dropped  = [c \in Conns |-> {}]
  /\ sending  = [feed \in Feeds |-> Idle]
  /\ pump     = [c \in Conns |-> "select"]
  /\ hand     = [c \in Conns |-> 0]
  /\ wire     = [c \in Conns |-> <<>>]
  /\ closed   = [c \in Conns |-> FALSE]

-----------------------------------------------------------------------------
(* send: three selects, each atomic, with writePump running in between.    *)
(* (Variants named Bug... are the definitions after them with a plausible  *)
(* mistake, to show that the properties below tell the difference.)        *)

(* The first select: the frame fits, or the queue is full.                 *)
Send(feed) ==
  LET c == ConnOf(feed)
      n == offered[c] + 1
  IN /\ sending[feed].at = "idle"
     /\ offered[c] < MaxFrames
     /\ offered' = [offered EXCEPT ![c] = n]
     /\ \/ /\ ~IsFull(c)
           /\ frames' = [frames EXCEPT ![c] = Append(@, n)]
           /\ UNCHANGED sending
        \/ /\ IsFull(c)
           /\ sending' = [sending EXCEPT ![feed] = Inside("evict", n, 0)]
           /\ UNCHANGED frames
     /\ UNCHANGED <<finished, dropped, pump, hand, wire, closed>>

(* Full means the new frame is lost, not the oldest.                       *)
BugEvictNewest(feed) ==
  LET n == sending[feed].frame
  IN /\ sending[feed].at = "evict"
     /\ sending' = [sending EXCEPT ![feed] = Inside("count", n, n)]
     /\ UNCHANGED <<offered, frames, finished, dropped, pump, hand, wire, closed>>

(* The second select: the oldest frame is taken out, unless the queue has  *)
(* been emptied meanwhile.                                                 *)
Evict(feed) ==
  LET c == ConnOf(feed)
      n == sending[feed].frame
  IN /\ sending[feed].at = "evict"
     /\ \/ /\ frames[c] # <<>>
           /\ frames' = [frames EXCEPT ![c] = Tail(@)]
           /\ sending' = [sending EXCEPT ![feed] = Inside("count", n, Head(frames[c]))]
        \/ /\ frames[c] = <<>>
           /\ sending' = [sending EXCEPT ![feed] = Inside("retry", n, 0)]
           /\ UNCHANGED frames
     /\ UNCHANGED <<offered, finished, dropped, pump, hand, wire, closed>>

(* The discarded frame is not counted.                                     *)
BugCountNothing(feed) ==
  LET s == sending[feed]
  IN /\ s.at = "count"
     /\ sending' = [sending EXCEPT ![feed] =
                      IF s.victim = s.frame THEN Idle ELSE Inside("retry", s.frame, 0)]
     /\ UNCHANGED <<offered, frames, finished, dropped, pump, hand, wire, closed>>

(* dropped.Add: after the second select when the victim is the oldest      *)
(* frame, or at the end of send when it is the new frame itself.           *)
Count(feed) ==
  LET c == ConnOf(feed)
      s == sending[feed]
  IN /\ s.at = "count"
     /\ dropped' = [dropped EXCEPT ![c] = @ \cup {s.victim}]
     /\ sending' = [sending EXCEPT ![feed] =
                      IF s.victim = s.frame THEN Idle ELSE Inside("retry", s.frame, 0)]
     /\ UNCHANGED <<offered, frames, finished, pump, hand, wire, closed>>

(* The last select has no default: it waits for room.                      *)
BugRetryBlocks(feed) ==
  LET c == ConnOf(feed)
  IN /\ sending[feed].at = "retry"
     /\ ~IsFull(c)
     /\ frames' = [frames EXCEPT ![c] = Append(@, sending[feed].frame)]
     /\ sending' = [sending EXCEPT ![feed] = Idle]
     /\ UNCHANGED <<offered, finished, dropped, pump, hand, wire, closed>>

(* The last select: the frame fits now, or another producer filled the     *)
(* queue again and the new frame is the one to be counted.                 *)
Retry(feed) ==
  LET c == ConnOf(feed)
      s == sending[feed]
  IN /\ s.at = "retry"
     /\ \/ /\ ~IsFull(c)
           /\ frames' = [frames EXCEPT ![c] = Append(@, s.frame)]
           /\ sending' = [sending EXCEPT ![feed] = Idle]
        \/ /\ IsFull(c)
           /\ sending' = [sending EXCEPT ![feed] = Inside("count", s.frame, s.frame)]
           /\ UNCHANGED frames
     /\ UNCHANGED <<offered, finished, dropped, pump, hand, wire, closed>>

(* finish: the only producer of the connection closes the channel.         *)
Finish(c) ==
  /\ finished' = [finished EXCEPT ![c] = TRUE]
  /\ UNCHANGED <<offered, frames, dropped, sending, pump, hand, wire, closed>>

-----------------------------------------------------------------------------
(* writePump.  A write that succeeds appends to the wire; one that fails   *)
(* (always possible: the peer may be gone, and certain once the socket is  *)
(* closed) ends the pump, whose deferred close closes the connection.      *)

Stop(c) ==
  /\ pump' = [pump EXCEPT ![c] = "stopped"]
  /\ closed' = [closed EXCEPT ![c] = TRUE]

(* One case of the select: the next frame.                                 *)
Take(c) ==
  /\ pump[c] = "select"
  /\ frames[c] # <<>>
  /\ hand' = [hand EXCEPT ![c] = Head(frames[c])]
  /\ frames' = [frames EXCEPT ![c] = Tail(@)]
  /\ pump' = [pump EXCEPT ![c] = "mark"]
  /\ UNCHANGED <<offered, finished, dropped, sending, wire, closed>>

(* finish ends the stream at once, whatever the queue still holds.         *)
BugEndUndrained(c) ==
  /\ pump[c] = "select" /\ finished[c]
  /\ pump' = [pump EXCEPT ![c] = "drain"]
  /\ UNCHANGED <<offered, frames, finished, dropped, sending, hand, wire, closed>>

(* The same case when the channel is closed and empty: drain.              *)
TakeEnd(c) ==
  /\ pump[c] = "select"
  /\ frames[c] = <<>>
  /\ finished[c]
  /\ pump' = [pump EXCEPT ![c] = "drain"]
  /\ UNCHANGED <<offered, frames, finished, dropped, sending, hand, wire, closed>>

(* The pump does not select on done.                                       *)
BugDoneUnseen(c) == FALSE /\ UNCHANGED vars

(* The other case: the connection was closed by someone else.              *)
TakeDone(c) ==
  /\ pump[c] = "select"
  /\ closed[c]
  /\ Stop(c)
  /\ UNCHANGED <<offered, frames, finished, dropped, sending, hand, wire>>

(* The counter is loaded, not swapped with zero.                           *)
BugMarkKeepsCount(c) ==
  /\ pump[c] \in {"mark", "drain"}
  /\ wire' = [wire EXCEPT ![c] = IF dropped[c] = {} THEN @ ELSE Append(@, Resync(dropped[c]))]
  /\ pump' = [pump EXCEPT ![c] = IF @ = "mark" THEN "write" ELSE "closing"]
  /\ UNCHANGED <<offered, frames, finished, dropped, sending, hand, closed>>

(* A marker is only written at the end of the queue.                       *)
BugMarkOnlyAtEnd(c) ==
  /\ pump[c] \in {"mark", "drain"}
  /\ pump' = [pump EXCEPT ![c] = IF @ = "mark" THEN "write" ELSE "closing"]
  /\ UNCHANGED <<offered, frames, finished, dropped, sending, hand, wire, closed>>

(* markResync: swap the counter with zero and write the marker, before a   *)
(* frame (write) or before the closure (drain).                            *)
Mark(c) ==
  /\ pump[c] \in {"mark", "drain"}
  /\ dropped' = [dropped EXCEPT ![c] = {}]
  /\ \/ /\ \/ dropped[c] = {} /\ UNCHANGED wire
           \/ /\ dropped[c] # {}
              /\ ~closed[c]
              /\ wire' = [wire EXCEPT ![c] = Append(@, Resync(dropped[c]))]
        /\ pump' = [pump EXCEPT ![c] = IF @ = "mark" THEN "write" ELSE "closing"]
        /\ UNCHANGED closed
     \/ /\ dropped[c] # {}
        /\ Stop(c)
        /\ UNCHANGED wire
  /\ UNCHANGED <<offered, frames, finished, sending, hand>>

(* The WriteMessage of the frame itself.                                   *)
Write(c) ==
  /\ pump[c] = "write"
  /\ \/ /\ ~closed[c]
        /\ wire' = [wire EXCEPT ![c] = Append(@, Data(hand[c]))]
        /\ hand' = [hand EXCEPT ![c] = 0]
        /\ pump' = [pump EXCEPT ![c] = "select"]
        /\ UNCHANGED closed
     \/ /\ Stop(c)
        /\ UNCHANGED <<wire, hand>>
  /\ UNCHANGED <<offered, frames, finished, dropped, sending>>

(* The end of drain: a normal closure, and the pump returns.               *)
WriteClosure(c) ==
  /\ pump[c] = "closing"
  /\ Stop(c)
  /\ \/ ~closed[c] /\ wire' = [wire EXCEPT ![c] = Append(@, Closure)]
     \/ UNCHANGED wire
  /\ UNCHANGED <<offered, frames, finished, dropped, sending, hand>>

(* close, called by the read loop when the peer goes away or by Shutdown.  *)
Close(c) ==
  /\ closed' = [closed EXCEPT ![c] = TRUE]
  /\ UNCHANGED <<offered, frames, finished, dropped, sending, pump, hand, wire>>

-----------------------------------------------------------------------------

ProducerStep(feed) == Evict(feed) \/ Count(feed) \/ Retry(feed)

PumpStep(c) ==
  Take(c) \/ TakeEnd(c) \/ TakeDone(c) \/ Mark(c) \/ Write(c) \/ WriteClosure(c)

(* The contract of send and finish: finish is called by the only producer  *)
(* of the connection, between two sends, and it sends nothing afterwards.  *)
SoleFeed(feed) == \A other \in Feeds : ConnOf(other) = ConnOf(feed) => other = feed

Produce(feed) == ~finished[ConnOf(feed)] /\ Send(feed)

FinishFeed(feed) ==
  /\ SoleFeed(feed)
  /\ sending[feed].at = "idle"
  /\ ~finished[ConnOf(feed)]
  /\ Finish(ConnOf(feed))

PeerGone(c) == ~closed[c] /\ Close(c)

Next ==
  \/ \E feed \in Feeds : Produce(feed) \/ ProducerStep(feed) \/ FinishFeed(feed)
  \/ \E c \in Conns : PumpStep(c) \/ PeerGone(c)

Spec == Init /\ [][Next]_vars

(* Producers are goroutines that run on; the pump runs on as long as the   *)
(* peer reads (a write that blocks forever is a pump that stops stepping). *)
ProducersRun == \A feed \in Feeds : WF_vars(ProducerStep(feed))
PumpsRun     == \A c \in Conns : WF_vars(PumpStep(c))

FairSpec == Spec /\ ProducersRun /\ PumpsRun

-----------------------------------------------------------------------------
(* Properties.                                                             *)

Elems(q) == {q[i] : i \in DOMAIN q}

Written(c)  == {m.frame : m \in {x \in Elems(wire[c]) : x.kind = "data"}}
Reported(c) == UNION {m.lost : m \in Elems(wire[c])}
InHand(c)   == IF pump[c] \in {"mark", "write"} THEN {hand[c]} ELSE {}

(* The frames a producer holds inside send.                                *)
Holding(feed) ==
  CASE sending[feed].at = "idle"  -> {}
    [] sending[feed].at = "count" -> {sending[feed].frame, sending[feed].victim}
    [] OTHER                      -> {sending[feed].frame}

HeldFor(c) == UNION {Holding(feed) : feed \in {x \in Feeds : ConnOf(x) = c}}

(* No frame disappears: whatever send was called with has been written,    *)
(* reported by a marker, counted for the next marker, queued, or is in the *)
(* hands of the pump or of a producer.  conn.go's "counted, never hidden", *)
(* for every interleaving of send with writePump.                          *)
NothingHidden ==
  \A c \in Conns : pump[c] # "stopped" =>
    1 .. offered[c] =
      Written(c) \cup Reported(c) \cup dropped[c] \cup Elems(frames[c]) \cup InHand(c) \cup HeldFor(c)

(* And nothing is accounted for twice: a frame that was written is never   *)
(* also reported as lost, and no frame is reported by two markers.         *)
NothingCountedTwice ==
  \A c \in Conns : pump[c] # "stopped" =>
    /\ Written(c) \cap (Reported(c) \cup dropped[c]) = {}
    /\ Reported(c) \cap dropped[c] = {}
    /\ (Elems(frames[c]) \cup InHand(c) \cup HeldFor(c))
         \cap (Written(c) \cup Reported(c) \cup dropped[c]) = {}
    /\ Elems(frames[c]) \cap (InHand(c) \cup HeldFor(c)) = {}
    /\ InHand(c) \cap HeldFor(c) = {}

(* send never blocks: every producer gets out of it, also when nothing     *)
(* takes from a full queue any more (the pump stopped, the peer is gone).  *)
ProducerNeverWaits ==
  \A feed \in Feeds : sending[feed].at # "idle" ~> sending[feed].at = "idle"

(* Nothing stays hidden for long: with one producer, frames counted as     *)
(* lost are reported while the connection lasts, without waiting for a     *)
(* later send.  It holds because evicting a frame always leaves a newer    *)
(* one to be written.  (With two producers it does not hold: the newest    *)
(* frame can be counted after the pump emptied the queue, and the marker   *)
(* then waits for the next send.)                                          *)
HolesReported ==
  \A feed \in Feeds : SoleFeed(feed) =>
    LET c == ConnOf(feed) IN dropped[c] # {} ~> (dropped[c] = {} \/ closed[c])

(* How a connection implements LossyStream: its wire is what the peer was  *)
(* sent, and the stream is as open as its writer.                          *)
StreamState(c) ==
  IF pump[c] # "stopped" THEN "open"
  ELSE IF \E m \in Elems(wire[c]) : m.kind = "close" THEN "complete" ELSE "broken"
=============================================================================
