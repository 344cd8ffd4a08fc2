----------------------------- MODULE LossyStream -----------------------------
(***************************************************************************)
(* What a stream connection promises (PROTOCOL.md section 6), without      *)
(* queues, counters or goroutines: frames are offered one after another;   *)
(* each is delivered, in order, or reported as lost, never both; and the   *)
(* stream is complete only when every frame offered is one or the other.   *)
(* A stream that breaks (the peer is gone) promises nothing more.          *)
(***************************************************************************)
EXTENDS Naturals, Sequences

CONSTANT MaxFrames

VARIABLES
  offered,    \* how many frames have been offered; they are numbered from 1
  sent,       \* the messages the peer was sent, oldest first
  state       \* "open", "complete" or "broken"

vars == <<offered, sent, state>>

(* A message carries a frame, names the frames that are missing, or ends   *)
(* the stream.                                                             *)
Data(n)   == [kind |-> "data", frame |-> n, lost |-> {}]
Resync(S) == [kind |-> "resync", frame |-> 0, lost |-> S]
Closure   == [kind |-> "close", frame |-> 0, lost |-> {}]

Messages  == {sent[i] : i \in DOMAIN sent}
Delivered == {m.frame : m \in {x \in Messages : x.kind = "data"}}
Reported  == UNION {m.lost : m \in Messages}
Settled   == Delivered \cup Reported

Init ==
  /\ offered = 0
  /\ sent = <<>>
  /\ state = "open"

Offer ==
  /\ state # "complete"
  /\ offered < MaxFrames
  /\ offered' = offered + 1
  /\ UNCHANGED <<sent, state>>

Deliver(n) ==
  /\ state = "open"
  /\ n \notin Reported
  /\ \A m \in Delivered : m < n
  /\ sent' = Append(sent, Data(n))
  /\ UNCHANGED <<offered, state>>

Report(S) ==
  /\ state = "open"
  /\ S # {}
  /\ S \cap Settled = {}
  /\ sent' = Append(sent, Resync(S))
  /\ UNCHANGED <<offered, state>>

Complete ==
  /\ state = "open"
  /\ Settled = 1 .. offered
  /\ sent' = Append(sent, Closure)
  /\ state' = "complete"
  /\ UNCHANGED offered

Break ==
  /\ state = "open"
  /\ state' = "broken"
  /\ UNCHANGED <<offered, sent>>

Settle ==
  \/ \E n \in 1 .. offered : Deliver(n)
  \/ \E S \in SUBSET (1 .. offered) : Report(S)

Next == Offer \/ Settle \/ Complete \/ Break

(* Every frame is settled in the end, or the stream breaks.                *)
FairSpec == Init /\ [][Next]_vars /\ WF_vars(Settle)

Spec == Init /\ [][Next]_vars
=============================================================================
