---------------------------- MODULE MCStreamConn ----------------------------
(***************************************************************************)
(* Two connections for TLC: a terminal connection, whose only producer is  *)
(* its forwarder, and an event connection with two publishers.  They share *)
(* no variable, so their interleavings with each other say nothing:        *)
(* a behaviour uses one of them, and TLC explores each alone.              *)
(***************************************************************************)
EXTENDS StreamConn

CONSTANTS p1, p2, terminal, events

TerminalAndEvents == {<<p1, terminal>>, <<p1, events>>, <<p2, events>>}

Used(c) == offered[c] > 0 \/ closed[c] \/ finished[c]

OneAtATime == \A c, d \in Conns : Used(c) /\ Used(d) => c = d

FairApart == Init /\ [][Next /\ OneAtATime']_vars /\ ProducersRun /\ PumpsRun

(* The terminal connection implements LossyStream, with its promise that   *)
(* every frame is settled in the end (PROTOCOL.md section 6).              *)
Lossy == INSTANCE LossyStream WITH
  offered <- offered[terminal], sent <- wire[terminal], state <- StreamState(terminal)

ImplementsLossyStream == Lossy!FairSpec
=============================================================================
