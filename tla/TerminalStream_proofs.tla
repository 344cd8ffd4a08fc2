----------------------- MODULE TerminalStream_proofs -----------------------
(***************************************************************************)
(* Proofs about TerminalStream, for any clients, queues and output: the    *)
(* composition implements the session and the connection it is made of,    *)
(* so that what is proved of each holds of it, and the two ends of the     *)
(* stream are what a client may rely on.                                   *)
(***************************************************************************)
EXTENDS TerminalStream, TLAPS

C == INSTANCE StreamConn_proofs WITH
  Conns <- Clients, Feeds <- {Feed(c) : c \in Clients}, MaxFrames <- MaxBytes + 2

P == INSTANCE PtySession_proofs WITH Consumers <- Clients

-----------------------------------------------------------------------------
(* The components' theorems apply: their assumptions hold, and the module  *)
(* with a component's proofs says the same of it as the component itself.  *)

LEMMA ConnAssumption == C!StreamConnAssumption
BY TerminalStreamAssumption DEF C!StreamConnAssumption, Feed

LEMMA SessionAssumption == P!PtySessionAssumption
BY TerminalStreamAssumption DEF P!PtySessionAssumption

LEMMA SameConn ==
  /\ Conn!Init <=> C!Init
  /\ [Conn!Next]_(Conn!vars) <=> [C!Next]_(C!vars)
<1>1. Conn!Init <=> C!Init
  BY DEF C!Init, Conn!Init, Conn!Idle, C!Idle, C!Inside, Conn!Inside
<1>2. [Conn!Next]_(Conn!vars) <=> [C!Next]_(C!vars)
  BY DEF Conn!Next, C!Next, C!vars, Conn!vars, C!Produce, Conn!Produce,
         C!ProducerStep, Conn!ProducerStep, C!FinishFeed, Conn!FinishFeed,
         C!PumpStep, Conn!PumpStep, C!PeerGone, Conn!PeerGone, C!Send, Conn!Send,
         C!Evict, Conn!Evict, C!Count, Conn!Count, C!Retry, Conn!Retry, C!Finish, Conn!Finish,
         C!Take, Conn!Take, C!TakeEnd, Conn!TakeEnd, C!TakeDone, Conn!TakeDone,
         C!Mark, Conn!Mark, C!Write, Conn!Write, C!WriteClosure, Conn!WriteClosure,
         C!Close, Conn!Close, C!Stop, Conn!Stop, C!ConnOf, Conn!ConnOf, C!Inside, Conn!Inside,
         C!Idle, Conn!Idle, C!IsFull, Conn!IsFull, C!Data, Conn!Data, C!Resync, Conn!Resync,
         C!Closure, Conn!Closure, C!SoleFeed, Conn!SoleFeed
<1> QED BY <1>1, <1>2

LEMMA SameSession ==
  /\ Pty!Init <=> P!Init
  /\ [Pty!Next]_(Pty!vars) <=> [P!Next]_(P!vars)
<1>1. Pty!Ring!NewRing(0) = P!Ring!NewRing(0)
  BY DEF Pty!Ring!NewRing, P!Ring!NewRing, Pty!Ring!Index, P!Ring!Index
<1>2. Pty!Ring!Snapshot(scrollback) = P!Ring!Snapshot(scrollback)
  BY DEF Pty!Ring!Snapshot, P!Ring!Snapshot, Pty!Ring!Least, P!Ring!Least
<1>3. Pty!Ring!Write(scrollback, inHand) = P!Ring!Write(scrollback, inHand)
  BY DEF Pty!Ring!Write, P!Ring!Write, Pty!Ring!WriteLong, P!Ring!WriteLong,
         Pty!Ring!WriteShort, P!Ring!WriteShort, Pty!Ring!Copy, P!Ring!Copy,
         Pty!Ring!From, P!Ring!From, Pty!Ring!Least, P!Ring!Least, Pty!Ring!Index, P!Ring!Index
<1>4. Pty!Init <=> P!Init
  BY <1>1 DEF Pty!Init, P!Init
<1>5. (UNCHANGED Pty!vars) <=> (UNCHANGED P!vars)
  BY DEF Pty!vars, P!vars, Pty!childVars, P!childVars, Pty!runVars, P!runVars,
         Pty!consumerVars, P!consumerVars
<1>6. /\ Pty!Produce <=> P!Produce
      /\ Pty!ChildExits <=> P!ChildExits
      /\ Pty!HolderExits <=> P!HolderExits
      /\ Pty!Hangup <=> P!Hangup
  BY DEF Pty!childVars, P!childVars, Pty!runVars, P!runVars,
         Pty!consumerVars, P!consumerVars, Pty!Produce, P!Produce, Pty!ChildExits, P!ChildExits,
         Pty!HolderExits, P!HolderExits, Pty!Hangup, P!Hangup
<1>7. Pty!SystemStep <=> P!SystemStep
  <2>1. Pty!Broadcast <=> P!Broadcast
    BY <1>3 DEF Pty!Broadcast, P!Broadcast, Pty!childVars, P!childVars, Pty!ToSet, P!ToSet
  <2>2. Pty!ReadSome <=> P!ReadSome
    BY DEF Pty!ReadSome, P!ReadSome, Pty!Read, P!Read, Pty!Bytes, P!Bytes,
           Pty!childVars, P!childVars, Pty!consumerVars, P!consumerVars
  <2>3. (Pty!EndOfFile <=> P!EndOfFile) /\ (Pty!Reap <=> P!Reap) /\ (Pty!Finish <=> P!Finish)
    BY DEF Pty!EndOfFile, P!EndOfFile, Pty!Reap, P!Reap, Pty!Finish, P!Finish,
           Pty!childVars, P!childVars, Pty!consumerVars, P!consumerVars
  <2>4. (Pty!Drained <=> P!Drained) /\ (Pty!DrainTimeout <=> P!DrainTimeout)
    BY DEF Pty!Drained, P!Drained, Pty!DrainTimeout, P!DrainTimeout, Pty!CloseMaster, P!CloseMaster,
           Pty!childVars, P!childVars, Pty!consumerVars, P!consumerVars
  <2>5. (Pty!ForceKill <=> P!ForceKill) /\ (Pty!KillReturns <=> P!KillReturns)
    BY DEF Pty!ForceKill, P!ForceKill, Pty!KillReturns, P!KillReturns,
           Pty!childVars, P!childVars, Pty!runVars, P!runVars, Pty!consumerVars, P!consumerVars
  <2> QED BY <2>1, <2>2, <2>3, <2>4, <2>5 DEF Pty!SystemStep, P!SystemStep
<1>8. ASSUME NEW c \in Clients
      PROVE  /\ Pty!Attach(c) <=> P!Attach(c)
             /\ Pty!Detach(c) <=> P!Detach(c)
             /\ Pty!Receive(c) <=> P!Receive(c)
  BY <1>2 DEF Pty!Attach, P!Attach, Pty!Detach, P!Detach, Pty!Receive, P!Receive,
              Pty!childVars, P!childVars, Pty!runVars, P!runVars
<1>9. [Pty!Next]_(Pty!vars) <=> [P!Next]_(P!vars)
  BY <1>5, <1>6, <1>7, <1>8 DEF Pty!Next, P!Next
<1> QED BY <1>4, <1>9

-----------------------------------------------------------------------------
(* Every step of the composition is a step of the session, or leaves it    *)
(* alone.                                                                  *)

LEMMA SessionStep == [Next]_vars => [Pty!Next]_(Pty!vars)
<1> SUFFICES ASSUME [Next]_vars PROVE [Pty!Next]_(Pty!vars)
  OBVIOUS
<1>1. ptyVars' = ptyVars => UNCHANGED Pty!vars
  BY DEF ptyVars, Pty!vars, Pty!childVars, Pty!runVars, Pty!consumerVars
<1>2. CASE PtyStep
  BY <1>2 DEF PtyStep, Pty!Next
<1>3. CASE KilledElsewhere
  BY <1>3 DEF KilledElsewhere, Pty!Next
<1>4. ASSUME NEW c \in Clients, Serve(c) PROVE [Pty!Next]_(Pty!vars)
  BY <1>1, <1>4 DEF Serve, Pty!Next
<1>5. ASSUME NEW c \in Clients, HandlerStep(c) PROVE [Pty!Next]_(Pty!vars)
  BY <1>1, <1>5 DEF HandlerStep, Upgrade, ReadFails, InputFails, KillDone, Release, Pty!Next
<1>6. ASSUME NEW c \in Clients, ForwardStep(c) PROVE [Pty!Next]_(Pty!vars)
  BY <1>1, <1>6 DEF ForwardStep, ForwardReplay, ForwardChunk, ForwardOutputEnds, ForwardExit,
                    ForwardFinish, Pty!Next
<1>7. ASSUME NEW c \in Clients, ConnStep(c) \/ ServerCloses(c) PROVE [Pty!Next]_(Pty!vars)
  BY <1>1, <1>7 DEF ConnStep, ServerCloses
<1>8. ASSUME NEW c \in Clients, ClientStep(c) PROVE [Pty!Next]_(Pty!vars)
  BY <1>1, <1>8 DEF ClientStep, ReadInputOrResize, ReadClose, InputTaken, ClientLeaves, Pty!Next
<1>9. CASE UNCHANGED vars
  BY <1>1, <1>9 DEF vars
<1> QED BY <1>2, <1>3, <1>4, <1>5, <1>6, <1>7, <1>8, <1>9 DEF Next

(* What is proved of a session on its own holds of one that is served over *)
(* WebSockets: handlers, forwarders and connections do to it nothing it    *)
(* does not expect (terminal.go against session.go).                       *)
THEOREM ServedSessionIsSession == Spec => Pty!Spec
<1>1. Init => Pty!Init
  BY DEF Init
<1> QED BY <1>1, SessionStep, PTL DEF Spec, Pty!Spec

LEMMA SessionFacts == Spec => [](P!StateTypes /\ P!Rest /\ P!Lives /\ P!Seam)
<1>1. Spec => P!Spec
  BY SameSession, ServedSessionIsSession, PTL DEF Pty!Spec, P!Spec
<1>2. P!Spec => [](P!StateTypes /\ P!Rest /\ P!Lives /\ P!Seam)
  BY SessionAssumption, P!StateTypesCorrect, P!RestCorrect, P!LivesCorrect, P!SeamInvariant, PTL
<1> QED BY <1>1, <1>2, PTL

-----------------------------------------------------------------------------
(* A connection is only finished by a forwarder that then returns, so none *)
(* sends after it: the contract of send and finish.                        *)

Gate ==
  /\ handler \in [Clients -> {"none", "upgrading", "reading", "writing", "killing", "left", "gone"}]
  /\ forward \in [Clients -> {"none", "replay", "chunks", "exit", "finish", "returned"}]
  /\ finished \in [Clients -> BOOLEAN] /\ closed \in [Clients -> BOOLEAN]
  /\ \A c \in Clients :
       /\ handler[c] \in {"none", "upgrading"} => forward[c] = "none"
       /\ finished[c] => forward[c] = "returned"

LEMMA GateCorrect == Spec => []Gate
<1>1. Init => Gate
  BY DEF Init, Conn!Init, Gate
<1>2. Gate /\ [Next]_vars => Gate'
  <2> SUFFICES ASSUME Gate, [Next]_vars PROVE Gate'
    OBVIOUS
  <2> USE DEF Gate, connVars, linkVars
  <2>1. CASE PtyStep
    BY <2>1 DEF PtyStep
  <2>2. CASE KilledElsewhere
    BY <2>2 DEF KilledElsewhere
  <2>3. ASSUME NEW c \in Clients, Serve(c) PROVE Gate'
    BY <2>3 DEF Serve
  <2>4. ASSUME NEW c \in Clients, HandlerStep(c) PROVE Gate'
    BY <2>4 DEF HandlerStep, Upgrade, ReadFails, InputFails, KillDone, Release, Leave, Conn!Close
  <2>5. ASSUME NEW c \in Clients, ForwardStep(c) PROVE Gate'
    BY <2>5 DEF ForwardStep, ForwardReplay, ForwardChunk, ForwardOutputEnds, ForwardExit,
                ForwardFinish, SendPayload, Conn!Send, Conn!Finish
  <2>6. ASSUME NEW c \in Clients, ConnStep(c) PROVE Gate'
    <3>1. finished' = finished /\ closed' \in [Clients -> BOOLEAN]
      BY <2>6 DEF ConnStep, Conn!ProducerStep, Conn!Evict, Conn!Count, Conn!Retry, Conn!PumpStep,
                  Conn!Take, Conn!TakeEnd, Conn!TakeDone, Conn!Mark, Conn!Write, Conn!WriteClosure,
                  Conn!Stop
    <3> QED BY <2>6, <3>1 DEF ConnStep
  <2>7. ASSUME NEW c \in Clients, ServerCloses(c) PROVE Gate'
    BY <2>7 DEF ServerCloses, Conn!Close
  <2>8. ASSUME NEW c \in Clients, ClientStep(c) PROVE Gate'
    BY <2>8 DEF ClientStep, ReadInputOrResize, ReadClose, InputTaken, ClientLeaves, Leave, Conn!Close
  <2>9. CASE UNCHANGED vars
    BY <2>9 DEF vars
  <2> QED BY <2>1, <2>2, <2>3, <2>4, <2>5, <2>6, <2>7, <2>8, <2>9 DEF Next
<1> QED BY <1>1, <1>2, PTL DEF Spec

LEMMA ConnStepAllowed == Gate /\ [Next]_vars => [Conn!Next]_(Conn!vars)
<1> SUFFICES ASSUME Gate, [Next]_vars PROVE [Conn!Next]_(Conn!vars)
  OBVIOUS
<1>1. connVars' = connVars => UNCHANGED Conn!vars
  BY DEF connVars, Conn!vars
<1>2. ASSUME NEW c \in Clients, Conn!Close(c) PROVE [Conn!Next]_(Conn!vars)
  <2>1. CASE closed[c]
    BY <1>2, <2>1 DEF Gate, Conn!Close, Conn!vars
  <2>2. CASE ~closed[c]
    BY <1>2, <2>2 DEF Conn!Next, Conn!PeerGone
  <2> QED BY <2>1, <2>2
<1>3. ASSUME NEW c \in Clients
      PROVE  /\ Feed(c) \in {Feed(d) : d \in Clients}
             /\ Conn!ConnOf(Feed(c)) = c
             /\ Conn!SoleFeed(Feed(c))
  BY DEF Conn!ConnOf, Conn!SoleFeed, Feed
<1>4. ASSUME NEW c \in Clients, Conn!Send(Feed(c)), forward[c] # "returned"
      PROVE  [Conn!Next]_(Conn!vars)
  BY <1>3, <1>4 DEF Gate, Conn!Next, Conn!Produce
<1>5. CASE PtyStep \/ KilledElsewhere
  BY <1>1, <1>5 DEF PtyStep, KilledElsewhere
<1>6. ASSUME NEW c \in Clients, Serve(c) PROVE [Conn!Next]_(Conn!vars)
  BY <1>1, <1>6 DEF Serve
<1>7. ASSUME NEW c \in Clients, HandlerStep(c) PROVE [Conn!Next]_(Conn!vars)
  BY <1>1, <1>2, <1>7 DEF HandlerStep, Upgrade, ReadFails, InputFails, KillDone, Release, Leave
<1>8. ASSUME NEW c \in Clients, ForwardStep(c) PROVE [Conn!Next]_(Conn!vars)
  <2>1. CASE ForwardReplay(c) \/ ForwardChunk(c) \/ ForwardExit(c)
    BY <1>1, <1>4, <2>1 DEF ForwardReplay, ForwardChunk, ForwardExit, SendPayload
  <2>2. CASE ForwardOutputEnds(c)
    BY <1>1, <2>2 DEF ForwardOutputEnds
  <2>3. CASE ForwardFinish(c)
    <3>1. ~finished[c]
      BY <2>3 DEF Gate, ForwardFinish
    <3>2. Conn!FinishFeed(Feed(c))
      BY <1>3, <2>3, <3>1 DEF ForwardFinish, CanSend, Conn!FinishFeed
    <3> QED BY <1>3, <3>2 DEF Conn!Next
  <2> QED BY <1>8, <2>1, <2>2, <2>3 DEF ForwardStep
<1>9. ASSUME NEW c \in Clients, ConnStep(c) PROVE [Conn!Next]_(Conn!vars)
  BY <1>3, <1>9 DEF ConnStep, Conn!Next
<1>10. ASSUME NEW c \in Clients, ServerCloses(c) PROVE [Conn!Next]_(Conn!vars)
  BY <1>2, <1>10 DEF ServerCloses
<1>11. ASSUME NEW c \in Clients, ClientStep(c) PROVE [Conn!Next]_(Conn!vars)
  BY <1>1, <1>2, <1>11 DEF ClientStep, ReadInputOrResize, ReadClose, InputTaken, ClientLeaves, Leave
<1>12. CASE UNCHANGED vars
  BY <1>1, <1>12 DEF vars
<1> QED BY <1>5, <1>6, <1>7, <1>8, <1>9, <1>10, <1>11, <1>12 DEF Next

(* What is proved of a connection on its own holds of each one that serves *)
(* a terminal: no forwarder sends after finish, finishes twice, or while   *)
(* it is inside send (terminal.go against the contract in conn.go).        *)
THEOREM ServedConnIsConn == Spec => Conn!Spec
<1>1. Init => Conn!Init
  BY DEF Init
<1> QED BY <1>1, GateCorrect, ConnStepAllowed, PTL DEF Spec, Conn!Spec

LEMMA ConnFacts == Spec => [](C!TypeOK /\ C!Queued)
<1>1. Spec => C!Spec
  BY SameConn, ServedConnIsConn, PTL DEF Conn!Spec, C!Spec
<1>2. C!Spec => [](C!TypeOK /\ C!Queued)
  BY ConnAssumption, C!TypeCorrect, C!NewestFrameFirst, PTL
<1> QED BY <1>1, <1>2, PTL

-----------------------------------------------------------------------------
(* What the frames of a connection carry: the output its consumer was      *)
(* replayed and has received, in order, and the exit status at the end.    *)

Payload == [exit : BOOLEAN, bytes : SUBSET Nat]

Below(S, T) == \A m \in S, n \in T : m < n

Taken(c) == ToSet(replay[c]) \cup ToSet(got[c])

Sent(c) ==
  /\ Len(payload[c]) = offered[c]
  /\ \A k \in 1 .. offered[c] : payload[c][k].bytes \subseteq Taken(c)
  /\ \A k, l \in 1 .. offered[c] :
       k < l => ~payload[c][k].exit /\ Below(payload[c][k].bytes, payload[c][l].bytes)

Stage(c) ==
  /\ forward[c] \in {"none", "replay"} => offered[c] = 0
  /\ forward[c] \notin {"finish", "returned"} =>
       \A k \in 1 .. offered[c] : ~payload[c][k].exit
  /\ forward[c] = "exit" => exitCh[c] = "status"
  /\ (forward[c] = "finish" \/ finished[c]) =>
       /\ offered[c] # 0 /\ payload[c][offered[c]].exit
       /\ exitCh[c] = "status"

Carried ==
  /\ payload \in [Clients -> Seq(Payload)]
  /\ \A c \in Clients : Sent(c) /\ Stage(c)

Parts ==
  /\ Gate /\ C!TypeOK /\ C!Queued
  /\ P!StateTypes /\ P!Rest /\ P!Lives /\ P!Seam

LEMMA SameToSet == \A q : P!ToSet(q) = ToSet(q)
BY DEF P!ToSet, ToSet

LEMMA PayloadType ==
  /\ Exit \in Payload /\ Exit.exit /\ Exit.bytes = {}
  /\ \A q \in Seq(Nat) :
       Output(q) \in Payload /\ ~Output(q).exit /\ Output(q).bytes = ToSet(q)
<1>1. Exit \in Payload /\ Exit.exit /\ Exit.bytes = {}
  BY DEF Exit, Payload
<1>2. ASSUME NEW q \in Seq(Nat)
      PROVE  Output(q) \in Payload /\ ~Output(q).exit /\ Output(q).bytes = ToSet(q)
  <2>1. ToSet(q) \in SUBSET Nat
    BY DEF ToSet
  <2> QED BY <2>1 DEF Output, Payload
<1> QED BY <1>1, <1>2

(* A status that is in the exit channel stays there.                       *)
LEMMA StatusStays ==
  ASSUME Parts, [Next]_vars, NEW c \in Clients, exitCh[c] = "status"
  PROVE  exitCh'[c] = "status"
<1>1. [Pty!Next]_(Pty!vars)
  BY SessionStep
<1>2. /\ exitCh \in [Clients -> {"open", "status", "closed"}]
      /\ \A d \in Clients : d \in consumers => exitCh[d] = "open"
  BY DEF Parts, P!StateTypes, P!Lives, P!Untouched
<1>3. ASSUME NEW d \in Clients, Pty!Attach(d) \/ Pty!Detach(d) \/ Pty!Receive(d)
      PROVE  exitCh'[c] = "status"
  BY <1>2, <1>3 DEF Pty!Attach, Pty!Detach, Pty!Receive
<1>4. CASE Pty!SystemStep
  BY <1>2, <1>4 DEF Pty!SystemStep, Pty!ReadSome, Pty!Read, Pty!Broadcast, Pty!EndOfFile, Pty!Reap,
         Pty!Drained, Pty!DrainTimeout, Pty!CloseMaster, Pty!Finish, Pty!ForceKill, Pty!KillReturns,
         Pty!consumerVars
<1>5. CASE Pty!Produce \/ Pty!ChildExits \/ Pty!HolderExits \/ Pty!Hangup
  BY <1>5 DEF Pty!Produce, Pty!ChildExits, Pty!HolderExits, Pty!Hangup, Pty!consumerVars
<1>6. CASE UNCHANGED Pty!vars
  BY <1>6 DEF Pty!vars, Pty!consumerVars
<1> QED BY <1>1, <1>3, <1>4, <1>5, <1>6 DEF Pty!Next

(* A step that leaves what a connection carries alone.                     *)
LEMMA CarriedFrame ==
  ASSUME Parts, [Next]_vars, NEW c \in Clients, Sent(c), Stage(c),
         payload'[c] = payload[c], offered'[c] = offered[c], finished'[c] = finished[c],
         forward'[c] = forward[c], got'[c] = got[c],
         replay'[c] = replay[c] \/ offered[c] = 0
  PROVE  Sent(c)' /\ Stage(c)'
<1>1. exitCh[c] = "status" => exitCh'[c] = "status"
  BY StatusStays
<1>2. Stage(c)'
  BY <1>1 DEF Stage
<1>3. CASE replay'[c] = replay[c]
  <2>1. Taken(c)' = Taken(c)
    BY <1>3 DEF Taken
  <2> QED BY <1>2, <2>1 DEF Sent
<1>4. CASE offered[c] = 0
  <2>1. 1 .. offered'[c] = {}
    BY <1>4
  <2> QED BY <1>2, <2>1 DEF Sent
<1> QED BY <1>2, <1>3, <1>4

(* The session does not touch what consumers have received.                *)
LEMMA ReceivedStays ==
  ASSUME Pty!Produce \/ Pty!ChildExits \/ Pty!HolderExits \/ Pty!Hangup \/ Pty!SystemStep
  PROVE  replay' = replay /\ got' = got
BY DEF Pty!Produce, Pty!ChildExits, Pty!HolderExits, Pty!Hangup, Pty!consumerVars,
       Pty!SystemStep, Pty!ReadSome, Pty!Read, Pty!Broadcast, Pty!EndOfFile, Pty!Reap,
       Pty!Drained, Pty!DrainTimeout, Pty!CloseMaster, Pty!Finish, Pty!ForceKill, Pty!KillReturns

(* One more frame: what it carries comes after everything sent before it.  *)
LEMMA SendSent ==
  ASSUME Parts, Carried, NEW c \in Clients, NEW what \in Payload, SendPayload(c, what),
         \A k \in 1 .. offered[c] :
           ~payload[c][k].exit /\ Below(payload[c][k].bytes, what.bytes),
         what.bytes \subseteq Taken(c)', Taken(c) \subseteq Taken(c)'
  PROVE  /\ payload' \in [Clients -> Seq(Payload)]
         /\ Sent(c)'
         /\ offered[c] \in Nat /\ offered'[c] = offered[c] + 1
         /\ payload'[c][offered'[c]] = what
         /\ \A k \in 1 .. offered[c] : payload'[c][k] = payload[c][k]
         /\ finished' = finished
         /\ \A d \in Clients : d # c => payload'[d] = payload[d] /\ offered'[d] = offered[d]
<1>1. offered \in [Clients -> Nat] /\ payload \in [Clients -> Seq(Payload)]
  BY DEF Parts, C!TypeOK, Carried
<1>2. /\ offered' = [offered EXCEPT ![c] = offered[c] + 1]
      /\ payload' = [payload EXCEPT ![c] = Append(payload[c], what)]
      /\ finished' = finished
  BY DEF SendPayload, Conn!Send, Conn!ConnOf, Feed
<1>3. Len(payload[c]) = offered[c]
  BY DEF Carried, Sent
<1>4. /\ offered'[c] = offered[c] + 1
      /\ payload'[c] = Append(payload[c], what)
      /\ \A d \in Clients : d # c => payload'[d] = payload[d] /\ offered'[d] = offered[d]
  BY <1>1, <1>2
<1>5. /\ Append(payload[c], what) \in Seq(Payload)
      /\ Len(Append(payload[c], what)) = offered[c] + 1
      /\ Append(payload[c], what)[offered[c] + 1] = what
      /\ \A k \in 1 .. offered[c] : Append(payload[c], what)[k] = payload[c][k]
  BY <1>1, <1>3
<1>6. payload' \in [Clients -> Seq(Payload)]
  BY <1>1, <1>2, <1>5
<1>7. ASSUME NEW k \in 1 .. offered[c] + 1
      PROVE  \/ k \in 1 .. offered[c] /\ payload'[c][k] = payload[c][k]
             \/ k = offered[c] + 1 /\ payload'[c][k] = what
  BY <1>1, <1>4, <1>5
<1>8. \A k \in 1 .. offered[c] + 1 : payload'[c][k].bytes \subseteq Taken(c)'
  BY <1>7 DEF Carried, Sent
<1>9. ASSUME NEW k \in 1 .. offered[c] + 1, NEW l \in 1 .. offered[c] + 1, k < l
      PROVE  ~payload'[c][k].exit /\ Below(payload'[c][k].bytes, payload'[c][l].bytes)
  <2>1. k \in 1 .. offered[c] /\ payload'[c][k] = payload[c][k]
    BY <1>1, <1>7, <1>9
  <2>2. CASE l = offered[c] + 1 /\ payload'[c][l] = what
    BY <2>1, <2>2
  <2>3. CASE l \in 1 .. offered[c] /\ payload'[c][l] = payload[c][l]
    BY <1>9, <2>1, <2>3 DEF Carried, Sent
  <2> QED BY <1>7, <2>2, <2>3
<1>10. Sent(c)'
  BY <1>4, <1>5, <1>8, <1>9 DEF Sent
<1> QED BY <1>1, <1>2, <1>4, <1>5, <1>6, <1>10

(* Everybody else, when one connection is sent a frame.                    *)
LEMMA OthersCarried ==
  ASSUME Parts, Carried, [Next]_vars, NEW c \in Clients, NEW d \in Clients, d # c,
         payload'[d] = payload[d], offered'[d] = offered[d], finished' = finished,
         forward'[d] = forward[d], got'[d] = got[d], replay' = replay
  PROVE  Sent(d)' /\ Stage(d)'
BY CarriedFrame DEF Carried

LEMMA ReplayCarried ==
  ASSUME Parts, Carried, [Next]_vars, NEW c \in Clients, ForwardReplay(c)
  PROVE  Carried'
<1>1. /\ forward[c] = "replay" /\ forward' = [forward EXCEPT ![c] = "chunks"]
      /\ replay' = replay /\ got' = got
  BY DEF ForwardReplay, ptyVars
<1>2. forward'[c] = "chunks" /\ \A d \in Clients : d # c => forward'[d] = forward[d]
  BY <1>1 DEF Parts, Gate
<1>3. offered[c] = 0 /\ ~finished[c]
  BY <1>1 DEF Carried, Stage, Parts, Gate
<1>4. CASE SendPayload(c, Output(replay[c]))
  <2>1. Output(replay[c]) \in Payload /\ ~Output(replay[c]).exit
        /\ Output(replay[c]).bytes = ToSet(replay[c])
    BY PayloadType DEF Parts, P!Rest
  <2>2. Taken(c)' = Taken(c) /\ Output(replay[c]).bytes \subseteq Taken(c)'
    BY <1>1, <2>1 DEF Taken
  <2>3. /\ payload' \in [Clients -> Seq(Payload)] /\ Sent(c)' /\ offered'[c] = 1
        /\ payload'[c][1] = Output(replay[c]) /\ finished' = finished
        /\ \A d \in Clients : d # c => payload'[d] = payload[d] /\ offered'[d] = offered[d]
    BY <1>3, <1>4, <2>1, <2>2, SendSent
  <2>4. Stage(c)'
    BY <1>2, <1>3, <2>1, <2>3 DEF Stage
  <2>5. ASSUME NEW d \in Clients, d # c PROVE Sent(d)' /\ Stage(d)'
    BY <1>1, <1>2, <2>3, <2>5, OthersCarried
  <2> QED BY <2>3, <2>4, <2>5 DEF Carried
<1>5. CASE UNCHANGED <<connVars, payload>>
  <2>1. UNCHANGED <<payload, offered, finished>>
    BY <1>5 DEF connVars
  <2>2. Sent(c)'
    BY <1>1, <2>1 DEF Carried, Sent, Taken
  <2>3. Stage(c)'
    BY <1>2, <1>3, <2>1 DEF Stage
  <2>4. ASSUME NEW d \in Clients, d # c PROVE Sent(d)' /\ Stage(d)'
    BY <1>1, <1>2, <2>1, <2>4, OthersCarried
  <2> QED BY <2>1, <2>2, <2>3, <2>4 DEF Carried
<1> QED BY <1>4, <1>5 DEF ForwardReplay

LEMMA ChunkCarried ==
  ASSUME Parts, Carried, [Next]_vars, NEW c \in Clients, ForwardChunk(c)
  PROVE  Carried'
<1> DEFINE h == Head(chunks[c])
<1>1. /\ forward[c] = "chunks" /\ forward' = forward /\ replay' = replay
      /\ chunks[c] # <<>> /\ got' = [got EXCEPT ![c] = got[c] \o h]
      /\ SendPayload(c, Output(h))
  BY DEF ForwardChunk, Pty!Receive
<1>2. /\ replay[c] \in Seq(Nat) /\ got \in [Clients -> Seq(Nat)] /\ chunks[c] \in Seq(Seq(Nat))
  BY DEF Parts, P!Rest
<1>3. h \in Seq(Nat) /\ h = chunks[c][1] /\ 1 \in DOMAIN chunks[c]
  BY <1>1, <1>2
<1> HIDE DEF h
<1>4. /\ got'[c] = got[c] \o h
      /\ \A d \in Clients : d # c => got'[d] = got[d]
  BY <1>1, <1>2
<1>5. ToSet(got[c] \o h) = ToSet(got[c]) \cup ToSet(h)
  <2>1. P!ToSet(got[c] \o h) = P!ToSet(got[c]) \cup P!ToSet(h)
    BY <1>2, <1>3, SessionAssumption, P!Joined
  <2> QED BY <2>1, SameToSet
<1>6. Taken(c)' = Taken(c) \cup ToSet(h)
  BY <1>1, <1>4, <1>5 DEF Taken
<1>7. Below(Taken(c), ToSet(h))
  <2>1. P!InOrder(replay[c], got[c], chunks[c])
    BY DEF Parts, P!Seam, P!Fits
  <2>2. P!ToSet(h) \subseteq P!Waiting(chunks[c])
    BY <1>3, SessionAssumption, P!PieceWaits
  <2>3. \A m \in P!ToSet(replay[c]) \cup P!ToSet(got[c]), n \in P!Waiting(chunks[c]) : m < n
    BY <2>1 DEF P!InOrder
  <2> QED BY <2>2, <2>3, SameToSet DEF Below, Taken
<1>8. Output(h) \in Payload /\ ~Output(h).exit /\ Output(h).bytes = ToSet(h)
  BY <1>3, PayloadType
<1>9. ~finished[c]
  BY <1>1 DEF Parts, Gate
<1>10. \A k \in 1 .. offered[c] :
         ~payload[c][k].exit /\ Below(payload[c][k].bytes, Output(h).bytes)
  BY <1>1, <1>7, <1>8 DEF Carried, Sent, Stage, Below
<1>11. /\ payload' \in [Clients -> Seq(Payload)] /\ Sent(c)' /\ offered[c] \in Nat
       /\ offered'[c] = offered[c] + 1 /\ payload'[c][offered'[c]] = Output(h)
       /\ \A k \in 1 .. offered[c] : payload'[c][k] = payload[c][k]
       /\ finished' = finished
       /\ \A d \in Clients : d # c => payload'[d] = payload[d] /\ offered'[d] = offered[d]
  BY <1>1, <1>6, <1>8, <1>10, SendSent
<1>12. Stage(c)'
  <2>1. ASSUME NEW k \in 1 .. offered'[c] PROVE ~payload'[c][k].exit
    <3>1. k \in 1 .. offered[c] \/ k = offered'[c]
      BY <1>11
    <3> QED BY <1>8, <1>10, <1>11, <3>1
  <2> QED BY <1>1, <1>9, <1>11, <2>1 DEF Stage
<1>13. ASSUME NEW d \in Clients, d # c PROVE Sent(d)' /\ Stage(d)'
  BY <1>1, <1>4, <1>11, <1>13, OthersCarried
<1> QED BY <1>11, <1>12, <1>13 DEF Carried

LEMMA ExitCarried ==
  ASSUME Parts, Carried, [Next]_vars, NEW c \in Clients, ForwardExit(c)
  PROVE  Carried'
<1>1. /\ forward[c] = "exit" /\ forward' = [forward EXCEPT ![c] = "finish"]
      /\ UNCHANGED <<replay, got, exitCh>>
      /\ SendPayload(c, Exit)
  BY DEF ForwardExit, ptyVars
<1>2. forward'[c] = "finish" /\ \A d \in Clients : d # c => forward'[d] = forward[d]
  BY <1>1 DEF Parts, Gate
<1>3. Taken(c)' = Taken(c)
  BY <1>1 DEF Taken
<1>4. \A k \in 1 .. offered[c] : ~payload[c][k].exit /\ Below(payload[c][k].bytes, Exit.bytes)
  BY <1>1, PayloadType DEF Carried, Stage, Below
<1>5. /\ payload' \in [Clients -> Seq(Payload)] /\ Sent(c)' /\ offered[c] \in Nat
      /\ offered'[c] = offered[c] + 1 /\ payload'[c][offered'[c]] = Exit
      /\ finished' = finished
      /\ \A d \in Clients : d # c => payload'[d] = payload[d] /\ offered'[d] = offered[d]
  BY <1>1, <1>3, <1>4, PayloadType, SendSent
<1>6. Stage(c)'
  <2>1. exitCh'[c] = "status" /\ offered'[c] # 0 /\ payload'[c][offered'[c]].exit
    BY <1>1, <1>5, PayloadType DEF Carried, Stage
  <2> QED BY <1>2, <2>1 DEF Stage
<1>7. ASSUME NEW d \in Clients, d # c PROVE Sent(d)' /\ Stage(d)'
  BY <1>1, <1>2, <1>5, <1>7, OthersCarried
<1> QED BY <1>5, <1>6, <1>7 DEF Carried

LEMMA OutputEndsCarried ==
  ASSUME Parts, Carried, [Next]_vars, NEW c \in Clients, ForwardOutputEnds(c)
  PROVE  Carried'
<1>1. /\ forward[c] = "chunks"
      /\ forward' = [forward EXCEPT ![c] = IF exitCh[c] = "status" THEN "exit" ELSE "returned"]
      /\ UNCHANGED <<replay, got, exitCh, payload, offered, finished>>
  BY DEF ForwardOutputEnds, ptyVars, connVars
<1>2. /\ forward'[c] = IF exitCh[c] = "status" THEN "exit" ELSE "returned"
      /\ \A d \in Clients : d # c => forward'[d] = forward[d]
  BY <1>1 DEF Parts, Gate
<1>3. ~finished[c]
  BY <1>1 DEF Parts, Gate
<1>4. Sent(c)'
  BY <1>1 DEF Carried, Sent, Taken
<1>5. Stage(c)'
  BY <1>1, <1>2, <1>3 DEF Carried, Stage
<1>6. ASSUME NEW d \in Clients, d # c PROVE Sent(d)' /\ Stage(d)'
  BY <1>1, <1>2, <1>6, OthersCarried
<1> QED BY <1>1, <1>4, <1>5, <1>6 DEF Carried

LEMMA FinishCarried ==
  ASSUME Parts, Carried, [Next]_vars, NEW c \in Clients, ForwardFinish(c)
  PROVE  Carried'
<1>1. /\ forward[c] = "finish" /\ forward' = [forward EXCEPT ![c] = "returned"]
      /\ finished' = [finished EXCEPT ![c] = TRUE]
      /\ UNCHANGED <<replay, got, exitCh, payload, offered>>
  BY DEF ForwardFinish, Conn!Finish, ptyVars
<1>2. /\ forward'[c] = "returned"
      /\ \A d \in Clients : d # c => forward'[d] = forward[d] /\ finished'[d] = finished[d]
  BY <1>1 DEF Parts, Gate
<1>3. Sent(c)'
  BY <1>1 DEF Carried, Sent, Taken
<1>4. Stage(c)'
  BY <1>1, <1>2 DEF Carried, Stage
<1>5. ASSUME NEW d \in Clients, d # c PROVE Sent(d)' /\ Stage(d)'
  BY <1>1, <1>2, <1>5, CarriedFrame DEF Carried
<1> QED BY <1>1, <1>3, <1>4, <1>5 DEF Carried

LEMMA UpgradeCarried ==
  ASSUME Parts, Carried, [Next]_vars, NEW c \in Clients, Upgrade(c)
  PROVE  Carried'
<1>1. /\ handler[c] = "upgrading"
      /\ forward' = forward \/ forward' = [forward EXCEPT ![c] = "replay"]
      /\ UNCHANGED <<replay, got, payload, offered, finished>>
  BY DEF Upgrade, Pty!Detach, ptyVars, connVars
<1>2. offered[c] = 0 /\ ~finished[c] /\ forward[c] = "none"
  BY <1>1 DEF Parts, Gate, Carried, Stage
<1>3. /\ forward'[c] \in {"none", "replay"}
      /\ \A d \in Clients : d # c => forward'[d] = forward[d]
  BY <1>1, <1>2 DEF Parts, Gate
<1>4. Sent(c)'
  BY <1>1 DEF Carried, Sent, Taken
<1>5. Stage(c)'
  BY <1>1, <1>2, <1>3 DEF Carried, Stage
<1>6. ASSUME NEW d \in Clients, d # c PROVE Sent(d)' /\ Stage(d)'
  BY <1>1, <1>3, <1>6, OthersCarried
<1> QED BY <1>1, <1>4, <1>5, <1>6 DEF Carried

LEMMA PartsCorrect == Spec => []Parts
BY SessionFacts, GateCorrect, ConnFacts, PTL DEF Parts

LEMMA CarriedCorrect == Spec => []Carried
<1>1. Init => Carried
  <2> SUFFICES ASSUME Init PROVE Carried
    OBVIOUS
  <2>1. /\ payload = [c \in Clients |-> <<>>] /\ offered = [c \in Clients |-> 0]
        /\ forward = [c \in Clients |-> "none"] /\ finished = [c \in Clients |-> FALSE]
    BY DEF Init, Conn!Init
  <2>2. payload \in [Clients -> Seq(Payload)]
    BY <2>1
  <2>3. ASSUME NEW c \in Clients PROVE Sent(c) /\ Stage(c)
    <3>1. payload[c] = <<>> /\ offered[c] = 0 /\ forward[c] = "none" /\ ~finished[c]
      BY <2>1
    <3> QED BY <3>1 DEF Sent, Stage
  <2> QED BY <2>2, <2>3 DEF Carried
<1>2. Parts /\ Carried /\ [Next]_vars => Carried'
  <2> SUFFICES ASSUME Parts, Carried, [Next]_vars PROVE Carried'
    OBVIOUS
  <2>1. ASSUME payload' = payload, offered' = offered, finished' = finished, forward' = forward,
               got' = got,
               \A d \in Clients : replay'[d] = replay[d] \/ offered[d] = 0
        PROVE  Carried'
    BY <2>1, CarriedFrame DEF Carried
  <2>2. connVars' = connVars => offered' = offered /\ finished' = finished
    BY DEF connVars
  <2>3. linkVars' = linkVars => payload' = payload /\ forward' = forward
    BY DEF linkVars
  <2>4. ptyVars' = ptyVars => replay' = replay /\ got' = got
    BY DEF ptyVars
  <2>5. CASE PtyStep
    BY <2>1, <2>2, <2>3, <2>5, ReceivedStays DEF PtyStep
  <2>6. CASE KilledElsewhere
    BY <2>1, <2>2, <2>6, ReceivedStays DEF KilledElsewhere
  <2>7. ASSUME NEW c \in Clients, Serve(c) PROVE Carried'
    <3>1. /\ handler[c] = "none" /\ UNCHANGED <<payload, offered, finished, forward, got>>
          /\ replay' = replay \/ replay' = [replay EXCEPT ![c] = Pty!Ring!Snapshot(scrollback)]
      BY <2>2, <2>4, <2>7 DEF Serve, Pty!Attach
    <3>2. offered[c] = 0
      BY <3>1 DEF Parts, Gate, Carried, Stage
    <3>3. \A d \in Clients : replay'[d] = replay[d] \/ offered[d] = 0
      BY <3>1, <3>2 DEF Parts, P!Rest
    <3> QED BY <2>1, <3>1, <3>3
  <2>8. ASSUME NEW c \in Clients, HandlerStep(c) PROVE Carried'
    <3>1. CASE Upgrade(c)
      BY <3>1, UpgradeCarried
    <3>2. CASE ReadFails(c) \/ InputFails(c) \/ KillDone(c) \/ Release(c)
      BY <2>1, <2>2, <2>4, <3>2 DEF ReadFails, InputFails, KillDone, Release, Leave, Conn!Close, Pty!Detach
    <3> QED BY <2>8, <3>1, <3>2 DEF HandlerStep
  <2>9. ASSUME NEW c \in Clients, ForwardStep(c) PROVE Carried'
    BY <2>9, ReplayCarried, ChunkCarried, OutputEndsCarried, ExitCarried, FinishCarried DEF ForwardStep
  <2>10. ASSUME NEW c \in Clients, ConnStep(c) PROVE Carried'
    <3>1. offered' = offered /\ finished' = finished
      BY <2>10 DEF ConnStep, Conn!ProducerStep, Conn!Evict, Conn!Count, Conn!Retry, Conn!PumpStep,
                   Conn!Take, Conn!TakeEnd, Conn!TakeDone, Conn!Mark, Conn!Write, Conn!WriteClosure
    <3> QED BY <2>1, <2>3, <2>4, <2>10, <3>1 DEF ConnStep
  <2>11. ASSUME NEW c \in Clients, ServerCloses(c) PROVE Carried'
    BY <2>1, <2>4, <2>11 DEF ServerCloses, Conn!Close
  <2>12. ASSUME NEW c \in Clients, ClientStep(c) PROVE Carried'
    BY <2>1, <2>2, <2>4, <2>12, ReceivedStays DEF ClientStep, ReadInputOrResize, ReadClose, InputTaken, ClientLeaves,
         Leave, Conn!Close
  <2>13. CASE UNCHANGED vars
    BY <2>1, <2>2, <2>3, <2>4, <2>13 DEF vars
  <2> QED BY <2>5, <2>6, <2>7, <2>8, <2>9, <2>10, <2>11, <2>12, <2>13 DEF Next
<1> QED BY <1>1, <1>2, PartsCorrect, PTL DEF Spec

-----------------------------------------------------------------------------
(* What a client may rely on.                                              *)

LEMMA SoleFeeds ==
  ASSUME Parts, NEW c \in Clients
  PROVE  C!Ordered(c) /\ C!Ending(c)
<1>1. Feed(c) \in {Feed(d) : d \in Clients} /\ C!ConnOf(Feed(c)) = c /\ C!SoleFeed(Feed(c))
  BY DEF C!ConnOf, C!SoleFeed, Feed
<1> QED BY <1>1 DEF Parts, C!Queued, C!InLine

(* A normal closure is only ever written after the exit frame, when the    *)
(* session is done: whatever frames the queue had to drop, the last one is *)
(* not among them (terminal.go: forward, conn.go: send and drain).         *)
THEOREM ClosureIsAnExit == Spec => []ClosureMeansExited
<1>1. Parts /\ Carried => ClosureMeansExited
  <2> SUFFICES ASSUME Parts, Carried, NEW c \in Clients, WroteClosure(c)
               PROVE  WroteExit(c) /\ run = "done"
    BY DEF ClosureMeansExited
  <2>1. C!HasClosure(c)
    BY DEF WroteClosure, C!HasClosure, C!Elems, Conn!Elems
  <2>2. finished[c] /\ (offered[c] = 0 \/ offered[c] \in C!Written(c))
    BY <2>1, SoleFeeds DEF C!Ending
  <2>3. offered[c] # 0 /\ payload[c][offered[c]].exit /\ exitCh[c] = "status"
    BY <2>2 DEF Carried, Stage
  <2>4. PICK m \in C!Elems(wire[c]) : m.kind = "data" /\ m.frame = offered[c]
    BY <2>2, <2>3 DEF C!Written
  <2>5. WroteExit(c)
    BY <2>3, <2>4 DEF WroteExit, Shown, C!Elems, Conn!Elems
  <2>6. run = "done"
    BY <2>3 DEF Parts, P!Lives
  <2> QED BY <2>5, <2>6
<1> QED BY <1>1, PartsCorrect, CarriedCorrect, PTL

(* What a client is sent is in order from end to end, replay, chunks and   *)
(* exit status, each at most once, whatever either queue dropped           *)
(* (session.go: attach and broadcast, terminal.go: forward, conn.go).      *)
THEOREM OutputStaysInOrder == Spec => []OutputInOrder
<1>1. Parts /\ Carried => OutputInOrder
  <2> SUFFICES ASSUME Parts, Carried, NEW c \in Clients,
                      NEW i \in DOMAIN wire[c], NEW j \in DOMAIN wire[c],
                      i < j, wire[c][i].kind = "data", wire[c][j].kind = "data"
               PROVE  LET a == Shown(c, wire[c][i])
                          b == Shown(c, wire[c][j])
                      IN ~a.exit /\ \A m \in a.bytes, n \in b.bytes : m < n
    BY DEF OutputInOrder
  <2> DEFINE k == wire[c][i].frame
             l == wire[c][j].frame
  <2>1. C!DataIncreasing(wire[c]) /\ C!Written(c) \subseteq 1 .. offered[c]
    BY SoleFeeds DEF C!Ordered, C!Kept
  <2>2. k < l
    BY <2>1 DEF C!DataIncreasing
  <2>3. k \in 1 .. offered[c] /\ l \in 1 .. offered[c]
    BY <2>1 DEF C!Written, C!Elems
  <2> HIDE DEF k, l
  <2>4. ~payload[c][k].exit /\ Below(payload[c][k].bytes, payload[c][l].bytes)
    BY <2>2, <2>3 DEF Carried, Sent
  <2> QED BY <2>4 DEF Shown, Below, k, l
<1> QED BY <1>1, PartsCorrect, CarriedCorrect, PTL

(* And each connection keeps the promise of LossyStream: what the queue    *)
(* could not carry is reported before the normal closure, once.            *)
THEOREM ServedConnIsLossy ==
  ASSUME NEW c \in Clients
  PROVE  Spec => C!Lossy(c)!Spec
<1>1. Feed(c) \in {Feed(d) : d \in Clients} /\ C!ConnOf(Feed(c)) = c /\ C!SoleFeed(Feed(c))
  BY DEF C!ConnOf, C!SoleFeed, Feed
<1>2. C!Spec => C!Lossy(c)!Spec
  BY <1>1, ConnAssumption, C!ImplementsLossy
<1>3. Spec => C!Spec
  BY SameConn, ServedConnIsConn, PTL DEF Conn!Spec, C!Spec
<1> QED BY <1>2, <1>3, PTL
============================================================================
