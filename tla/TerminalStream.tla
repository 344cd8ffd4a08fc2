--------------------------- MODULE TerminalStream ---------------------------
(***************************************************************************)
(* A terminal session served over WebSockets (internal/stream/terminal.go  *)
(* with internal/app/terminals.go): PtySession and StreamConn composed by  *)
(* the handler that attaches a connection, the forwarder that carries the  *)
(* session's output to it, and the read loop that carries the client's     *)
(* keystrokes and control messages back.                                   *)
(*                                                                         *)
(* One session, several connections.  A connection c is also the consumer  *)
(* it attaches and the only feed <<c, c>> of its queue.  The exit status   *)
(* travels through one more channel and goroutine (exitCodes), which only  *)
(* delays it and is not modelled.                                          *)
(***************************************************************************)
EXTENDS Naturals, Sequences, FiniteSets, SequencesExt

CONSTANTS
  Clients,        \* the connections
  QueueCap,       \* outboundQueue
  ScrollbackCap,  \* scrollbackBytes
  ReadChunk,      \* readChunkBytes
  ConsumerQueue,  \* consumerQueue
  MaxBytes        \* bound of the model: bytes of output

ASSUME TerminalStreamAssumption ==
  /\ QueueCap \in Nat \ {0} /\ ConsumerQueue \in Nat \ {0}
  /\ ScrollbackCap \in Nat \ {0} /\ ReadChunk \in Nat \ {0}
  /\ MaxBytes \in Nat

VARIABLES
  child, holder, produced, pumped, inHand, master, run, cut, reader, kill, scrollback,
  consumers, attach, replay, chunks, closes, exitCh, got, lost

VARIABLES
  offered, frames, finished, dropped, sending, pump, hand, wire, closed

VARIABLES
  registered, \* the manager holds the session
  handler,    \* handler[c]: where serveTerminal is
  forward,    \* forward[c]: where the forwarder is
  payload,    \* payload[c][n]: what frame n of the connection carries
  link,       \* link[c]: the socket is "up", or "down" when a side has given it up
  announced   \* exits published on the event channel

ptyVars  == <<child, holder, produced, pumped, inHand, master, run, cut, reader, kill, scrollback,
              consumers, attach, replay, chunks, closes, exitCh, got, lost>>
connVars == <<offered, frames, finished, dropped, sending, pump, hand, wire, closed>>
linkVars == <<registered, handler, forward, payload, link, announced>>
vars     == <<ptyVars, connVars, linkVars>>

Pty == INSTANCE PtySession WITH Consumers <- Clients

Feed(c) == <<c, c>>

Conn == INSTANCE StreamConn WITH
  Conns <- Clients, Feeds <- {Feed(c) : c \in Clients}, MaxFrames <- MaxBytes + 2

(* A frame carries output (the bytes in it) or the exit status.            *)
Output(p) == [exit |-> FALSE, bytes |-> ToSet(p)]
Exit      == [exit |-> TRUE, bytes |-> {}]

Init ==
  /\ Pty!Init
  /\ Conn!Init
  /\ registered = TRUE
  /\ handler = [c \in Clients |-> "none"]
  /\ forward = [c \in Clients |-> "none"]
  /\ payload = [c \in Clients |-> <<>>]
  /\ link    = [c \in Clients |-> "up"]
  /\ announced = 0

-----------------------------------------------------------------------------
(* serveTerminal.                                                          *)

(* Attach first: a session the manager does not hold is a 404.             *)
Serve(c) ==
  /\ handler[c] = "none"
  /\ \/ /\ registered
        /\ Pty!Attach(c)
        /\ handler' = [handler EXCEPT ![c] = "upgrading"]
     \/ /\ ~registered
        /\ handler' = [handler EXCEPT ![c] = "gone"]
        /\ UNCHANGED ptyVars
  /\ UNCHANGED <<connVars, registered, forward, payload, link, announced>>

(* The upgrade succeeds: the connection's goroutines start.  Or it does    *)
(* not, and the attach is undone.                                          *)
Upgrade(c) ==
  /\ handler[c] = "upgrading"
  /\ \/ /\ handler' = [handler EXCEPT ![c] = "reading"]
        /\ forward' = [forward EXCEPT ![c] = "replay"]
        /\ UNCHANGED ptyVars
     \/ /\ Pty!Detach(c)
        /\ handler' = [handler EXCEPT ![c] = "gone"]
        /\ UNCHANGED forward
  /\ UNCHANGED <<connVars, registered, payload, link, announced>>

(* The read loop has returned: detach and unregister.                      *)
Release(c) ==
  /\ handler[c] = "left"
  /\ Pty!Detach(c)
  /\ handler' = [handler EXCEPT ![c] = "gone"]
  /\ UNCHANGED <<connVars, registered, forward, payload, link, announced>>

-----------------------------------------------------------------------------
(* readTerminal and applyControl.                                          *)

(* The loop ends, and its deferred close closes the connection.            *)
Leave(c) ==
  /\ Conn!Close(c)
  /\ handler' = [handler EXCEPT ![c] = "left"]
  /\ link' = [link EXCEPT ![c] = "down"]

(* ReadMessage fails: the client went away, or the socket was closed here. *)
ReadFails(c) ==
  /\ handler[c] = "reading"
  /\ link[c] = "down" \/ closed[c]
  /\ Leave(c)
  /\ UNCHANGED <<ptyVars, registered, forward, payload, announced>>

(* A message is read.  Nothing tells when the client sent it, so messages  *)
(* in flight are not kept.  Write and Resize fail for a session the        *)
(* manager no longer holds, and may once its child has gone.               *)
SessionRefuses == ~registered \/ master = "closed"
SessionMayRefuse == SessionRefuses \/ child # "running"

ReadInputOrResize(c) ==
  /\ handler[c] = "reading" /\ ~closed[c]
  /\ \/ /\ ~SessionRefuses
        /\ handler' = [handler EXCEPT ![c] = "writing"]
        /\ UNCHANGED <<connVars, link>>
     \/ SessionMayRefuse /\ Leave(c)
  /\ UNCHANGED <<ptyVars, registered, forward, payload, announced>>

(* The write to the master returns when the terminal has taken the input,  *)
(* which is up to the child, or fails: run may close the master under it.  *)
InputTaken(c) ==
  /\ handler[c] = "writing"
  /\ handler' = [handler EXCEPT ![c] = "reading"]
  /\ UNCHANGED <<ptyVars, connVars, registered, forward, payload, link, announced>>

InputFails(c) ==
  /\ handler[c] = "writing"
  /\ master = "closed"
  /\ Leave(c)
  /\ UNCHANGED <<ptyVars, registered, forward, payload, announced>>

(* A close calls Kill: the manager forgets the session and the loop waits  *)
(* for the child; a session already forgotten ends the loop instead.       *)
ReadClose(c) ==
  /\ handler[c] = "reading" /\ ~closed[c]
  /\ \/ /\ registered
        /\ registered' = FALSE
        /\ Pty!Hangup
        /\ handler' = [handler EXCEPT ![c] = "killing"]
        /\ UNCHANGED <<connVars, link>>
     \/ /\ ~registered
        /\ Leave(c)
        /\ UNCHANGED <<ptyVars, registered>>
  /\ UNCHANGED <<forward, payload, announced>>

(* Kill returns and the loop reads on: the forwarder closes the socket.    *)
KillDone(c) ==
  /\ handler[c] = "killing"
  /\ kill = "returned"
  /\ handler' = [handler EXCEPT ![c] = "reading"]
  /\ UNCHANGED <<ptyVars, connVars, registered, forward, payload, link, announced>>

-----------------------------------------------------------------------------
(* forward.                                                                *)

SendPayload(c, what) ==
  /\ Conn!Send(Feed(c))
  /\ payload' = [payload EXCEPT ![c] = Append(@, what)]

(* send is a call: the forwarder is inside it until the producer is idle.  *)
CanSend(c) == sending[Feed(c)].at = "idle"

(* Variants named Bug... are the definitions after them with a plausible   *)
(* mistake: here the snapshot is taken when the forwarder starts.          *)
BugReplayLate(c) ==
  /\ forward[c] = "replay"
  /\ forward' = [forward EXCEPT ![c] = "chunks"]
  /\ LET late == Pty!Ring!Snapshot(scrollback)
     IN \/ late # <<>> /\ SendPayload(c, Output(late))
        \/ late = <<>> /\ UNCHANGED <<connVars, payload>>
  /\ UNCHANGED <<ptyVars, registered, handler, link, announced>>

ForwardReplay(c) ==
  /\ forward[c] = "replay"
  /\ forward' = [forward EXCEPT ![c] = "chunks"]
  /\ \/ replay[c] # <<>> /\ SendPayload(c, Output(replay[c]))
     \/ replay[c] = <<>> /\ UNCHANGED <<connVars, payload>>
  /\ UNCHANGED <<ptyVars, registered, handler, link, announced>>

ForwardChunk(c) ==
  /\ forward[c] = "chunks" /\ CanSend(c)
  /\ Pty!Receive(c)
  /\ SendPayload(c, Output(Head(chunks[c])))
  /\ UNCHANGED <<registered, handler, forward, link, announced>>

(* The stream ends without the exit frame.                                 *)
BugNoExitFrame(c) ==
  /\ forward[c] = "chunks" /\ CanSend(c)
  /\ closes[c] > 0 /\ chunks[c] = <<>>
  /\ forward' = [forward EXCEPT ![c] = IF exitCh[c] = "status" THEN "finish" ELSE "returned"]
  /\ UNCHANGED <<ptyVars, connVars, registered, handler, payload, link, announced>>

(* The output channel is closed and empty: the exit channel holds a status *)
(* or was closed by a detach.                                              *)
ForwardOutputEnds(c) ==
  /\ forward[c] = "chunks" /\ CanSend(c)
  /\ closes[c] > 0 /\ chunks[c] = <<>>
  /\ forward' = [forward EXCEPT ![c] = IF exitCh[c] = "status" THEN "exit" ELSE "returned"]
  /\ UNCHANGED <<ptyVars, connVars, registered, handler, payload, link, announced>>

ForwardExit(c) ==
  /\ forward[c] = "exit"
  /\ SendPayload(c, Exit)
  /\ forward' = [forward EXCEPT ![c] = "finish"]
  /\ UNCHANGED <<ptyVars, registered, handler, link, announced>>

(* The exit goes to the event channel, and the queue is finished.          *)
ForwardFinish(c) ==
  /\ forward[c] = "finish" /\ CanSend(c)
  /\ announced' = announced + 1
  /\ Conn!Finish(c)
  /\ forward' = [forward EXCEPT ![c] = "returned"]
  /\ UNCHANGED <<ptyVars, registered, handler, payload, link>>

-----------------------------------------------------------------------------
(* The client, and the two components running on their own.                *)

(* The client goes away without a word.                                    *)
ClientLeaves(c) ==
  /\ handler[c] \in {"reading", "writing", "killing"}
  /\ link[c] = "up"
  /\ link' = [link EXCEPT ![c] = "down"]
  /\ UNCHANGED <<ptyVars, connVars, registered, handler, forward, payload, announced>>

(* Server.Shutdown closes every connection it has registered.              *)
ServerCloses(c) ==
  /\ handler[c] \in {"reading", "writing", "killing"}
  /\ ~closed[c]
  /\ Conn!Close(c)
  /\ link' = [link EXCEPT ![c] = "down"]
  /\ UNCHANGED <<ptyVars, registered, handler, forward, payload, announced>>

(* Manager.Kill or Shutdown from elsewhere: another window of the session, *)
(* or the application quitting.                                            *)
KilledElsewhere ==
  /\ registered
  /\ registered' = FALSE
  /\ Pty!Hangup
  /\ UNCHANGED <<connVars, handler, forward, payload, link, announced>>

PtyStep ==
  /\ \/ Pty!Produce \/ Pty!ChildExits \/ Pty!HolderExits \/ Pty!SystemStep
  /\ UNCHANGED <<connVars, linkVars>>

(* A write fails only on a socket that is down.                            *)
ConnStep(c) ==
  /\ handler[c] \notin {"none", "upgrading"}
  /\ Conn!ProducerStep(Feed(c)) \/ Conn!PumpStep(c)
  /\ (closed'[c] /\ ~closed[c]) => (pump[c] = "closing" \/ link[c] = "down")
  /\ UNCHANGED <<ptyVars, linkVars>>

HandlerStep(c) ==
  Upgrade(c) \/ ReadFails(c) \/ InputFails(c) \/ KillDone(c) \/ Release(c)

ClientStep(c) == ReadInputOrResize(c) \/ ReadClose(c) \/ InputTaken(c) \/ ClientLeaves(c)

ForwardStep(c) ==
  \/ ForwardReplay(c) \/ ForwardChunk(c) \/ ForwardOutputEnds(c)
  \/ ForwardExit(c) \/ ForwardFinish(c)

Next ==
  \/ PtyStep \/ KilledElsewhere
  \/ \E c \in Clients :
       \/ Serve(c) \/ HandlerStep(c) \/ ForwardStep(c) \/ ConnStep(c)
       \/ ClientStep(c) \/ ServerCloses(c)

Spec == Init /\ [][Next]_vars

(* Goroutines, timers and SIGKILL as in PtySession; handlers and           *)
(* forwarders run on; a pump runs on because its client reads.  Nothing is *)
(* assumed of the child, its descendants, or what a client does.  Every    *)
(* step uses up output or a phase of some goroutine, so none can hold up   *)
(* another for ever and fairness of them together will do.                 *)
SessionRuns ==
  /\ Pty!SystemStep \/ (kill = "forced" /\ Pty!ChildExits)
  /\ UNCHANGED <<connVars, linkVars>>

ServerRuns ==
  SessionRuns \/ \E c \in Clients : HandlerStep(c) \/ ForwardStep(c) \/ ConnStep(c)

Fairness == WF_vars(ServerRuns)

FairSpec == Spec /\ Fairness

-----------------------------------------------------------------------------
(* Properties.                                                             *)

(* What a data frame the client was sent carries.                          *)
Shown(c, m) == payload[c][m.frame]

WroteExit(c)    == \E m \in Conn!Elems(wire[c]) : m.kind = "data" /\ Shown(c, m).exit
WroteClosure(c) == \E m \in Conn!Elems(wire[c]) : m.kind = "close"

(* End to end, over both queues: a client never sees a chunk twice or out  *)
(* of order, replay included, and the exit status comes after all output.  *)
OutputInOrder ==
  \A c \in Clients : \A i, j \in DOMAIN wire[c] :
    (i < j /\ wire[c][i].kind = "data" /\ wire[c][j].kind = "data") =>
      LET a == Shown(c, wire[c][i])
          b == Shown(c, wire[c][j])
      IN ~a.exit /\ \A m \in a.bytes, n \in b.bytes : m < n

(* A normal closure is how a client tells a finished session from a        *)
(* dropped socket: it is written only after the exit frame.                *)
ClosureMeansExited ==
  \A c \in Clients :
    WroteClosure(c) => WroteExit(c) /\ run = "done"

(* Nothing leaks: once a connection is closed its pump, its forwarder and  *)
(* its handler all return, and its attachment is released.  (Unless the    *)
(* handler is inside a write to a terminal nobody reads: it, its forwarder *)
(* and its attachment then stay until the session ends.)                   *)
Released(c) ==
  pump[c] = "stopped" /\ forward[c] = "returned" /\ handler[c] = "gone" /\ c \notin consumers

NothingLeaks ==
  \A c \in Clients : closed[c] ~> (Released(c) \/ (handler[c] = "writing" /\ run # "done"))

(* A client that stays learns how the session ended, whether the child     *)
(* ended by itself, was killed by this client's close or from elsewhere:   *)
(* the exit frame is written, whatever was dropped before it.  (Unless the *)
(* socket goes down first, or the session refused what the client sent,    *)
(* which ends the connection; a normal closure is no such excuse.)         *)
StayingClientLearnsExit ==
  \A c \in Clients :
    (forward[c] # "none" /\ ~closed[c] /\ child # "running")
      ~> (WroteExit(c) \/ (link[c] = "down" /\ ~WroteClosure(c)))

(* PROTOCOL.md section 6: "bytes received plus bytes reported dropped      *)
(* equals bytes the session produced".  So at a normal closure every byte  *)
(* the session broadcast while this client was attached was written, or    *)
(* was in a frame that was reported.                                       *)
Accounted(c) ==
  UNION {payload[c][n].bytes : n \in Conn!Written(c) \cup Conn!Reported(c)}

AccountingBalances ==
  \A c \in Clients :
    WroteClosure(c) =>
      \A n \in 1 .. pumped :
        (\E k \in Accounted(c) : k < n) => n \in Accounted(c)
=============================================================================
