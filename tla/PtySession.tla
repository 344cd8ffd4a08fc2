----------------------------- MODULE PtySession -----------------------------
(***************************************************************************)
(* One PTY session (internal/pty/session.go): the child process, the pump  *)
(* that reads its terminal, the run goroutine that reaps it, the bounded   *)
(* scrollback, and the consumers attached to it.                           *)
(*                                                                         *)
(* Output is bytes numbered from 1, carried in chunks, one per read of the *)
(* master.  Every operation that holds s.mu is one step.  A consumer is    *)
(* one call of attach: attaching twice is two consumers.                   *)
(***************************************************************************)
EXTENDS Naturals, Sequences, SequencesExt

CONSTANTS
  Consumers,      \* the attach calls of this session's life
  ScrollbackCap,  \* scrollbackBytes
  ReadChunk,      \* readChunkBytes
  ConsumerQueue,  \* consumerQueue, in chunks
  MaxBytes        \* bound of the model: bytes the terminal carries

ASSUME PtySessionAssumption ==
  /\ ScrollbackCap \in Nat \ {0}
  /\ ReadChunk \in Nat \ {0}
  /\ ConsumerQueue \in Nat \ {0}
  /\ MaxBytes \in Nat

VARIABLES
  child,      \* the process: "running", "exited" (a zombie) or "reaped"
  holder,     \* a descendant of the child still holds the slave end open
  produced,   \* bytes written to the terminal
  pumped,     \* bytes the pump has read and broadcast
  inHand,     \* the chunk it has read and not yet broadcast
  master,     \* the master end: "open" or "closed"
  run,        \* the run goroutine: "wait", "grace", "draining" or "done"
  cut,        \* the grace period ran out before the pump saw end of file
  reader,     \* the pump goroutine: "reading" or "drained"
  kill,       \* the one kill call: "none", "grace", "forced" or "returned"
  scrollback, \* the ring
  consumers,  \* s.consumers
  attach,     \* attach[c]: "never", "attached" or "detached"
  replay,     \* replay[c]: the scrollback snapshot attach returned
  chunks,     \* chunks[c]: the channel of output
  closes,     \* closes[c]: how many times that channel has been closed
  exitCh,     \* exitCh[c]: the exit channel: "open", "status", "closed"
  got,        \* got[c]: bytes the consumer has received
  lost        \* lost[c]: bytes broadcast while its queue was full

childVars    == <<child, holder, produced>>
runVars      == <<master, run, cut, reader, pumped, inHand, scrollback>>
consumerVars == <<consumers, attach, replay, chunks, closes, exitCh, got, lost>>
vars         == <<childVars, runVars, kill, consumerVars>>

Ring == INSTANCE PtyRing WITH Capacity <- ScrollbackCap, Byte <- Nat

(* The bytes after the n-th, k of them.                                    *)
Bytes(n, k) == [i \in 1 .. k |-> n + i]

TypeOK ==
  /\ child \in {"running", "exited", "reaped"}
  /\ holder \in BOOLEAN
  /\ produced \in Nat /\ pumped \in Nat
  /\ master \in {"open", "closed"}
  /\ run \in {"wait", "grace", "draining", "done"}
  /\ cut \in BOOLEAN
  /\ reader \in {"reading", "drained"}
  /\ kill \in {"none", "grace", "forced", "returned"}
  /\ inHand \in Seq(Nat)
  /\ scrollback \in Ring!Ring
  /\ consumers \in SUBSET Consumers
  /\ attach \in [Consumers -> {"never", "attached", "detached"}]
  /\ replay \in [Consumers -> Seq(Nat)]
  /\ chunks \in [Consumers -> Seq(Seq(Nat))]
  /\ closes \in [Consumers -> Nat]
  /\ exitCh \in [Consumers -> {"open", "status", "closed"}]
  /\ got \in [Consumers -> Seq(Nat)]
  /\ lost \in [Consumers -> SUBSET Nat]
  /\ Len(inHand) <= ReadChunk
  /\ \A c \in Consumers : Len(chunks[c]) <= ConsumerQueue

(* start: the child runs, perhaps with descendants on the same terminal,   *)
(* and run has been started by the manager.                                *)
Init ==
  /\ child = "running" /\ holder \in BOOLEAN
  /\ produced = 0 /\ pumped = 0 /\ inHand = <<>>
  /\ master = "open" /\ run = "wait" /\ cut = FALSE /\ reader = "reading"
  /\ kill = "none"
  /\ scrollback = Ring!NewRing(0)
  /\ consumers = {}
  /\ attach = [c \in Consumers |-> "never"]
  /\ replay = [c \in Consumers |-> <<>>]
  /\ chunks = [c \in Consumers |-> <<>>]
  /\ closes = [c \in Consumers |-> 0]
  /\ exitCh = [c \in Consumers |-> "open"]
  /\ got    = [c \in Consumers |-> <<>>]
  /\ lost   = [c \in Consumers |-> {}]

-----------------------------------------------------------------------------
(* The operating system: the child, its descendants, the terminal.         *)

Produce ==
  /\ child = "running" \/ holder
  /\ produced < MaxBytes
  /\ produced' = produced + 1
  /\ UNCHANGED <<child, holder, runVars, kill, consumerVars>>

(* The child ends on its own, or because of kill's signals.                *)
ChildExits ==
  /\ child = "running"
  /\ child' = "exited"
  /\ UNCHANGED <<holder, produced, runVars, kill, consumerVars>>

HolderExits ==
  /\ holder
  /\ holder' = FALSE
  /\ UNCHANGED <<child, produced, runVars, kill, consumerVars>>

-----------------------------------------------------------------------------
(* The pump.                                                               *)

(* A read of the master returns some of the bytes that are there.          *)
Read(k) ==
  /\ reader = "reading" /\ inHand = <<>>
  /\ master = "open"
  /\ pumped + k <= produced
  /\ inHand' = Bytes(pumped, k)
  /\ UNCHANGED <<childVars, master, run, cut, reader, pumped, scrollback, kill, consumerVars>>

(* Variants named Bug... are the definitions after them with a plausible   *)
(* mistake, to show that the properties below tell the difference.         *)

(* The pump waits for a consumer whose queue is full.                      *)
BugBroadcastWaits ==
  /\ inHand # <<>>
  /\ \A c \in consumers : Len(chunks[c]) < ConsumerQueue
  /\ pumped' = pumped + Len(inHand)
  /\ inHand' = <<>>
  /\ scrollback' = Ring!Write(scrollback, inHand)
  /\ chunks' = [c \in Consumers |->
                  IF c \in consumers THEN Append(chunks[c], inHand) ELSE chunks[c]]
  /\ UNCHANGED <<childVars, master, run, cut, reader, kill, consumers, attach, replay,
                 closes, exitCh, got, lost>>

(* broadcast: the scrollback records the chunk, every registered consumer  *)
(* is offered it, and one whose queue is full loses it.                    *)
Broadcast ==
  LET full == {c \in consumers : Len(chunks[c]) >= ConsumerQueue}
  IN /\ inHand # <<>>
     /\ pumped' = pumped + Len(inHand)
     /\ inHand' = <<>>
     /\ scrollback' = Ring!Write(scrollback, inHand)
     /\ chunks' = [c \in Consumers |->
                     IF c \in consumers \ full THEN Append(chunks[c], inHand) ELSE chunks[c]]
     /\ lost' = [c \in Consumers |->
                   IF c \in full THEN lost[c] \cup ToSet(inHand) ELSE lost[c]]
     /\ UNCHANGED <<childVars, master, run, cut, reader, kill, consumers, attach, replay,
                    closes, exitCh, got>>

(* The read fails: run closed the master, or nobody holds the slave end    *)
(* any more and everything written to it has been read.                    *)
EndOfFile ==
  /\ reader = "reading" /\ inHand = <<>>
  /\ \/ master = "closed"
     \/ child # "running" /\ ~holder /\ pumped = produced
  /\ reader' = "drained"
  /\ UNCHANGED <<childVars, master, run, cut, pumped, inHand, scrollback, kill, consumerVars>>

-----------------------------------------------------------------------------
(* run.                                                                    *)

(* cmd.Wait returns.                                                       *)
Reap ==
  /\ run = "wait"
  /\ child = "exited"
  /\ child' = "reaped"
  /\ run' = "grace"
  /\ UNCHANGED <<holder, produced, master, cut, reader, pumped, inHand, scrollback, kill, consumerVars>>

(* The select on drained and drainGrace, then the master is closed.        *)
CloseMaster(timedOut) ==
  /\ run = "grace"
  /\ run' = "draining"
  /\ master' = "closed"
  /\ cut' = timedOut
  /\ UNCHANGED <<childVars, reader, pumped, inHand, scrollback, kill, consumerVars>>

(* run closes the master without waiting for the pump.                     *)
BugNoDrain == CloseMaster(FALSE)

Drained      == reader = "drained" /\ CloseMaster(FALSE)
DrainTimeout == reader = "reading" /\ CloseMaster(TRUE)

(* finish, once the pump has returned: every registered consumer is closed *)
(* and handed the exit status; done is closed.                             *)
Finish ==
  /\ run = "draining"
  /\ reader = "drained"
  /\ run' = "done"
  /\ closes' = [c \in Consumers |-> IF c \in consumers THEN closes[c] + 1 ELSE closes[c]]
  /\ exitCh' = [c \in Consumers |-> IF c \in consumers THEN "status" ELSE exitCh[c]]
  /\ consumers' = {}
  /\ UNCHANGED <<childVars, master, cut, reader, pumped, inHand, scrollback, kill, attach, replay,
                 chunks, got, lost>>

-----------------------------------------------------------------------------
(* Consumers.                                                              *)

(* attach: snapshot and registration under one lock; an ended session      *)
(* answers with its status and closed channels.                            *)
Attach(c) ==
  /\ attach[c] = "never"
  /\ attach' = [attach EXCEPT ![c] = "attached"]
  /\ replay' = [replay EXCEPT ![c] = Ring!Snapshot(scrollback)]
  /\ \/ /\ run = "done"
        /\ closes' = [closes EXCEPT ![c] = @ + 1]
        /\ exitCh' = [exitCh EXCEPT ![c] = "status"]
        /\ UNCHANGED consumers
     \/ /\ run # "done"
        /\ consumers' = consumers \cup {c}
        /\ UNCHANGED <<closes, exitCh>>
  /\ UNCHANGED <<childVars, runVars, kill, chunks, got, lost>>

(* detach closes the channels of a consumer finish has already closed.     *)
BugDetachTwice(c) ==
  /\ attach[c] = "attached"
  /\ attach' = [attach EXCEPT ![c] = "detached"]
  /\ consumers' = consumers \ {c}
  /\ closes' = [closes EXCEPT ![c] = @ + 1]
  /\ exitCh' = [exitCh EXCEPT ![c] = "closed"]
  /\ UNCHANGED <<childVars, runVars, kill, replay, chunks, got, lost>>

(* detach: closes the channels of a consumer that is still registered, and *)
(* nothing when finish got there first.                                    *)
Detach(c) ==
  /\ attach[c] = "attached"
  /\ attach' = [attach EXCEPT ![c] = "detached"]
  /\ IF c \in consumers
     THEN /\ consumers' = consumers \ {c}
          /\ closes' = [closes EXCEPT ![c] = @ + 1]
          /\ exitCh' = [exitCh EXCEPT ![c] = "closed"]
     ELSE UNCHANGED <<consumers, closes, exitCh>>
  /\ UNCHANGED <<childVars, runVars, kill, replay, chunks, got, lost>>

(* A receive from the output channel.                                      *)
Receive(c) ==
  /\ chunks[c] # <<>>
  /\ got' = [got EXCEPT ![c] = @ \o Head(chunks[c])]
  /\ chunks' = [chunks EXCEPT ![c] = Tail(@)]
  /\ UNCHANGED <<childVars, runVars, kill, consumers, attach, replay, closes, exitCh, lost>>

-----------------------------------------------------------------------------
(* kill, called at most once: the manager forgets the session first.       *)

Hangup ==
  /\ kill = "none"
  /\ kill' = "grace"
  /\ UNCHANGED <<childVars, runVars, consumerVars>>

(* The hangup is never followed by SIGKILL.                                *)
BugNoForce == kill = "grace" /\ run # "done" /\ UNCHANGED vars

(* killGrace passes and done is still open.                                *)
ForceKill ==
  /\ kill = "grace"
  /\ run # "done"
  /\ kill' = "forced"
  /\ UNCHANGED <<childVars, runVars, consumerVars>>

KillReturns ==
  /\ kill \in {"grace", "forced"}
  /\ run = "done"
  /\ kill' = "returned"
  /\ UNCHANGED <<childVars, runVars, consumerVars>>

-----------------------------------------------------------------------------

ReadSome == \E k \in 1 .. ReadChunk : Read(k)

SystemStep ==
  \/ ReadSome \/ Broadcast \/ EndOfFile
  \/ Reap \/ Drained \/ DrainTimeout \/ Finish
  \/ ForceKill \/ KillReturns

Next ==
  \/ Produce \/ ChildExits \/ HolderExits \/ Hangup
  \/ SystemStep
  \/ \E c \in Consumers : Attach(c) \/ Detach(c) \/ Receive(c)

Spec == Init /\ [][Next]_vars

(* The goroutines and timers run on; SIGKILL ends the child, whatever the  *)
(* child makes of the hangup.  Nothing is assumed of consumers, nor of     *)
(* descendants that keep the terminal open.                                *)
SigkillKills == WF_vars(kill = "forced" /\ ChildExits)

Fairness ==
  /\ WF_vars(ReadSome) /\ WF_vars(Broadcast) /\ WF_vars(EndOfFile)
  /\ WF_vars(Reap) /\ WF_vars(Drained \/ DrainTimeout) /\ WF_vars(Finish)
  /\ WF_vars(ForceKill) /\ WF_vars(KillReturns)
  /\ SigkillKills

FairSpec == Spec /\ Fairness

-----------------------------------------------------------------------------
(* Properties.                                                             *)

(* Everything a consumer has been, or will be, shown, piece by piece, and  *)
(* the bytes in it.                                                        *)
View(c) == <<replay[c], got[c]>> \o chunks[c]

Seen(c) == UNION {ToSet(piece) : piece \in ToSet(View(c))}

Ascending(q) == \A i, j \in DOMAIN q : i < j => q[i] < q[j]

Before(p, q) == \A m \in ToSet(p), n \in ToSet(q) : m < n

InSequence(pieces) ==
  /\ \A i \in DOMAIN pieces : Ascending(pieces[i])
  /\ \A i, j \in DOMAIN pieces : i < j => Before(pieces[i], pieces[j])

(* attach's promise: "no chunk is both replayed and delivered, and none is *)
(* missed between the two".  A consumer sees bytes in order and at most    *)
(* once, and while it is registered every byte broadcast, back to the      *)
(* oldest its replay had room for, is in its view or was lost to its full  *)
(* queue.  It takes the ring's arithmetic and the one critical section.    *)
SeamlessAttach ==
  \A c \in Consumers : attach[c] # "never" =>
    /\ InSequence(View(c))
    /\ lost[c] \cap Seen(c) = {}
    /\ c \in consumers =>
         \A n \in 1 .. pumped :
           \/ n \in Seen(c) \cup lost[c]
           \/ pumped - n >= ScrollbackCap /\ \A m \in Seen(c) \cup lost[c] : n < m

(* A channel is closed at most once, by finish, detach or a late attach,   *)
(* and the pump never sends on a closed one: both would panic.  And every  *)
(* consumer that did not detach before the end learns the status: once the *)
(* session is done nobody is left with an open channel.                    *)
ClosedOnce ==
  \A c \in Consumers :
    /\ closes[c] <= 1
    /\ c \in consumers => closes[c] = 0 /\ exitCh[c] = "open"
    /\ exitCh[c] # "open" => closes[c] = 1
    /\ (run = "done" /\ attach[c] = "attached") => exitCh[c] = "status"

(* run's comment: "that last screenful reaches consumers ahead of the exit *)
(* event".  Unless the grace period ran out, the status is published only  *)
(* when everything written to the terminal has been broadcast; and in any  *)
(* case nothing the pump has read is left in its hands.                    *)
LastScreenfulFirst ==
  run = "done" => inHand = <<>> /\ (cut \/ pumped = produced)

(* Manager.Kill "returns once the child has been reaped", even when the    *)
(* child ignores the hangup and a descendant holds the terminal for ever.  *)
KillCompletes == kill = "grace" ~> (kill = "returned" /\ child = "reaped" /\ run = "done")

(* The child is never made to wait for a reader: while the terminal is     *)
(* open its output is taken even if no consumer receives anything.         *)
NeverStallsChild ==
  \A n \in 1 .. MaxBytes : produced >= n ~> (pumped >= n \/ master = "closed")
=============================================================================
