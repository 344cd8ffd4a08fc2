---------------------------- MODULE TerminalTabs ----------------------------
(***************************************************************************)
(* The terminal strip (frontend lib/useTerminals.ts, lib/tabs.ts,          *)
(* lib/terminalSession.ts, components/TerminalPane.tsx,                    *)
(* components/TerminalTabs.tsx): tabs of every project, a pane mounted for *)
(* each, and the session behind a pane: a shell the backend owns and the   *)
(* socket that carries it.  The shells outlive their sockets.              *)
(***************************************************************************)
EXTENDS Naturals, Sequences, FiniteSets, FiniteSetsExt, Window

CONSTANTS
  MaxTabs,    \* bound: tabs created
  MaxPanes,   \* bound: panes mounted, a tab's first and one per restart
  MaxResyncs, \* bound: resyncs the server sends
  MaxTyped    \* bound: keystrokes in one pane

Keys  == 1 .. MaxTabs
Panes == 1 .. MaxPanes

TerminalTab ==
  [project : Projects, status : {"starting", "running", "exited", "failed"},
   autorun : BOOLEAN, generation : Nat]

(* What a session keeps.  asked: its shell was asked for and has not       *)
(* answered.  wired: the handlers of its socket are in place.              *)
TerminalSession ==
  [tab : Keys, asked : BOOLEAN, socket : {None, "connecting", "open", "closed"}, wired : BOOLEAN,
   closeRequested : BOOLEAN, ended : BOOLEAN, disposed : BOOLEAN, autorun : BOOLEAN,
   pending : Seq(Nat), sent : Seq(Nat), typed : Nat]

ASSUME TerminalAssumption ==
  /\ MaxTabs \in Nat /\ MaxPanes \in Nat /\ MaxResyncs \in Nat /\ MaxTyped \in Nat
  /\ None \notin TerminalTab /\ None \notin Nat /\ None \notin {"connecting", "open", "closed"}

VARIABLES
  tabs,      \* tabs[k]: the tab of that key, or None; keys are in strip order
  keys,      \* keys: how many have been given out, never to be reused
  selected,  \* activeByProject
  sessions,  \* sessions[k]: the pane whose session is registered, or None
  panes,     \* every pane mounted so far, its session with it
  shells,    \* shells[i]: the shell of pane i: "none", "alive", or how it ended
  closing,   \* panes whose close frame is on its way to the server
  resyncs,   \* resyncs sent so far
  cut        \* history: panes whose socket failed before an exit frame

termVars == <<tabs, keys, selected, sessions, panes, shells, closing, resyncs, cut>>

TermInit ==
  /\ tabs = [k \in Keys |-> None] /\ keys = 0
  /\ selected = [p \in Projects |-> None]
  /\ sessions = [k \in Keys |-> None]
  /\ panes = <<>> /\ shells = [i \in Panes |-> "none"]
  /\ closing = {} /\ resyncs = 0 /\ cut = {}

-----------------------------------------------------------------------------
(* The strip (tabs.ts).                                                    *)

tabsForProject(p) == {k \in Keys : tabs[k] # None /\ tabs[k].project = p}

newTab(p, autorun) == [project |-> p, status |-> "starting", autorun |-> autorun, generation |-> 0]

(* The right-hand neighbour, or the left one, of the tab that closes.      *)
selectionAfterClose(k) ==
  LET owner == tabs[k].project
      siblings == tabsForProject(owner) \ {k}
      right == {s \in siblings : s > k}
  IN  IF selected[owner] # k THEN selected[owner]
      ELSE IF siblings = {} THEN None
      ELSE IF right # {} THEN Min(right) ELSE Max(siblings)

statusPatch(k, status) == [tabs EXCEPT ![k].status = status]

restartTab(k) == [tabs EXCEPT ![k].status = "starting", ![k].generation = @ + 1]

-----------------------------------------------------------------------------
(* One session (TerminalSession), as what becomes of its fields.           *)

session(k, autorun) ==
  [tab |-> k, asked |-> TRUE, socket |-> None, wired |-> FALSE, closeRequested |-> FALSE,
   ended |-> FALSE, disposed |-> FALSE, autorun |-> autorun, pending |-> <<>>, sent |-> <<>>, typed |-> 0]

isOpen(s) == s.socket = "open"

send(s, data) ==
  IF isOpen(s) THEN [s EXCEPT !.sent = Append(@, data)] ELSE [s EXCEPT !.pending = Append(@, data)]

attach(s) == [s EXCEPT !.socket = "connecting", !.wired = TRUE]

detach(s) == [s EXCEPT !.socket = None, !.wired = FALSE]

flush(s) == [s EXCEPT !.sent = @ \o s.pending, !.pending = <<>>]

(* The line an autorun tab types; a keystroke is its number.               *)
AUTORUN == 0

(* Variants named Bug... are the definitions after them with a plausible   *)
(* mistake: here disposing always detaches.                                *)
BugPendingClose(s) == FALSE

(* A close nobody could send yet keeps its socket, with no handler but the *)
(* one that sends it.                                                      *)
deliverPendingClose(s) == s.socket \notin {None, "open"} /\ s.closeRequested

dispose(s) ==
  [(IF deliverPendingClose(s) THEN [s EXCEPT !.wired = FALSE] ELSE detach(s)) EXCEPT !.disposed = TRUE]

close(s) == [s EXCEPT !.closeRequested = TRUE]

-----------------------------------------------------------------------------
(* Tabs come and go; their panes mount and unmount with them.              *)

(* A new tab, whose pane mounts and asks for a shell.                      *)
create(p, autorun) ==
  /\ keys < MaxTabs /\ Len(panes) < MaxPanes
  /\ keys' = keys + 1
  /\ tabs' = [tabs EXCEPT ![keys'] = newTab(p, autorun)]
  /\ selected' = [selected EXCEPT ![p] = keys']
  /\ sessions' = [sessions EXCEPT ![keys'] = Len(panes) + 1]
  /\ panes' = Append(panes, session(keys', autorun))
  /\ UNCHANGED <<shells, closing, resyncs, cut>>

(* The tabs of a saved session, all at once: fresh shells that type        *)
(* nothing, the one that was in front selected.                            *)
restore(p, n) ==
  /\ keys + n <= MaxTabs /\ Len(panes) + n <= MaxPanes
  /\ keys' = keys + n
  /\ tabs' = [k \in Keys |-> IF k \in keys + 1 .. keys' THEN newTab(p, FALSE) ELSE tabs[k]]
  /\ \E focus \in keys + 1 .. keys' : selected' = [selected EXCEPT ![p] = focus]
  /\ sessions' = [k \in Keys |-> IF k \in keys + 1 .. keys' THEN Len(panes) + k - keys ELSE sessions[k]]
  /\ panes' = panes \o [j \in 1 .. n |-> session(keys + j, FALSE)]
  /\ UNCHANGED <<shells, closing, resyncs, cut>>

selectTab(k) ==
  /\ tabs[k] # None /\ selected[tabs[k].project] # k
  /\ selected' = [selected EXCEPT ![tabs[k].project] = k]
  /\ UNCHANGED <<tabs, keys, sessions, panes, shells, closing, resyncs, cut>>

(* The tab leaves the strip and its pane unmounts; s is its session so far. *)
dropTab(k, s) ==
  /\ selected' = [selected EXCEPT ![tabs[k].project] = selectionAfterClose(k)]
  /\ tabs' = [tabs EXCEPT ![k] = None]
  /\ sessions' = [sessions EXCEPT ![k] = None]
  /\ panes' = [panes EXCEPT ![sessions[k]] = dispose(s)]

closeTab(k) ==
  /\ tabs[k] # None
  /\ LET i == sessions[k] IN
       /\ dropTab(k, close(panes[i]))
       /\ closing' = IF isOpen(panes[i]) THEN closing \cup {i} ELSE closing
  /\ UNCHANGED <<keys, shells, resyncs, cut>>

closeProjectTabs(p) ==
  LET gone == {sessions[k] : k \in tabsForProject(p)} IN
  /\ gone # {}
  /\ tabs' = [k \in Keys |-> IF k \in tabsForProject(p) THEN None ELSE tabs[k]]
  /\ selected' = [selected EXCEPT ![p] = None]
  /\ sessions' = [k \in Keys |-> IF k \in tabsForProject(p) THEN None ELSE sessions[k]]
  /\ panes' = [i \in DOMAIN panes |-> IF i \in gone THEN dispose(close(panes[i])) ELSE panes[i]]
  /\ closing' = closing \cup {i \in gone : isOpen(panes[i])}
  /\ UNCHANGED <<keys, shells, resyncs, cut>>

(* onDetach: only the session that is registered is taken out.             *)
onDetach(registered, i) == IF registered = i THEN None ELSE registered

(* The dead pane unmounts and its replacement mounts, in an order that is  *)
(* React's to choose.                                                      *)
restart(k) ==
  LET old == sessions[k]
      new == Len(panes) + 1
  IN  /\ new <= MaxPanes
      /\ tabs[k] # None /\ tabs[k].status \in {"exited", "failed"}
      /\ tabs' = restartTab(k)
      /\ panes' = Append([panes EXCEPT ![old] = dispose(@)], session(k, tabs[k].autorun))
      /\ sessions' \in {[sessions EXCEPT ![k] = new], [sessions EXCEPT ![k] = onDetach(new, old)]}
      /\ UNCHANGED <<keys, selected, shells, closing, resyncs, cut>>

-----------------------------------------------------------------------------
(* What happens to a session.                                              *)

Report(i, status) ==
  IF panes[i].disposed THEN UNCHANGED tabs ELSE tabs' = statusPatch(panes[i].tab, status)

(* start, once the shell exists.  A pane that went away meanwhile ends it. *)
ShellOpened(i) ==
  /\ panes[i].asked
  /\ shells' = [shells EXCEPT ![i] = "alive"]
  /\ LET s == [attach(panes[i]) EXCEPT !.asked = FALSE] IN
       panes' = [panes EXCEPT ![i] =
                   IF s.disposed THEN [close(s) EXCEPT !.wired = FALSE] ELSE s]
  /\ Report(i, "running")
  /\ UNCHANGED <<keys, selected, sessions, closing, resyncs, cut>>

ShellRefused(i) ==
  /\ panes[i].asked
  /\ panes' = [panes EXCEPT ![i].asked = FALSE]
  /\ Report(i, "failed")
  /\ UNCHANGED <<keys, selected, sessions, shells, closing, resyncs, cut>>

(* onopen: the socket sends what waited for it, or only the close.         *)
onOpen(i) ==
  /\ panes[i].socket = "connecting"
  /\ panes' = [panes EXCEPT ![i] =
                 IF @.wired THEN flush([@ EXCEPT !.socket = "open"]) ELSE [@ EXCEPT !.socket = "closed"]]
  /\ closing' = IF panes[i].closeRequested THEN closing \cup {i} ELSE closing
  /\ UNCHANGED <<tabs, keys, selected, sessions, shells, resyncs, cut>>

(* A keystroke in a pane.                                                  *)
onData(i) ==
  /\ ~panes[i].disposed /\ panes[i].typed < MaxTyped
  /\ LET typed == panes[i].typed + 1 IN
       panes' = [panes EXCEPT ![i] = [send(@, typed) EXCEPT !.typed = typed]]
  /\ UNCHANGED <<tabs, keys, selected, sessions, shells, closing, resyncs, cut>>

listening(i) == isOpen(panes[i]) /\ panes[i].wired

(* The shell's first output: the autorun line is typed, once.              *)
typeAutorun(i) ==
  /\ listening(i) /\ panes[i].autorun
  /\ panes' = [panes EXCEPT ![i] = [send(@, AUTORUN) EXCEPT !.autorun = FALSE]]
  /\ UNCHANGED <<tabs, keys, selected, sessions, shells, closing, resyncs, cut>>

resync(s) == attach(detach(s))

onResync(i) ==
  /\ resyncs < MaxResyncs /\ listening(i) /\ ~panes[i].ended
  /\ resyncs' = resyncs + 1
  /\ panes' = [panes EXCEPT ![i] = resync(@)]
  /\ UNCHANGED <<tabs, keys, selected, sessions, shells, closing, cut>>

(* The exit frame: a shell that ended well takes its tab with it.          *)
onExit(i) ==
  /\ listening(i) /\ shells[i] \in {"clean", "broken"} /\ ~panes[i].ended
  /\ LET s == [panes[i] EXCEPT !.ended = TRUE] IN
       IF shells[i] = "clean" THEN dropTab(s.tab, s)
       ELSE /\ panes' = [panes EXCEPT ![i] = s] /\ Report(i, "exited")
            /\ UNCHANGED <<selected, sessions>>
  /\ UNCHANGED <<keys, shells, closing, resyncs, cut>>

(* The socket closing behind an exit frame is taken for a loss.            *)
BugExpected(s) == s.disposed

(* What makes the end of a socket nothing to report.                       *)
expected(s) == s.ended \/ s.disposed

(* The socket closes, behind an exit frame or because it failed.           *)
lost(i) ==
  /\ panes[i].socket \in {"connecting", "open"}
  /\ panes' = [panes EXCEPT ![i].socket = "closed", ![i].ended = @ \/ ~expected(panes[i])]
  /\ IF expected(panes[i]) THEN UNCHANGED tabs ELSE Report(i, "failed")
  /\ cut' = IF panes[i].ended THEN cut ELSE cut \cup {i}
  /\ UNCHANGED <<keys, selected, sessions, shells, closing, resyncs>>

-----------------------------------------------------------------------------
(* The server.                                                             *)

ShellEnds(i) ==
  /\ shells[i] = "alive"
  /\ \E how \in {"clean", "broken"} : shells' = [shells EXCEPT ![i] = how]
  /\ UNCHANGED <<tabs, keys, selected, sessions, panes, closing, resyncs, cut>>

(* applyControl: a close kills the shell if it still runs.                 *)
ReceiveClose(i) ==
  /\ i \in closing
  /\ closing' = closing \ {i}
  /\ shells' = [shells EXCEPT ![i] = IF @ = "alive" THEN "broken" ELSE @]
  /\ UNCHANGED <<tabs, keys, selected, sessions, panes, resyncs, cut>>

TermNext ==
  \/ \E p \in Projects :
       \/ closeProjectTabs(p)
       \/ \E autorun \in BOOLEAN : create(p, autorun)
       \/ \E n \in 2 .. MaxTabs : restore(p, n)
  \/ \E k \in Keys : selectTab(k) \/ closeTab(k) \/ restart(k)
  \/ \E i \in DOMAIN panes :
       \/ ShellOpened(i) \/ ShellRefused(i) \/ onOpen(i) \/ onData(i) \/ typeAutorun(i)
       \/ onResync(i) \/ onExit(i) \/ lost(i) \/ ShellEnds(i) \/ ReceiveClose(i)

TermSpec == TermInit /\ [][TermNext]_termVars

-----------------------------------------------------------------------------
(* Properties.                                                             *)

TermTypeOK ==
  /\ tabs \in [Keys -> TerminalTab \cup {None}] /\ keys \in 0 .. MaxTabs
  /\ \A k \in Keys : tabs[k] # None => k <= keys
  /\ sessions \in [Keys -> Panes \cup {None}]
  /\ panes \in Seq(TerminalSession) /\ Len(panes) <= MaxPanes
  /\ shells \in [Panes -> {"none", "alive", "clean", "broken"}]
  /\ closing \subseteq DOMAIN panes /\ cut \subseteq DOMAIN panes
  /\ \A i \in Panes \ DOMAIN panes : shells[i] = "none"

(* Nothing is under way for the pane's shell.                              *)
settled(i) == ~panes[i].asked /\ panes[i].socket # "connecting" /\ i \notin closing

(* Every shell still running is one a tab on the strip reaches through the *)
(* session registered for it, unless its socket failed: a tab closed while *)
(* its shell or its socket was still coming up ends the shell when they do *)
(* (close, dispose, start), in any order of closing, answers and resyncs.  *)
NoOrphanShell ==
  \A i \in DOMAIN panes :
    (shells[i] = "alive" /\ settled(i) /\ i \notin cut)
      => /\ tabs[panes[i].tab] # None /\ sessions[panes[i].tab] = i
         /\ isOpen(panes[i]) /\ ~panes[i].disposed

(* What a status says of pane i: running until an exit frame or the loss   *)
(* of the socket, exited when the shell did, failed only without an exit   *)
(* frame.                                                                  *)
Tells(status, i) ==
  /\ status = "starting" => panes[i].asked
  /\ status = "running"  => shells[i] # "none" /\ ~panes[i].ended
  /\ status = "exited"   => shells[i] = "broken" /\ panes[i].ended
  /\ status = "failed"   => shells[i] = "none" \/ i \in cut

(* What a tab says is true of the session it shows, never of one that a    *)
(* restart replaced, however late that one's answers and events come       *)
(* (report, onSession, onDetach).                                          *)
StatusIsOwn ==
  \A k \in Keys : tabs[k] # None =>
    LET i == sessions[k] IN
    i # None /\ ~panes[i].disposed /\ panes[i].tab = k /\ Tells(tabs[k].status, i)
=============================================================================
