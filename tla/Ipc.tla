-------------------------------- MODULE Ipc --------------------------------
(***************************************************************************)
(* The control socket (tide_core/ipc.rs, tide_core/state/ipc.rs): a        *)
(* connection's life from accept to reply or subscription, the event       *)
(* stream a subscriber hears, and the Wave handlers that emit_ipc_event    *)
(* runs (state/config_reload.rs).  A line of JSON is one unit of `backlog` *)
(* and of the kernel's buffer.                                             *)
(***************************************************************************)
EXTENDS Integers, FiniteSets, Sequences

CONSTANTS
  Conns,          \* connections
  MaxConns,       \* MAX_CONNECTIONS
  PendingCap,     \* SUBSCRIBER_PENDING_CAP, in lines
  KernelRoom,     \* lines a peer may leave unread in the socket buffer
  Desktops,       \* workspace numbers 1..n of the one output
  HandlerCap,     \* the nesting cap of run_lua_handlers (16)
  Handlers        \* `on "workspace-changed"` bodies the config may have

ASSUME IpcAssumption ==
  /\ MaxConns \in Nat \ {0} /\ PendingCap \in Nat \ {0} /\ KernelRoom \in Nat \ {0}
  /\ Desktops \in Nat \ {0} /\ HandlerCap \in Nat
  /\ Handlers \subseteq {"none", "next", "home"}

VARIABLES
  conn,       \* "free", "request", "response", "subscriber", "closed"
  peer,       \* connections whose client is still there
  leases,     \* the active_connections counter
  unread,     \* lines in a connection's kernel buffer
  backlog,    \* IpcSubscriber::pending
  flushToken, \* flush_token: "none", "armed", or "refused" when calloop did not
              \* take the timer
  shown,      \* the active workspace
  handler,    \* the handler the config registered
  facts,      \* what ipc_seen_state fingerprints: [mode, scroll]
  dragging,   \* a gesture or a pointer grab is in progress
  reported,       \* IpcState::seen, or Unseen
  dispatched, \* emit_state_change_events has run since the last source
  heard       \* (history) subscriber -> [at, mode, scroll, broken]: what the
              \* lines it was sent add up to

ipcVars == <<conn, peer, leases, unread, backlog, flushToken, shown, handler,
             facts, dragging, reported, dispatched, heard>>
socketVars == <<conn, peer, leases>>
streamVars == <<unread, backlog, heard>>
worldVars == <<shown, handler, facts, dragging, reported>>

Unseen == [mode |-> 0, scroll |-> 0]
Facts == [mode : 1..2, scroll : 1..2]
Silence == [at |-> 0, mode |-> 0, scroll |-> 0, broken |-> FALSE]

IpcInit ==
  /\ conn = [c \in Conns |-> "free"] /\ peer = {} /\ leases = 0
  /\ unread = [c \in Conns |-> 0] /\ backlog = [c \in Conns |-> <<>>]
  /\ flushToken = "none" /\ shown = 1 /\ handler \in Handlers
  /\ facts = [mode |-> 1, scroll |-> 1] /\ dragging = FALSE
  /\ reported = Unseen /\ dispatched = TRUE /\ heard = [c \in Conns |-> Silence]

Subscribers == {c \in Conns : conn[c] = "subscriber"}

-----------------------------------------------------------------------------
\* What the client makes of a line: a workspace-changed must start where the
\* last one ended.
Hear(h, line) ==
  CASE line.kind = "workspace" -> [h EXCEPT !.at = line.to, !.broken = @ \/ h.at /= line.from]
    [] line.kind = "mode" -> [h EXCEPT !.mode = line.to]
    [] line.kind = "scroll" -> [h EXCEPT !.scroll = line.to]
    [] OTHER -> h
HeardAll(h, lines) ==
  LET ear[i \in 0 .. Len(lines)] == IF i = 0 THEN h ELSE Hear(ear[i - 1], lines[i])
  IN ear[Len(lines)]

\* One subscriber's stream while lines are emitted: queue, try_flush, and
\* retire it when the peer is gone or the backlog exceeds the cap.
Stream(c) == [lines |-> backlog[c], unread |-> unread[c], heard |-> heard[c], ok |-> TRUE]
Flushed(s, there) ==
  LET n == IF Len(s.lines) <= KernelRoom - s.unread THEN Len(s.lines) ELSE KernelRoom - s.unread
  IN IF s.lines = <<>> THEN s
     ELSE IF ~there THEN [s EXCEPT !.ok = FALSE]
     ELSE [s EXCEPT !.lines = SubSeq(@, n + 1, Len(@)), !.unread = @ + n,
                    !.heard = HeardAll(@, SubSeq(s.lines, 1, n))]
\* Mutant of Sweep: a slow reader is never retired.
SweepNever(s) == s

Sweep(s) == IF Len(s.lines) > PendingCap THEN [s EXCEPT !.ok = FALSE] ELSE s
Emitted(s, line, there) ==
  IF ~s.ok THEN s ELSE Sweep(Flushed([s EXCEPT !.lines = Append(@, line)], there))
EmittedAll(s, lines, there) ==
  LET stream[i \in 0 .. Len(lines)] == IF i = 0 THEN s ELSE Emitted(stream[i - 1], lines[i], there)
  IN stream[Len(lines)]

\* Write the streams back: a retired subscriber's lease drops with it.
\* arm_ipc_flush_timer then looks at what is left; a timer that the loop does
\* not take is tried again with the next event.
Settle(streams, live) ==
  LET gone == {c \in live : ~streams[c].ok}
      kept == live \ gone
  IN /\ conn' = [c \in Conns |-> IF c \in gone THEN "closed" ELSE IF c \in live THEN "subscriber" ELSE conn[c]]
     /\ leases' = leases - Cardinality(gone)
     /\ backlog' = [c \in Conns |-> IF c \in kept THEN streams[c].lines ELSE IF c \in gone THEN <<>> ELSE backlog[c]]
     /\ unread' = [c \in Conns |-> IF c \in kept THEN streams[c].unread ELSE IF c \in gone THEN 0 ELSE unread[c]]
     /\ heard' = [c \in Conns |-> IF c \in live THEN streams[c].heard ELSE heard[c]]
     /\ flushToken' \in IF flushToken /= "armed" /\ \E c \in kept : streams[c].lines /= <<>>
                        THEN {"armed", "refused"} ELSE {flushToken}

Emit(lines) ==
  Settle([c \in Subscribers |-> EmittedAll(Stream(c), lines, c \in peer)], Subscribers)

\* The workspace the handler's queued action goes to.
HandlerGoal(n) == CASE handler = "next" -> (n % Desktops) + 1
                    [] handler = "home" -> 1
                    [] OTHER -> n

\* emit_ipc_event(WorkspaceChanged): run_lua_handlers runs the queued actions
\* first, so what they emit precedes the event itself.  The lines of one
\* switch, innermost handler first, and where it ends.
Switched[d \in 0..HandlerCap] ==
  [from \in 1..Desktops |-> [to \in 1..Desktops |->
    LET line == <<[kind |-> "workspace", from |-> from, to |-> to]>>
        goal == HandlerGoal(to)
        inner == Switched[d - 1][to][goal]
    IN IF d = 0 \/ goal = to THEN [lines |-> line, at |-> to]
       ELSE [lines |-> inner.lines \o line, at |-> inner.at]]]

-----------------------------------------------------------------------------
\* Sources of one dispatch.  Each wakes the loop, so the state-change sweep
\* runs afterwards.
Woken == dispatched' = FALSE

Accept(c) ==
  /\ conn[c] = "free" /\ peer' = peer \cup {c}
  /\ IF leases < MaxConns
     THEN conn' = [conn EXCEPT ![c] = "request"] /\ leases' = leases + 1
     ELSE conn' = [conn EXCEPT ![c] = "closed"] /\ UNCHANGED leases
  /\ Woken /\ UNCHANGED <<streamVars, flushToken, worldVars>>

\* The client closes its end; what the server notices, it notices later.
PeerLeaves(c) ==
  /\ c \in peer /\ peer' = peer \ {c}
  /\ UNCHANGED <<conn, leases, streamVars, flushToken, worldVars, dispatched>>

\* A request's connection ends: EOF, an oversized line, a read error, the
\* timeout; or a reply is written, or its peer is gone, or it timed out.
EndConnection(c) ==
  /\ conn[c] \in {"request", "response"}
  /\ conn' = [conn EXCEPT ![c] = "closed"] /\ leases' = leases - 1
  /\ Woken /\ UNCHANGED <<peer, streamVars, flushToken, worldVars>>

\* A request line: the reply takes a lease of its own before the request's
\* one drops with its source.  An action may switch the workspace.
Request(c) ==
  /\ conn[c] = "request" /\ conn' = [conn EXCEPT ![c] = "response"]
  /\ leases' = leases + 1 - 1
  /\ Woken /\ UNCHANGED <<peer, streamVars, flushToken, worldVars>>

\* register_subscriber: the lease moves along, and the ack goes through the
\* subscriber's own backlog; its flush result is not looked at.
Subscribe(c) ==
  /\ conn[c] = "request"
  /\ LET s == Flushed([lines |-> <<[kind |-> "ack"]>>, unread |-> 0,
                       heard |-> [Silence EXCEPT !.at = shown], ok |-> TRUE], c \in peer)
         live == Subscribers \cup {c}
     IN Settle([x \in live |-> IF x = c THEN [s EXCEPT !.ok = TRUE] ELSE Stream(x)], live)
  /\ Woken /\ UNCHANGED <<peer, worldVars>>

\* The EOF watcher of a subscriber.
SubscriberEof(c) ==
  /\ c \in Subscribers \ peer
  /\ conn' = [conn EXCEPT ![c] = "closed"] /\ leases' = leases - 1
  /\ backlog' = [backlog EXCEPT ![c] = <<>>] /\ unread' = [unread EXCEPT ![c] = 0]
  /\ Woken /\ UNCHANGED <<peer, heard, flushToken, worldVars>>

\* The client reads a line.
PeerReads(c) ==
  /\ c \in peer /\ unread[c] > 0 /\ unread' = [unread EXCEPT ![c] = @ - 1]
  /\ UNCHANGED <<socketVars, backlog, heard, flushToken, worldVars, dispatched>>

\* The retry timer: flush_ipc_subscribers, and stay armed while bytes wait.
FlushTimer ==
  /\ flushToken = "armed"
  /\ LET streams == [c \in Subscribers |-> Sweep(Flushed(Stream(c), c \in peer))]
         gone == {c \in Subscribers : ~streams[c].ok}
     IN /\ conn' = [c \in Conns |-> IF c \in gone THEN "closed" ELSE conn[c]]
        /\ leases' = leases - Cardinality(gone)
        /\ backlog' = [c \in Conns |-> IF c \in gone THEN <<>>
                                       ELSE IF c \in Subscribers THEN streams[c].lines ELSE backlog[c]]
        /\ unread' = [c \in Conns |-> IF c \in gone THEN 0
                                      ELSE IF c \in Subscribers THEN streams[c].unread ELSE unread[c]]
        /\ heard' = [c \in Conns |-> IF c \in Subscribers THEN streams[c].heard ELSE heard[c]]
        /\ flushToken' = IF \E c \in Subscribers \ gone : streams[c].lines /= <<>>
                         THEN "armed" ELSE "none"
  /\ Woken /\ UNCHANGED <<peer, worldVars>>

\* The desktop changes: a workspace switch emits at once, the rest is found
\* by the next sweep.
SwitchTo(n) ==
  /\ n /= shown
  /\ LET out == Switched[HandlerCap][shown][n]
     IN shown' = out.at /\ Emit(out.lines)
  /\ Woken /\ UNCHANGED <<peer, handler, facts, dragging, reported>>
FactsChange(f) ==
  /\ f /= facts /\ facts' = f
  /\ Woken /\ UNCHANGED <<socketVars, streamVars, flushToken, shown, handler, dragging, reported>>
Drag ==
  /\ dragging' = ~dragging
  /\ Woken /\ UNCHANGED <<socketVars, streamVars, flushToken, shown, handler, facts, reported>>

\* emit_state_change_events, once the dispatch is over.  (history) What a
\* query would answer a subscriber that has heard nothing yet.
Learned(h, now) == [h EXCEPT !.mode = IF @ = 0 THEN now.mode ELSE @,
                             !.scroll = IF @ = 0 THEN now.scroll ELSE @]
Learn(streams, now) == [c \in DOMAIN streams |-> [streams[c] EXCEPT !.heard = Learned(@, now)]]
DispatchEnd ==
  /\ ~dispatched /\ dispatched' = TRUE
  /\ LET held == dragging /\ reported /= Unseen
         now == [facts EXCEPT !.scroll = IF held THEN reported.scroll ELSE @]
         lines == (IF reported /= Unseen /\ now.mode /= reported.mode THEN <<[kind |-> "mode", to |-> now.mode]>> ELSE <<>>)
                  \o (IF reported /= Unseen /\ now.scroll /= reported.scroll THEN <<[kind |-> "scroll", to |-> now.scroll]>> ELSE <<>>)
     IN /\ reported' = IF Subscribers = {} THEN Unseen ELSE now
        /\ Settle(Learn([c \in Subscribers |-> EmittedAll(Stream(c), lines, c \in peer)], now),
                  Subscribers)
  /\ UNCHANGED <<peer, shown, handler, facts, dragging>>

IpcNext ==
  \/ \E c \in Conns : \/ Accept(c) \/ PeerLeaves(c) \/ EndConnection(c) \/ Request(c)
                      \/ Subscribe(c) \/ SubscriberEof(c) \/ PeerReads(c)
  \/ FlushTimer \/ DispatchEnd \/ Drag
  \/ \E n \in 1..Desktops : SwitchTo(n)
  \/ \E f \in Facts : FactsChange(f)
IpcSpec == IpcInit /\ [][IpcNext]_ipcVars

-----------------------------------------------------------------------------
\* Every connection that is open, in whichever phase, holds exactly one of the
\* MAX_CONNECTIONS slots.
SlotsHeld ==
  /\ leases = Cardinality({c \in Conns : conn[c] \in {"request", "response", "subscriber"}})
  /\ leases <= MaxConns

\* A subscriber's memory is bounded, and what it has not been sent yet always
\* has a timer that will send it, unless the loop refused that timer.
BacklogKept ==
  /\ \A c \in Conns : Len(backlog[c]) <= PendingCap /\ (backlog[c] /= <<>> => c \in Subscribers)
  /\ (\E c \in Subscribers : backlog[c] /= <<>>) => flushToken /= "none"

\* No line is lost, doubled or reordered: the workspace changes a subscriber
\* was sent form a chain, and end where the desktop is.
EventsChain ==
  \A c \in Subscribers : ~heard[c].broken /\ (backlog[c] = <<>> => heard[c].at = shown)

\* The four state changes are found once per dispatch: a subscriber that has
\* been sent everything knows the mode, and the strip unless a drag holds it.
FactsReported ==
  \A c \in Subscribers : dispatched /\ backlog[c] = <<>> =>
    heard[c].mode = facts.mode /\ (~dragging => heard[c].scroll = facts.scroll)

\* What a connection costs and what a subscriber is told, together: no slot
\* leaks, no backlog grows without bound, and no event is lost on the way.
SubscribersServed == SlotsHeld /\ BacklogKept /\ EventsChain /\ FactsReported
=============================================================================
