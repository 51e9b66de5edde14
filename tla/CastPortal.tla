---------------------------- MODULE CastPortal ----------------------------
(***************************************************************************)
(* The desktop portal's ScreenCast sessions (screencast/portal.rs) and the *)
(* source picker they wait for (visual/source_picker.rs).  Start holds a   *)
(* reservation over two awaits, the user's choice and PipeWire's start,    *)
(* during which Close, a disconnect or another Start may come.             *)
(***************************************************************************)
EXTENDS Integers, FiniteSets, Sequences, SequencesExt

CONSTANTS
  Portals,      \* portal sessions, by their entry
  MaxPortals,   \* MAX_PORTAL_SESSIONS
  NoPicker

ASSUME CastPortalAssumption == NoPicker \notin Portals /\ MaxPortals \in Nat

VARIABLES
  entry,     \* SessionEntry::stream: "idle", "starting", "active", "closed", or "none"
  listed,    \* the entry is in SessionMap
  usable,    \* registered, with sources selected
  call,      \* start in flight: "no", "picking", "picked", "launching", "launched"
  picks,     \* PickSource events in the channel
  picker,    \* the session the picker on screen answers
  answer,    \* replies not yet received: "none", "choice", "cancel"
  thread,    \* the session's PipeWire thread: "none", "starting", "failed", "live", "dead"
  attached,  \* ... whose handle is in the entry, not in the call
  curtain    \* the session is locked

cpoVars == <<entry, listed, usable, call, picks, picker, answer, thread, attached, curtain>>
pickVars == <<picks, picker, answer>>

CpoInit ==
  /\ entry = [p \in Portals |-> "none"] /\ listed = {} /\ usable = {}
  /\ call = [p \in Portals |-> "no"] /\ picks = <<>> /\ picker = NoPicker
  /\ answer = [p \in Portals |-> "none"] /\ thread = [p \in Portals |-> "none"]
  /\ attached = {} /\ curtain = FALSE

-----------------------------------------------------------------------------
\* create_session: reserve the path, then register the object or give it up.
CreatePortal(p) ==
  /\ entry[p] = "none" /\ Cardinality(listed) < MaxPortals
  /\ listed' = listed \cup {p} /\ entry' = [entry EXCEPT ![p] = "idle"]
  /\ UNCHANGED <<usable, call, pickVars, thread, attached, curtain>>
RegisterPortal(p) ==
  /\ p \in listed \ usable
  /\ \/ usable' = usable \cup {p} /\ UNCHANGED <<listed, entry>>
     \/ listed' = listed \ {p} /\ entry' = [entry EXCEPT ![p] = "closed"] /\ UNCHANGED usable
  /\ UNCHANGED <<call, pickVars, thread, attached, curtain>>

\* StartReservation::begin, then the PickSource event: a dead stream's handle
\* is dropped; a live stream or a start in flight refuses.
BeginStart(p) ==
  /\ p \in listed \cap usable /\ call[p] = "no"
  /\ entry[p] = "idle" \/ (entry[p] = "active" /\ thread[p] = "dead")
  /\ entry' = [entry EXCEPT ![p] = "starting"] /\ call' = [call EXCEPT ![p] = "picking"]
  /\ thread' = [thread EXCEPT ![p] = "none"] /\ attached' = attached \ {p}
  /\ picks' = Append(picks, p)
  /\ UNCHANGED <<listed, usable, picker, answer, curtain>>

Reply(p, what) == [answer EXCEPT ![p] = what]

\* open_screencast_picker: a picker already open is cancelled; a locked
\* session or no source at all cancels; one source needs no question.
OpenPicker ==
  /\ picks /= <<>> /\ picks' = Tail(picks)
  /\ LET p == Head(picks)
         cancelled == IF picker = NoPicker THEN answer ELSE Reply(picker, "cancel")
     IN \/ /\ picker' = NoPicker
           /\ answer' = [cancelled EXCEPT ![p] = "cancel"]
        \/ /\ ~curtain /\ picker' = NoPicker
           /\ answer' = [cancelled EXCEPT ![p] = "choice"]
        \/ /\ ~curtain /\ picker' = p /\ answer' = cancelled
  /\ UNCHANGED <<entry, listed, usable, call, thread, attached, curtain>>

\* The picker's keys and clicks: SourcePicker::complete, which replies once.
Choose(what) ==
  /\ picker /= NoPicker /\ picker' = NoPicker /\ answer' = Reply(picker, what)
  /\ UNCHANGED <<entry, listed, usable, call, picks, thread, attached, curtain>>

\* The reservation is dropped: idle again, unless it was closed meanwhile.
Unreserve(p) ==
  /\ call' = [call EXCEPT ![p] = "no"]
  /\ entry' = [entry EXCEPT ![p] = IF @ = "starting" THEN "idle" ELSE @]

\* The choice arrives: launch a PipeWire thread, or answer cancelled.
Chosen(p) ==
  /\ call[p] = "picking" /\ answer[p] /= "none" /\ answer' = Reply(p, "none")
  /\ IF answer[p] = "choice"
     THEN /\ call' = [call EXCEPT ![p] = "launching"]
          /\ thread' = [thread EXCEPT ![p] = "starting"] /\ UNCHANGED entry
     ELSE Unreserve(p) /\ UNCHANGED thread
  /\ UNCHANGED <<listed, usable, picks, picker, attached, curtain>>

ThreadMoves(p) ==
  /\ \/ thread[p] = "starting" /\ thread' = [thread EXCEPT ![p] = "live"]
     \/ thread[p] = "starting" /\ thread' = [thread EXCEPT ![p] = "failed"]
     \/ thread[p] = "live" /\ thread' = [thread EXCEPT ![p] = "dead"]
  /\ UNCHANGED <<entry, listed, usable, call, pickVars, attached, curtain>>

\* pipewire_thread::start returned; a timeout or an error drops the thread.
Launched(p) ==
  /\ call[p] = "launching"
  /\ \/ /\ thread[p] \in {"live", "dead"}
        /\ call' = [call EXCEPT ![p] = "launched"] /\ UNCHANGED <<entry, thread>>
     \/ /\ thread[p] \in {"starting", "failed"}
        /\ Unreserve(p) /\ thread' = [thread EXCEPT ![p] = "none"]
  /\ UNCHANGED <<listed, usable, pickVars, attached, curtain>>

\* StartReservation::complete: publish the stream, or drop it if closed.
Complete(p) ==
  /\ call[p] = "launched" /\ call' = [call EXCEPT ![p] = "no"]
  /\ IF entry[p] = "starting"
     THEN entry' = [entry EXCEPT ![p] = "active"] /\ attached' = attached \cup {p} /\ UNCHANGED thread
     ELSE thread' = [thread EXCEPT ![p] = "none"] /\ UNCHANGED <<entry, attached>>
  /\ UNCHANGED <<listed, usable, pickVars, curtain>>

\* Session.Close, and watch_disconnects: mark closed, drop a published
\* stream, unlist.  The order of the two is the watcher's or close's own.
ClosePortal(p) ==
  /\ p \in listed
  /\ entry' = [entry EXCEPT ![p] = "closed"] /\ listed' = listed \ {p}
  /\ attached' = attached \ {p}
  /\ thread' = [thread EXCEPT ![p] = IF p \in attached THEN "none" ELSE @]
  /\ UNCHANGED <<usable, call, pickVars, curtain>>

Curtain == curtain' = ~curtain /\ UNCHANGED <<entry, listed, usable, call, pickVars, thread, attached>>

CpoStart(p) == Chosen(p) \/ Launched(p) \/ Complete(p)
CpoNext ==
  \/ OpenPicker \/ Curtain \/ \E p \in Portals : CpoStart(p)
  \/ \E what \in {"choice", "cancel"} : Choose(what)
  \/ \E p \in Portals :
       CreatePortal(p) \/ RegisterPortal(p) \/ BeginStart(p) \/ ThreadMoves(p) \/ ClosePortal(p)
CpoSpec == CpoInit /\ [][CpoNext]_cpoVars
CpoFairness == \A p \in Portals : WF_cpoVars(CpoStart(p))

-----------------------------------------------------------------------------
\* Each Start that waits for the user is asked about in exactly one place: the
\* channel, the picker on screen, or a reply on its way; a second picker never
\* silences the first (SourcePicker's Drop).
PicksAnswered ==
  \A p \in Portals : call[p] = "picking" =>
    (IF p \in Range(picks) THEN 1 ELSE 0) + (IF picker = p THEN 1 ELSE 0)
      + (IF answer[p] /= "none" THEN 1 ELSE 0) = 1

\* A thread is always somebody's: a published stream of an open session, or
\* a Start in flight; so a closed session stops streaming for good however
\* its Start was caught.
PortalThreadsOwned ==
  \A p \in Portals :
    /\ thread[p] /= "none" => (p \in attached /\ entry[p] = "active") \/ call[p] \in {"launching", "launched"}
    /\ entry[p] = "active" <=> p \in attached
    /\ entry[p] = "starting" => call[p] /= "no"

\* Every Start comes to one end: a cancelled question, a stream somebody owns,
\* or a thread that is dropped with its call.
StartsSettled == PicksAnswered /\ PortalThreadsOwned
=============================================================================
