------------------------------ MODULE Capture ------------------------------
(***************************************************************************)
(* capture.rs: the queue between the clients and streams that ask for      *)
(* pixels and the render loop that owns the renderer.  A request is queued *)
(* (or refused when the queue is full), drawn at some later frame, and     *)
(* answered exactly once; the session may lock, an output may go dark or   *)
(* away, a window may close and a client may vanish in between.            *)
(***************************************************************************)
EXTENDS Integers, FiniteSets, Sequences, FiniteSetsExt, Functions, TLC

CONSTANTS
  Displays,      \* outputs
  Askers,        \* Wayland clients
  Shots,         \* single-shot frame objects of clients
  ShotOwner,     \* [Shots -> Askers]
  Streams,       \* PipeWire streams: one FrameTarget each
  StreamOf,      \* [Streams -> Displays]
  Pointed,       \* streams that draw the cursor
  MaxPending,    \* MAX_PENDING_CAPTURES
  MaxPerAsker,   \* MAX_PENDING_CAPTURES_PER_CLIENT
  MaxDrawn       \* MAX_CAPTURE_RENDERS_PER_OUTPUT_FRAME

ASSUME CaptureAssumption ==
  /\ MaxPending \in Nat \ {0} /\ MaxPerAsker \in Nat \ {0} /\ MaxDrawn \in Nat \ {0}
  /\ Displays \cap (Shots \cup Streams) = {} /\ Shots \cap Streams = {}
  /\ ShotOwner \in [Shots -> Askers] /\ StreamOf \in [Streams -> Displays]

VARIABLES
  mapped,    \* outputs in Space
  unlit,     \* ... whose CRTC is off
  drmActive, \* the session owns the VT
  locked,    \* session_lock is not Unlocked
  window,    \* a toplevel some requests are about is still mapped
  queue,     \* pending_captures
  fenced,    \* DMA-BUF captures drawn, whose fence is watched -> picture
  shot,      \* shot -> "new", "asked", "failed", "gone", or the picture it got
  cast       \* stream -> "idle", "asked", "closed"

cpVars == <<mapped, unlit, drmActive, locked, window, queue, fenced, shot, cast>>
worldVars == <<mapped, unlit, drmActive, locked, window>>

Kinds == {"output", "dmabuf", "window", "cast"}
Pictures == {"desktop", "lock", "window"}

CpTypeOK ==
  /\ mapped \subseteq Displays /\ unlit \subseteq mapped
  /\ drmActive \in BOOLEAN /\ locked \in BOOLEAN /\ window \in BOOLEAN
  /\ queue \in Seq([kind : Kinds, out : Displays, ids : SUBSET (Shots \cup Streams)])
  /\ DOMAIN fenced \subseteq Shots /\ Range(fenced) \subseteq Pictures
  /\ shot \in [Shots -> {"new", "asked", "failed", "gone"} \cup Pictures]
  /\ cast \in [Streams -> {"idle", "asked", "closed"}]

CpInit ==
  /\ mapped = Displays /\ unlit = {} /\ drmActive = TRUE /\ locked = FALSE /\ window = TRUE
  /\ queue = <<>> /\ fenced = <<>>
  /\ shot = [s \in Shots |-> "new"] /\ cast = [s \in Streams |-> "idle"]

-----------------------------------------------------------------------------
\* capture_queue_limit: one client's share, one output's share, the whole.
PerDisplayLimit ==
  LET n == Max({Cardinality(mapped), 1})
  IN Max({(MaxPending + n - 1) \div n, MaxDrawn})

Asks(a) == Cardinality({i \in DOMAIN queue : \E s \in queue[i].ids \cap Shots : ShotOwner[s] = a})
Queued(o) == Cardinality({i \in DOMAIN queue : queue[i].out = o})

Refused(o, owners) ==
  \/ \E a \in owners : Asks(a) >= MaxPerAsker
  \/ Cardinality(mapped) > 1 /\ Queued(o) >= PerDisplayLimit
  \/ Len(queue) >= MaxPending

\* CaptureCompletion::fail and ::output_unavailable differ only for streams:
\* one leaves the stream idle without a picture, the other ends it.
Answered(s, how) == shot' = [t \in Shots |-> IF t \in s /\ shot[t] = "asked" THEN how ELSE shot[t]]
Streamed(s, how) == cast' = [t \in Streams |-> IF t \in s THEN how ELSE cast[t]]

Ids(captures) == UNION {captures[i].ids : i \in DOMAIN captures}

\* queue_capture
Enqueue(capture, owners) ==
  IF Refused(capture.out, owners)
  THEN /\ Answered(capture.ids, "failed") /\ Streamed(capture.ids, "idle")
       /\ UNCHANGED <<queue, fenced>>
  ELSE /\ queue' = Append(queue, capture)
       /\ shot' = [s \in Shots |-> IF s \in capture.ids THEN "asked" ELSE shot[s]]
       /\ Streamed(capture.ids, "asked")
       /\ UNCHANGED <<fenced>>

\* A screencopy, export or image-copy frame, once: `copied` guards a second
\* Copy.  A window request needs the window and its output when it is made.
Copy(s, o, kind) ==
  /\ shot[s] = "new" /\ kind \in {"output", "dmabuf", "window"}
  /\ \/ /\ kind = "window" => window /\ o \in mapped
        /\ \/ Refused(o, {ShotOwner[s]}) /\ shot' = [shot EXCEPT ![s] = "failed"]
              /\ UNCHANGED <<queue, fenced, cast>>
           \/ ~Refused(o, {ShotOwner[s]})
              /\ Enqueue([kind |-> kind, out |-> o, ids |-> {s}], {ShotOwner[s]})
     \/ /\ kind = "window" => ~window  \* no target, or a buffer that does not fit
        /\ shot' = [shot EXCEPT ![s] = "failed"]
        /\ UNCHANGED <<queue, fenced, cast>>
  /\ UNCHANGED worldVars

\* ScreencastEvent::FrameRequested: the name resolves, or the request is
\* skipped and the stream keeps its last picture.
RequestFrame(s) ==
  /\ cast[s] = "idle"
  /\ IF StreamOf[s] \in mapped
     THEN Enqueue([kind |-> "cast", out |-> StreamOf[s], ids |-> {s}], {})
     ELSE UNCHANGED <<queue, fenced, shot, cast>>
  /\ UNCHANGED worldVars

-----------------------------------------------------------------------------
\* The captures of T, in the order of the queue s.
Only(s, T) ==
  LET kept[i \in 0 .. Len(s)] == IF i = 0 THEN <<>>
                                 ELSE IF s[i] \in T THEN Append(kept[i - 1], s[i]) ELSE kept[i - 1]
  IN kept[Len(s)]

Of(o) == {c \in Range(queue) : c.out = o}
NotOf(o) == Only(queue, Range(queue) \ Of(o))

\* Streams of one output that agree on the cursor share one drawing, put
\* behind the ordinary captures.
Shared(o, ids) ==
  IF ids = {} THEN <<>> ELSE <<[kind |-> "cast", out |-> o, ids |-> ids]>>
FanOut(o) ==
  LET casts == {c \in Of(o) : c.kind = "cast"}
      viewers == UNION {c.ids : c \in casts}
  IN Only(queue, Of(o) \ casts) \o Shared(o, viewers \ Pointed) \o Shared(o, viewers \cap Pointed)

\* Mutant of Drawn: a window capture does not look at the lock.
DrawnRegardless(kind) ==
  CASE kind = "window" -> IF ~window THEN "failed" ELSE "window"
    [] OTHER -> IF locked THEN "lock" ELSE "desktop"

\* render_one_capture as of now: what it shows, or "failed".
Drawn(kind) ==
  CASE kind = "window" -> IF locked \/ ~window THEN "failed" ELSE "window"
    [] OTHER -> IF locked THEN "lock" ELSE "desktop"

\* render_pending_captures: at most MaxDrawn, the rest to the queue's end.
\* `broken` captures fail in the renderer; `late` ones wait for a GPU fence.
Render(o, broken, late) ==
  /\ drmActive /\ o \in mapped \ unlit /\ Of(o) /= {}
  /\ LET all == FanOut(o)
         n == Min({Len(all), MaxDrawn})
         now == SubSeq(all, 1, n)
         outcome == [s \in Ids(now) |->
            LET i == CHOOSE j \in DOMAIN now : s \in now[j].ids
            IN IF i \in broken THEN "failed" ELSE Drawn(now[i].kind)]
     IN /\ broken \subseteq DOMAIN now
        /\ late \subseteq {s \in Ids(now) : outcome[s] /= "failed"}
        /\ \A s \in late : \E i \in DOMAIN now : s \in now[i].ids /\ now[i].kind = "dmabuf"
        /\ queue' = NotOf(o) \o SubSeq(all, n + 1, Len(all))
        /\ fenced' = [s \in DOMAIN fenced \cup late |-> IF s \in late THEN outcome[s] ELSE fenced[s]]
        /\ shot' = [s \in Shots |-> IF s \in Ids(now) \ late THEN outcome[s] ELSE shot[s]]
        /\ Streamed(Ids(now), "idle")
  /\ UNCHANGED worldVars

\* The fence is signalled: complete_dmabuf_capture.
FenceReached(s) ==
  /\ s \in DOMAIN fenced
  /\ fenced' = Restrict(fenced, DOMAIN fenced \ {s}) /\ Answered({s}, fenced[s])
  /\ UNCHANGED <<worldVars, queue, cast>>

\* fail_captures_for_output and cleanup_capture: drop what waits for `outs`.
GiveUp(outs) ==
  LET lost == {c \in Range(queue) : c.out \in outs}
      ids == UNION {c.ids : c \in lost}
  IN
  /\ lost /= {}
  /\ queue' = Only(queue, Range(queue) \ lost)
  /\ Answered(ids, "failed") /\ Streamed(ids, "closed")
  /\ UNCHANGED <<worldVars, fenced>>

\* A frame of any output fails the captures of the dark ones.
FailUnlit(o) == drmActive /\ o \in unlit /\ GiveUp({o})

\* Mutant of CleanUp: the timer looks for outputs that are dark, not gone.
CleanUpDark == GiveUp(unlit)

\* cleanup_capture, on the maintenance timer
CleanUp == GiveUp(Displays \ mapped)

-----------------------------------------------------------------------------
\* Mutant of ClientGone: the queue keeps the captures of the client.
ClientGoneQueued(a) ==
  LET mine == {s \in Shots : ShotOwner[s] = a} IN
  /\ \E s \in mine : shot[s] \in {"new", "asked"}
  /\ shot' = [s \in Shots |-> IF s \in mine /\ shot[s] \in {"new", "asked"} THEN "gone" ELSE shot[s]]
  /\ UNCHANGED <<worldVars, queue, fenced, cast>>

\* handle_client_disconnect: its frames are gone, queued or behind a fence.
ClientGone(a) ==
  LET mine == {s \in Shots : ShotOwner[s] = a} IN
  /\ \E s \in mine : shot[s] \in {"new", "asked"}
  /\ queue' = Only(queue, {c \in Range(queue) : c.ids \cap mine = {}})
  /\ shot' = [s \in Shots |-> IF s \in mine /\ shot[s] \in {"new", "asked"} THEN "gone" ELSE shot[s]]
  /\ UNCHANGED <<worldVars, fenced, cast>>

\* The client destroys an answered frame object and makes another.
NewFrame(s) ==
  /\ shot[s] \in {"failed"} \cup Pictures
  /\ shot' = [shot EXCEPT ![s] = "new"]
  /\ UNCHANGED <<worldVars, queue, fenced, cast>>

SetLocked == locked' = ~locked /\ UNCHANGED <<mapped, unlit, drmActive, window, queue, fenced, shot, cast>>
SwitchVt == drmActive' = ~drmActive /\ UNCHANGED <<mapped, unlit, locked, window, queue, fenced, shot, cast>>
CloseWindow ==
  /\ window /\ window' = FALSE
  /\ UNCHANGED <<mapped, unlit, drmActive, locked, queue, fenced, shot, cast>>
SetPower(o) ==
  /\ o \in mapped
  /\ unlit' = IF o \in unlit THEN unlit \ {o} ELSE unlit \cup {o}
  /\ UNCHANGED <<mapped, drmActive, locked, window, queue, fenced, shot, cast>>
Unplug(o) ==
  /\ o \in mapped
  /\ mapped' = mapped \ {o} /\ unlit' = unlit \ {o}
  /\ UNCHANGED <<drmActive, locked, window, queue, fenced, shot, cast>>

CpWorld ==
  \/ SetLocked \/ SwitchVt \/ CloseWindow
  \/ \E a \in Askers : ClientGone(a)
  \/ \E o \in Displays : SetPower(o) \/ Unplug(o)
CpAsk ==
  \/ \E s \in Shots, o \in Displays, k \in Kinds : Copy(s, o, k)
  \/ \E s \in Shots : NewFrame(s)
  \/ \E s \in Streams : RequestFrame(s)
DrawSome(o) == \E broken \in SUBSET (1 .. MaxDrawn), late \in SUBSET Shots : Render(o, broken, late)
ServeDisplay(o) == DrawSome(o) \/ FailUnlit(o) \/ (o \notin mapped /\ CleanUp)
CpServe ==
  \/ \E o \in Displays : FailUnlit(o) \/ DrawSome(o)
  \/ CleanUp
  \/ \E s \in Shots : FenceReached(s)

CpNext == CpWorld \/ CpAsk \/ CpServe
CpSpec == CpInit /\ [][CpNext]_cpVars

\* What waits for an output makes the loop serve it: queue_capture pings the
\* redraw source, and cleanup_capture runs on a timer.
CpFairness ==
  /\ \A o \in Displays : WF_cpVars(ServeDisplay(o))
  /\ \A s \in Shots : WF_cpVars(FenceReached(s))

-----------------------------------------------------------------------------
\* Every request that was taken in is in exactly one place until it is
\* answered: one queue entry or one watched fence, never both, never neither
\* (queue_capture, the drain of render_pending_captures, the completion cell).
CapturesAccounted ==
  /\ \A s \in Shots :
       LET places == {i \in DOMAIN queue : s \in queue[i].ids} IN
       /\ Cardinality(places) <= 1
       /\ shot[s] = "asked" <=> (places /= {} \/ (s \in DOMAIN fenced /\ shot[s] /= "gone"))
       /\ places = {} \/ s \notin DOMAIN fenced
  /\ \A s \in Streams :
       cast[s] = "asked" <=> \E i \in DOMAIN queue : s \in queue[i].ids

\* No client holds more of the queue than its share, and the queue never
\* grows past its limit, whatever is merged, deferred and re-queued.
CaptureQueueBounded ==
  /\ Len(queue) <= MaxPending
  /\ \A a \in Askers : Asks(a) <= MaxPerAsker

\* A frame drawn while the session is locked never shows a window or the
\* desktop, however long before the lock it was asked for.
LockHidesCaptures ==
  [][locked => /\ \A s \in Shots : shot'[s] \in Pictures \ {"lock"} =>
                    shot[s] = shot'[s] \/ s \in DOMAIN fenced
               /\ \A s \in DOMAIN fenced' \ DOMAIN fenced : fenced'[s] = "lock"]_cpVars

\* The queue accounts for what it took in and stays within its limits
\* (queue_capture and render_pending_captures).
CapturesKept == CpTypeOK /\ CapturesAccounted /\ CaptureQueueBounded
=============================================================================
