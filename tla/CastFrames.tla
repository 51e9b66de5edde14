---------------------------- MODULE CastFrames ----------------------------
(***************************************************************************)
(* One stream's FrameTarget (screencast/mod.rs): three atomics shared by   *)
(* the PipeWire thread, which asks for pictures and publishes the last     *)
(* one, and the compositor, which fills the slot.  Every load and store is *)
(* a step of its own; the channel and the capture queue lie between.       *)
(***************************************************************************)
EXTENDS Integers

VARIABLES
  onOrder,   \* FrameTarget::pending
  ended,     \* FrameTarget::closed
  slot,      \* FrameTarget::frame: "none", or "fits" or "other" in its size
  asking,    \* the process callback: where the PipeWire thread stands
  looping,   \* its main loop has not returned
  inbox,     \* FrameRequested events in the channel
  waiting,   \* captures of this target in pending_captures
  filling,   \* the compositor inside complete, skip or close
  sized,     \* the source still has the negotiated size
  drawn      \* the picture complete was called with

cfVars == <<onOrder, ended, slot, asking, looping, inbox, waiting, filling, sized, drawn>>
streamSide == <<asking, looping>>
compositorSide == <<waiting, filling, drawn>>

CfInit ==
  /\ onOrder = FALSE /\ ended = FALSE /\ slot = "none" /\ asking = "idle" /\ looping = TRUE
  /\ inbox = 0 /\ waiting = 0 /\ filling = "no" /\ sized = TRUE /\ drawn = "none"

-----------------------------------------------------------------------------
\* The PipeWire thread.  A turn of its loop ends when the target is closed,
\* the stream was stopped or the daemon is lost; otherwise it may process.
Turn ==
  /\ looping /\ asking = "idle"
  /\ IF ended THEN looping' = FALSE /\ UNCHANGED asking
     ELSE asking' = "request" /\ UNCHANGED looping
  /\ UNCHANGED <<onOrder, ended, slot, inbox, compositorSide, sized>>
StreamStops ==
  /\ looping /\ asking = "idle" /\ looping' = FALSE
  /\ UNCHANGED <<onOrder, ended, slot, asking, inbox, compositorSide, sized>>

\* request: load closed, then swap pending, then send.
LoadClosed ==
  /\ asking = "request" /\ asking' = IF ended THEN "publish" ELSE "swap"
  /\ UNCHANGED <<onOrder, ended, slot, looping, inbox, compositorSide, sized>>
\* Mutant of SwapPending: the stream orders whatever was on order.
SwapRegardless ==
  /\ asking = "swap" /\ asking' = "send" /\ onOrder' = TRUE
  /\ UNCHANGED <<ended, slot, looping, inbox, compositorSide, sized>>

SwapPending ==
  /\ asking = "swap" /\ asking' = (IF onOrder THEN "publish" ELSE "send") /\ onOrder' = TRUE
  /\ UNCHANGED <<ended, slot, looping, inbox, compositorSide, sized>>
Send ==
  /\ asking = "send" /\ asking' = "publish" /\ inbox' = inbox + 1
  /\ UNCHANGED <<onOrder, ended, slot, looping, compositorSide, sized>>

\* The slot is read under its mutex; a picture of another size ends the
\* stream: close is a store, the rest of complete(None) two more.
Publish ==
  /\ asking = "publish" /\ asking' = IF slot = "other" THEN "close" ELSE "idle"
  /\ UNCHANGED <<onOrder, ended, slot, looping, inbox, compositorSide, sized>>
CloseHere ==
  /\ asking = "close" /\ ended' = TRUE /\ asking' = "empty"
  /\ UNCHANGED <<onOrder, slot, looping, inbox, compositorSide, sized>>
EmptyHere ==
  /\ asking = "empty" /\ slot' = "none" /\ asking' = "release"
  /\ UNCHANGED <<onOrder, ended, looping, inbox, compositorSide, sized>>
ReleaseHere ==
  /\ asking = "release" /\ onOrder' = FALSE /\ asking' = "idle"
  /\ UNCHANGED <<ended, slot, looping, inbox, compositorSide, sized>>

-----------------------------------------------------------------------------
\* The compositor.  A request is queued, skipped (its monitor is away) or
\* closes the stream (its window is gone).
Receive ==
  /\ inbox > 0 /\ filling = "no" /\ inbox' = inbox - 1
  /\ \/ waiting' = waiting + 1 /\ UNCHANGED filling
     \/ filling' \in {"release", "close"} /\ UNCHANGED waiting
  /\ UNCHANGED <<onOrder, ended, slot, streamSide, sized, drawn>>

\* The capture is drawn, fails, or its output is lost (close).
Capture ==
  /\ waiting > 0 /\ filling = "no" /\ waiting' = waiting - 1
  /\ \/ /\ filling' = "load" /\ drawn' \in {"none", IF sized THEN "fits" ELSE "other"}
     \/ filling' = "close" /\ UNCHANGED drawn
  /\ UNCHANGED <<onOrder, ended, slot, streamSide, inbox, sized>>

\* complete: load closed, store the slot, clear pending.
LoadEnded ==
  /\ filling = "load" /\ filling' = "store" /\ drawn' = IF ended THEN "none" ELSE drawn
  /\ UNCHANGED <<onOrder, ended, slot, streamSide, inbox, waiting, sized>>
StoreSlot ==
  /\ filling = "store" /\ filling' = "release" /\ slot' = drawn /\ drawn' = "none"
  /\ UNCHANGED <<onOrder, ended, streamSide, inbox, waiting, sized>>
ClearPending ==
  /\ filling = "release" /\ filling' = "no" /\ onOrder' = FALSE
  /\ UNCHANGED <<ended, slot, streamSide, inbox, waiting, sized, drawn>>
CloseThere ==
  /\ filling = "close" /\ filling' = "load" /\ ended' = TRUE /\ drawn' = "none"
  /\ UNCHANGED <<onOrder, slot, streamSide, inbox, waiting, sized>>

\* A modeset, or a window resize, after the stream negotiated its size
Resize ==
  /\ sized /\ sized' = FALSE
  /\ UNCHANGED <<onOrder, ended, slot, streamSide, inbox, compositorSide>>

CfStream ==
  \/ Turn \/ LoadClosed \/ SwapPending \/ Send \/ Publish \/ CloseHere \/ EmptyHere \/ ReleaseHere
CfCompositor == Receive \/ Capture \/ LoadEnded \/ StoreSlot \/ ClearPending \/ CloseThere
CfNext == CfStream \/ StreamStops \/ CfCompositor \/ Resize
CfSpec == CfInit /\ [][CfNext]_cfVars

\* Both threads keep looping (a PipeWire loop turn lasts at most 50 ms).
CfFairness == WF_cfVars(CfStream) /\ WF_cfVars(CfCompositor)

-----------------------------------------------------------------------------
Outstanding ==
  inbox + waiting + (IF filling = "no" THEN 0 ELSE 1) + (IF asking = "send" THEN 1 ELSE 0)

\* A stream has at most one picture on order, so it cannot flood the capture
\* queue, which has no per-client share for it; and whoever holds the order
\* shows as onOrder (FrameTarget::request and complete).
OneOrder ==
  /\ Outstanding <= 1
  /\ inbox + waiting > 0 => onOrder \/ ended

\* And a stream that ended never orders again, once its last callback is over
\* (the closed flag is set before the order is released).
StreamOrders == [][OneOrder' /\ (ended /\ asking = "idle" => inbox' <= inbox)]_cfVars
=============================================================================
