------------------------------- MODULE Frames -------------------------------
(***************************************************************************)
(* When TideWM draws.  One event loop turns damage into page flips, one    *)
(* chain per output (backend/udev.rs):                                     *)
(*                                                                         *)
(*   request_redraw --ping--> render --queue_frame--> VBlank --> render    *)
(*                              |                                          *)
(*                              +--EmptyFrame--> timer ----> render        *)
(*                                                                         *)
(* and four things cut into it at any moment: a VT switch, DPMS, a monitor *)
(* that comes or goes, and the session lock, which counts drawn frames:    *)
(* the locker is told "locked" once every output queued a locked frame     *)
(* (state/session.rs).                                                     *)
(*                                                                         *)
(* An output stands for its connector, its CRTC and its SurfaceData; the   *)
(* boolean fields of SurfaceData are sets of outputs.  A picture is one of *)
(* three: the desktop, the blank of a locked session, the surface of its   *)
(* locker (a new one after each unlock).                                   *)
(***************************************************************************)
EXTENDS Naturals, FiniteSets

CONSTANTS
  Output,       \* connectors of the scanout device
  Generation,   \* timer generations; bounds the timers armed at once
  Environment,  \* what the world does in this instance
  None

ASSUME EnvironmentAssumption ==
  Environment \subseteq {"animation", "failure", "hotplug", "lock", "power", "refuse", "vt"}
ASSUME NoneAssumption == None \notin Generation

VARIABLES
  connected,  \* outputs with a SurfaceData, the ones mapped in the space
  dirty,      \* SurfaceData.dirty
  pending,    \* SurfaceData.pending
  retry,      \* SurfaceData.empty_frame_retry_pending
  poweredOff, \* SurfaceData.powered_off
  timers,     \* armed calloop timers; live is history: the arm still stands
  flips,      \* page-flip events the kernel has still to deliver
  requests,   \* redraw_requests, as the live outputs it includes
  ping,       \* redraw_wakeup is readable
  active,     \* drm.is_active(): this VT is in front
  lock, lockedOutputs, lockSurfaces,
  shown,      \* history: the picture of the last frame queued per output
  behind,     \* history: outputs whose picture changed since their last frame
  running     \* the event loop has not been stopped

chain == <<dirty, pending, retry, timers, flips, shown, behind>>
locking == <<lock, lockedOutputs>>
vars == <<connected, chain, poweredOff, requests, ping, active, locking,
          lockSurfaces, running>>

MaxFlips == 2  \* the flip in flight and one stale event
Timer == [out: Output, gen: Generation, live: BOOLEAN]
Picture == {"none", "off", "desktop", "blank", "locker", "former locker"}

TypeOK ==
  /\ connected \subseteq Output
  /\ dirty \subseteq connected /\ pending \subseteq connected /\ poweredOff \subseteq connected
  /\ retry \in [Output -> Generation \cup {None}]
  /\ timers \subseteq Timer
  /\ flips \in [Output -> 0 .. MaxFlips]
  /\ requests \subseteq connected /\ ping \in BOOLEAN
  /\ active \in BOOLEAN /\ running \in BOOLEAN
  /\ lock \in {"Unlocked", "Locking", "Locked"}
  /\ lockedOutputs \subseteq connected /\ lockSurfaces \subseteq connected
  /\ shown \in [Output -> Picture]
  /\ behind \subseteq connected

(***************************************************************************)
(* Rendering.                                                              *)
(***************************************************************************)
Scene(o) ==
  IF lock = "Unlocked" THEN "desktop"
  ELSE IF o \in lockSurfaces THEN "locker" ELSE "blank"

\* Timers of the outputs S no longer stand for anything.
Cancelled(ts, S) ==
  {[t EXCEPT !.live = t.live /\ t.out \notin S] : t \in ts}

\* Mutant: a generation is unique among the surfaces that wait, so that a
\* recreated surface may reuse the one of a timer still armed.
FreshPerSurface(b) == Generation \ {b.retry[o] : o \in Output}

\* Generations no armed timer and no surface holds: the device-wide counter.
Fresh(b) ==
  Generation \ ({t.gen : t \in b.timers} \cup {b.retry[o] : o \in Output})

\* Mutants: one locked output is enough; no output is never enough.
ConfirmedByOne(outputs, marked) ==
  IF lock = "Locking" /\ outputs \cap marked # {} THEN "Locked" ELSE lock
ConfirmedNotVacuously(outputs, marked) ==
  IF lock = "Locking" /\ outputs # {} /\ outputs \subseteq marked THEN "Locked" ELSE lock

\* try_confirm_lock, with the outputs that are mapped.
Confirmed(outputs, marked) ==
  IF lock = "Locking" /\ outputs \subseteq marked THEN "Locked" ELSE lock

\* mark_output_locked_frame for the outputs whose frame was queued.
Marked(queued) ==
  IF lock = "Locking" THEN lockedOutputs \cup queued ELSE lockedOutputs

\* What a handler reads before it renders.
Now == [dirty |-> dirty, pending |-> pending, retry |-> retry, timers |-> timers,
        flips |-> flips, active |-> active]

\* The outputs whose EmptyFrame arms a timer: at most one per surface, and
\* when onlyAnimated none for a picture that stands still
\* (schedule_empty_frame_retry and its callers).
Arming(b, empty, moving, onlyAnimated) ==
  {o \in empty : b.retry[o] = None /\ (onlyAnimated => o \in moving)}

\* render_surface on every output of R from the fields b, with what the
\* caller does about an EmptyFrame: the outputs of queued get a page flip,
\* those of empty had nothing to change, the others failed and stay dirty.
\* gen are the timers armed, refused the ones that could not be.
Draw(b, R, queued, empty, moving, refused, gen) ==
  /\ dirty' = (b.dirty \ R) \cup (R \ (queued \cup empty)) \cup moving \cup refused
  /\ pending' = b.pending \cup queued
  /\ retry' = [o \in Output |->
       IF o \in queued THEN None ELSE IF o \in DOMAIN gen THEN gen[o] ELSE b.retry[o]]
  /\ timers' = Cancelled(b.timers, queued)
       \cup {[out |-> o, gen |-> gen[o], live |-> TRUE] : o \in DOMAIN gen}
  /\ flips' = [o \in Output |-> b.flips[o] + IF o \in queued THEN 1 ELSE 0]
  /\ shown' = [o \in Output |-> IF o \in queued THEN Scene(o) ELSE shown[o]]
  /\ behind' = (behind \ (queued \cup empty)) \cup moving
  /\ lockedOutputs' = Marked(queued)
  /\ lock' = Confirmed(connected, lockedOutputs')

\* What may happen to a frame: an inactive device takes no page flip, a
\* frame is empty only when it repeats the last one, only an unlocked
\* session animates.
Possible(b, R, queued, empty, moving, refused) ==
  /\ R \ (queued \cup empty) # {} => ~b.active \/ "failure" \in Environment
  /\ queued # {} => b.active
  /\ \A o \in empty : shown[o] = Scene(o)
  /\ moving # {} => lock = "Unlocked" /\ "animation" \in Environment
  /\ refused # {} => "refuse" \in Environment

Render(b, R, onlyAnimated) ==
  \E queued \in SUBSET R : \E empty \in SUBSET (R \ queued) : \E moving \in SUBSET R :
  \E refused \in SUBSET Arming(b, empty, moving, onlyAnimated) :
    /\ Possible(b, R, queued, empty, moving, refused)
    /\ \E gen \in [Arming(b, empty, moving, onlyAnimated) \ refused -> Fresh(b)] :
         /\ \A o, p \in DOMAIN gen : gen[o] = gen[p] => o = p
         /\ Draw(b, R, queued, empty, moving, refused, gen)

\* A handler renders R, or nothing when the renderer is not available.
RenderIfAble(b, R, onlyAnimated) ==
  \/ Render(b, R, onlyAnimated)
  \/ "failure" \in Environment /\ Render(b, {}, onlyAnimated)

(***************************************************************************)
(* The event sources of the backend.                                       *)
(***************************************************************************)
\* Mutant: does not look at the page flip in flight.
ReadyWhilePending(marked) ==
  {o \in marked \ poweredOff : active /\ retry[o] = None}

\* The redraw wake-up (render_requested_surfaces): takes every request, and
\* renders the surfaces that wait for neither a flip nor a timer.
Ready(marked) ==
  {o \in marked \ (pending \cup poweredOff) : active /\ retry[o] = None}

Redraw ==
  /\ running /\ ping
  /\ ping' = FALSE /\ requests' = {}
  /\ LET marked == dirty \cup requests
     IN RenderIfAble([Now EXCEPT !.dirty = marked], Ready(marked), FALSE)
  /\ UNCHANGED <<connected, poweredOff, active, lockSurfaces, running>>

\* Mutant: renders what is requested, not what was left dirty.
FlipDoneIfRequested(o) == (requests \cap {o}) \ poweredOff

\* A page-flip event: the surface may queue again, and does so at once when
\* it is dirty.
FlipDone(o) == (dirty \cap {o}) \ poweredOff

VBlank(o) ==
  /\ running /\ flips[o] > 0
  /\ RenderIfAble([Now EXCEPT !.pending = @ \ {o}, !.flips[o] = @ - 1], FlipDone(o), FALSE)
  /\ UNCHANGED <<connected, poweredOff, requests, ping, active, lockSurfaces, running>>

\* An empty-frame timer.  Only the generation its surface still holds counts;
\* while the VT is away it leaves the redraw to the resume.
Matches(t) == retry[t.out] = t.gen

Due(t) == IF Matches(t) /\ active THEN {t.out} \ poweredOff ELSE {}

TimerFires(t) ==
  /\ running /\ t \in timers
  /\ RenderIfAble(
       [Now EXCEPT !.timers = @ \ {t},
                   !.retry = IF Matches(t) THEN [@ EXCEPT ![t.out] = None] ELSE @,
                   !.dirty = IF Matches(t) /\ ~active THEN @ \cup {t.out} ELSE @],
       Due(t), TRUE)
  /\ UNCHANGED <<connected, poweredOff, requests, ping, active, lockSurfaces, running>>

\* Of the flip events of S at most one survives, late.
Lost(S) ==
  {f \in [Output -> 0 .. MaxFlips] :
     \A o \in Output : IF o \in S THEN f[o] \in {0, IF flips[o] > 0 THEN 1 ELSE 0}
                       ELSE f[o] = flips[o]}

PauseSession ==
  /\ running /\ active /\ "vt" \in Environment
  /\ active' = FALSE
  /\ flips' \in Lost(Output)
  /\ UNCHANGED <<connected, dirty, pending, retry, timers, shown, behind, poweredOff,
                 requests, ping, locking, lockSurfaces, running>>

\* Back on this VT: scanout starts over and every output is drawn, whatever
\* DPMS said.  Without a renderer only the device is active again.  (A
\* resume_scanout that fails leaves everything as it was.)
ActivateSession ==
  /\ running /\ ~active
  /\ active' = TRUE
  /\ \/ /\ poweredOff' = {}
        /\ Render([Now EXCEPT !.pending = {}, !.dirty = connected, !.active = TRUE],
                  connected, FALSE)
     \/ /\ "failure" \in Environment
        /\ UNCHANGED <<chain, locking, poweredOff>>
  /\ UNCHANGED <<connected, requests, ping, lockSurfaces, running>>

(***************************************************************************)
(* Damage, DPMS and monitors.                                              *)
(***************************************************************************)
\* request_redraw and request_output_redraw: note the outputs, wake the loop.
Request(S) ==
  /\ requests' = requests \cup S
  /\ behind' = behind \cup S
  /\ ping' = TRUE

Damage ==
  /\ running
  /\ \E S \in {connected} \cup {{o} : o \in connected} : Request(S)
  /\ UNCHANGED <<connected, dirty, pending, retry, timers, flips, shown, poweredOff, active,
                 locking, lockSurfaces, running>>

\* The hook behind wlr-output-power-management and toggle-dpms.
PowerOn(o) ==
  /\ running /\ o \in connected /\ "power" \in Environment
  /\ poweredOff' = poweredOff \ {o}
  /\ dirty' = dirty \cup {o}
  /\ UNCHANGED <<connected, pending, retry, timers, flips, shown, behind, requests, ping,
                 active, locking, lockSurfaces, running>>

PowerOff(o) ==
  /\ running /\ o \in connected /\ active /\ "power" \in Environment
  /\ poweredOff' = poweredOff \cup {o}
  /\ pending' = pending \ {o}
  /\ flips' \in Lost({o})
  /\ shown' = [shown EXCEPT ![o] = "off"]
  /\ UNCHANGED <<connected, dirty, retry, timers, behind, requests, ping, active, locking,
                 lockSurfaces, running>>

Connect(o) ==
  /\ running /\ active /\ o \in Output \ connected /\ "hotplug" \in Environment
  /\ connected' = connected \cup {o}
  /\ dirty' = dirty \cup {o}
  /\ Request(connected')
  /\ UNCHANGED <<pending, retry, timers, flips, shown, poweredOff, active, locking,
                 lockSurfaces, running>>

\* The surface goes with all its fields; its timers stay armed.
Disconnect(o) ==
  /\ running /\ o \in connected /\ "hotplug" \in Environment
  /\ connected' = connected \ {o}
  /\ dirty' = dirty \ {o}
  /\ pending' = pending \ {o}
  /\ poweredOff' = poweredOff \ {o}
  /\ retry' = [retry EXCEPT ![o] = None]
  /\ timers' = Cancelled(timers, {o})
  /\ flips' \in Lost({o})
  /\ shown' = [shown EXCEPT ![o] = "none"]
  /\ lockSurfaces' = lockSurfaces \ {o}
  /\ lockedOutputs' = lockedOutputs \ {o}
  /\ lock' = Confirmed(connected', lockedOutputs')
  /\ requests' = connected' /\ behind' = connected' /\ ping' = TRUE
  /\ UNCHANGED <<active, running>>

(***************************************************************************)
(* The session lock (ext-session-lock-v1).                                 *)
(***************************************************************************)
LockSession ==
  /\ running /\ lock = "Unlocked" /\ "lock" \in Environment
  /\ lockedOutputs' = {}
  /\ lock' = IF connected = {} THEN "Locked" ELSE "Locking"
  /\ Request(connected)
  /\ UNCHANGED <<connected, dirty, pending, retry, timers, flips, shown, poweredOff, active,
                 lockSurfaces, running>>

RegisterLockSurface(o) ==
  /\ running /\ lock # "Unlocked" /\ o \in connected \ lockSurfaces
  /\ lockSurfaces' = lockSurfaces \cup {o}
  /\ Request(connected)
  /\ UNCHANGED <<connected, dirty, pending, retry, timers, flips, shown, poweredOff, active,
                 locking, running>>

UnlockSession ==
  /\ running /\ lock = "Locked"
  /\ lock' = "Unlocked"
  /\ lockSurfaces' = {} /\ lockedOutputs' = {}
  /\ shown' = [o \in Output |-> IF shown[o] = "locker" THEN "former locker" ELSE shown[o]]
  /\ Request(connected)
  /\ UNCHANGED <<connected, dirty, pending, retry, timers, flips, poweredOff, active, running>>

\* The locker disconnects without unlocking: the compositor ends.
LockClientDies ==
  /\ running /\ lock # "Unlocked"
  /\ running' = FALSE
  /\ UNCHANGED <<connected, chain, poweredOff, requests, ping, active, locking, lockSurfaces>>

(***************************************************************************)
(* Start-up draws every surface once before the loop runs.                 *)
(***************************************************************************)
Init ==
  /\ connected \in SUBSET Output
  /\ pending \in SUBSET connected
  /\ connected # pending => "failure" \in Environment
  /\ dirty = connected \ pending /\ behind = dirty
  /\ retry = [o \in Output |-> None]
  /\ timers = {} /\ poweredOff = {}
  /\ flips = [o \in Output |-> IF o \in pending THEN 1 ELSE 0]
  /\ requests = {} /\ ping = FALSE
  /\ active = TRUE /\ running = TRUE
  /\ lock = "Unlocked" /\ lockedOutputs = {} /\ lockSurfaces = {}
  /\ shown = [o \in Output |-> IF o \in pending THEN "desktop" ELSE "none"]

Next ==
  \/ Redraw
  \/ \E o \in Output : VBlank(o)
  \/ \E t \in timers : TimerFires(t)
  \/ PauseSession
  \/ ActivateSession
  \/ Damage
  \/ \E o \in Output : PowerOn(o) \/ PowerOff(o) \/ Connect(o) \/ Disconnect(o)
  \/ LockSession
  \/ \E o \in Output : RegisterLockSurface(o)
  \/ UnlockSession
  \/ LockClientDies

Spec == Init /\ [][Next]_vars

\* The loop dispatches what is readable: the eventfd, an expired timer, a
\* flip event.  The kernel completes the flips of the VT in front.
Fairness ==
  /\ WF_vars(Redraw)
  /\ \A o \in Output : WF_vars(VBlank(o))
  /\ \A t \in Timer : WF_vars(TimerFires(t))

FairSpec == Spec /\ Fairness

(***************************************************************************)
(* Properties.                                                             *)
(***************************************************************************)
\* An armed timer is obeyed exactly while its arm stands: not after a page
\* flip replaced it, not by the next monitor on the same CRTC; and a surface
\* that waits for a timer has one.
TimersMatchTheirArm ==
  /\ \A t \in timers : t.live <=> Matches(t)
  /\ \A o \in Output : retry[o] # None => \E t \in timers : t.out = o /\ t.live

\* KMS takes one flip at a time: a surface waits for a flip or for a timer,
\* never both (the timer does not look at pending), and a flip it waits for
\* is on its way while the VT is in front.
OneFrameInFlight ==
  \A o \in pending : retry[o] = None /\ (active => flips[o] > 0)

\* No frame is queued on an output that is switched off, neither by a retry
\* timer armed before nor by a flip event delivered after.
DarkStaysDark ==
  \A o \in poweredOff : shown[o] = "off" /\ o \notin pending

\* Only a frame that is due is queued: by the timer that was armed for it,
\* and on an output that is on.
OnlyDueFrames == TimersMatchTheirArm /\ DarkStaysDark

\* No lost wake-up: an output whose picture changed is drawn by something
\* already under way, unless it was switched off and has not been drawn since.
Woken(o) ==
  \/ ping /\ o \in requests \cup dirty
  \/ o \in pending \cap dirty /\ flips[o] > 0
  \/ \E t \in timers : t.out = o /\ Matches(t)

NoLostWakeup ==
  running /\ active => \A o \in behind \ poweredOff : shown[o] = "off" \/ Woken(o)

\* When the locker is told "locked", no output shows the desktop, and none
\* shows it again before the unlock.
LockedHidesDesktop ==
  lock = "Locked" => \A o \in connected : shown[o] # "desktop"

\* An output that can be drawn on.
Lit(o) == running /\ active /\ o \in connected \ poweredOff /\ shown[o] # "off"

\* Every change of a lit output's picture reaches a frame.
DamageIsDrawn ==
  \A o \in Output : o \in behind ~> o \notin behind \/ ~Lit(o)

\* A lock request is confirmed when the monitors stay on and plugged in.
LockIsConfirmed ==
  (<>[](\A o \in connected : Lit(o)) /\ <>[][connected' = connected]_connected)
    => (lock = "Locking" ~> lock # "Locking" \/ ~running)

\* udev.rs, DPMS-off state: "Rendering is skipped until power-on marks it
\* dirty; the next ordinary queue re-enables scanout": an output switched on
\* again is drawn.
PowerOnIsDrawn ==
  \A o \in Output :
    o \in connected \ poweredOff /\ shown[o] = "off"
      ~> o \notin connected \ poweredOff \/ shown[o] # "off" \/ ~running
=============================================================================
