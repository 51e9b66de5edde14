---------------------------- MODULE FramesProofs ----------------------------
(***************************************************************************)
(* Proofs about frame scheduling, for any outputs, timer generations and   *)
(* behaviour of the world: stale timers are inert, one frame is in flight  *)
(* per output, dark outputs stay dark, and a confirmed lock hides the      *)
(* desktop.                                                                *)
(*                                                                         *)
(* The parts lean on one another: the retry timer never looks at pending,  *)
(* so that flips stay within bounds only because a surface that waits for  *)
(* a timer waits for no flip (WaitsOnce); a lock confirmation counts       *)
(* outputs, so that every counted one must go on hiding the desktop while  *)
(* the others are still drawn (CountedOutputsHide).                        *)
(***************************************************************************)
EXTENDS Frames, TLAPS

\* A surface waits for a flip or for a timer.
WaitsOnce == \A o \in pending : retry[o] = None

\* A second flip event is only due behind a stale one.
FlipBound == \A o \in Output : flips[o] <= 1 \/ (o \in pending /\ active)

\* Without a surface there is no picture and no timer to obey.
UnpluggedIsBlank == \A o \in Output \ connected : shown[o] = "none" /\ retry[o] = None

\* Outputs counted towards the confirmation show no desktop.
CountedOutputsHide == lock = "Locking" => \A o \in lockedOutputs : shown[o] # "desktop"

IInv ==
  /\ TypeOK
  /\ WaitsOnce /\ FlipBound /\ UnpluggedIsBlank
  /\ TimersMatchTheirArm
  /\ DarkStaysDark
  /\ CountedOutputsHide /\ LockedHidesDesktop

-----------------------------------------------------------------------------
(* What a render does *)

\* The fields a handler renders from are those of a good state, and R are
\* outputs it may render.
FieldTypes(b) ==
  /\ b.dirty \subseteq connected /\ b.pending \subseteq connected
  /\ b.retry \in [Output -> Generation \cup {None}]
  /\ b.timers \subseteq Timer
  /\ b.flips \in [Output -> 0 .. MaxFlips]
  /\ b.active \in BOOLEAN

FieldsWait(b) ==
  /\ \A o \in b.pending : b.retry[o] = None
  /\ \A o \in Output : b.flips[o] <= 1 \/ (o \in b.pending /\ b.active)
  /\ \A o \in Output \ connected : b.retry[o] = None

FieldTimers(b) ==
  /\ \A t \in b.timers : t.live <=> b.retry[t.out] = t.gen
  /\ \A o \in Output : b.retry[o] # None => \E t \in b.timers : t.out = o /\ t.live

Drawable(b, R) == R \subseteq connected \ b.pending

\* The choices behind a render.
Drawing(b, R, only, queued, empty, moving, refused, gen) ==
  /\ queued \subseteq R /\ empty \subseteq R \ queued /\ moving \subseteq R
  /\ refused \subseteq Arming(b, empty, moving, only)
  /\ gen \in [Arming(b, empty, moving, only) \ refused -> Fresh(b)]
  /\ Possible(b, R, queued, empty, moving, refused)
  /\ Draw(b, R, queued, empty, moving, refused, gen)

LEMMA RenderDraws ==
  ASSUME NEW b, NEW R, NEW only, Render(b, R, only)
  PROVE  \E queued, empty, moving, refused, gen :
           Drawing(b, R, only, queued, empty, moving, refused, gen)
<1>1. PICK queued \in SUBSET R : \E empty \in SUBSET (R \ queued) : \E moving \in SUBSET R :
        \E refused \in SUBSET Arming(b, empty, moving, only) :
          /\ Possible(b, R, queued, empty, moving, refused)
          /\ \E gen \in [Arming(b, empty, moving, only) \ refused -> Fresh(b)] :
               Draw(b, R, queued, empty, moving, refused, gen)
  BY DEF Render
<1>2. PICK empty \in SUBSET (R \ queued) : \E moving \in SUBSET R :
        \E refused \in SUBSET Arming(b, empty, moving, only) :
          /\ Possible(b, R, queued, empty, moving, refused)
          /\ \E gen \in [Arming(b, empty, moving, only) \ refused -> Fresh(b)] :
               Draw(b, R, queued, empty, moving, refused, gen)
  BY <1>1
<1>3. PICK moving \in SUBSET R : \E refused \in SUBSET Arming(b, empty, moving, only) :
          /\ Possible(b, R, queued, empty, moving, refused)
          /\ \E gen \in [Arming(b, empty, moving, only) \ refused -> Fresh(b)] :
               Draw(b, R, queued, empty, moving, refused, gen)
  BY <1>2
<1>4. PICK refused \in SUBSET Arming(b, empty, moving, only) :
          /\ Possible(b, R, queued, empty, moving, refused)
          /\ \E gen \in [Arming(b, empty, moving, only) \ refused -> Fresh(b)] :
               Draw(b, R, queued, empty, moving, refused, gen)
  BY <1>3
<1>5. PICK gen \in [Arming(b, empty, moving, only) \ refused -> Fresh(b)] :
          Draw(b, R, queued, empty, moving, refused, gen)
  BY <1>4
<1> QED
  BY <1>1, <1>2, <1>3, <1>4, <1>5 DEF Drawing

\* The types of what a render assigns.
DrawnTypes ==
  /\ dirty \subseteq connected /\ pending \subseteq connected /\ behind \subseteq connected
  /\ retry \in [Output -> Generation \cup {None}]
  /\ timers \subseteq Timer
  /\ flips \in [Output -> 0 .. MaxFlips]
  /\ shown \in [Output -> Picture]
  /\ lockedOutputs \subseteq connected
  /\ lock \in {"Unlocked", "Locking", "Locked"}

LEMMA CancelledTypes ==
  ASSUME NEW ts \in SUBSET Timer, NEW S
  PROVE  Cancelled(ts, S) \in SUBSET Timer
BY DEF Cancelled, Timer

LEMMA RenderTypes ==
  ASSUME TypeOK, NEW b, NEW R, NEW only, FieldTypes(b), FieldsWait(b), Drawable(b, R),
         Render(b, R, only), connected' = connected
  PROVE  DrawnTypes'
<1>1. PICK queued, empty, moving, refused, gen :
        Drawing(b, R, only, queued, empty, moving, refused, gen)
  BY RenderDraws
<1> DEFINE A == Arming(b, empty, moving, only) \ refused
<1>2. /\ queued \subseteq R /\ empty \subseteq R /\ moving \subseteq R /\ refused \subseteq R
      /\ A \subseteq empty /\ gen \in [A -> Fresh(b)] /\ R \subseteq Output
  BY <1>1 DEF Drawing, Arming, Drawable, TypeOK
<1>3. Fresh(b) \subseteq Generation
  BY DEF Fresh
<1>4. /\ dirty' \subseteq connected /\ pending' \subseteq connected /\ behind' \subseteq connected
  BY <1>1, <1>2 DEF Drawing, Draw, FieldTypes, Drawable, TypeOK
<1>5. retry' \in [Output -> Generation \cup {None}]
  BY <1>1, <1>2, <1>3 DEF Drawing, Draw, FieldTypes
<1>6. timers' \subseteq Timer
  <2>1. Cancelled(b.timers, queued) \subseteq Timer
    BY CancelledTypes DEF FieldTypes
  <2>2. {[out |-> o, gen |-> gen[o], live |-> TRUE] : o \in DOMAIN gen} \subseteq Timer
    <3>1. ASSUME NEW o \in DOMAIN gen
          PROVE  o \in Output /\ gen[o] \in Generation
      BY <1>2, <1>3
    <3>2. ASSUME NEW o \in DOMAIN gen
          PROVE  [out |-> o, gen |-> gen[o], live |-> TRUE] \in Timer
      BY <3>1 DEF Timer
    <3> QED
      BY <3>2
  <2> QED
    BY <1>1, <2>1, <2>2 DEF Drawing, Draw
<1>7. flips' \in [Output -> 0 .. MaxFlips]
  <2>1. ASSUME NEW o \in Output
        PROVE  b.flips[o] + (IF o \in queued THEN 1 ELSE 0) \in 0 .. MaxFlips
    BY <1>2 DEF FieldTypes, FieldsWait, Drawable, MaxFlips
  <2> QED
    BY <1>1, <2>1 DEF Drawing, Draw
<1>8. shown' \in [Output -> Picture]
  BY <1>1 DEF Drawing, Draw, TypeOK, Scene, Picture
<1>9. lockedOutputs' \subseteq connected /\ lock' \in {"Unlocked", "Locking", "Locked"}
  BY <1>1, <1>2 DEF Drawing, Draw, Marked, Confirmed, TypeOK, Drawable
<1> QED
  BY <1>4, <1>5, <1>6, <1>7, <1>8, <1>9 DEF DrawnTypes

\* A render keeps to one flip or one timer per surface.
Waiting == WaitsOnce /\ FlipBound /\ \A o \in Output \ connected : retry[o] = None

LEMMA RenderWaits ==
  ASSUME TypeOK, NEW b, NEW R, NEW only, FieldTypes(b), FieldsWait(b), Drawable(b, R),
         Render(b, R, only), connected' = connected, active' = b.active
  PROVE  Waiting'
<1>1. PICK queued, empty, moving, refused, gen :
        Drawing(b, R, only, queued, empty, moving, refused, gen)
  BY RenderDraws
<1>2. /\ queued \subseteq R /\ DOMAIN gen \subseteq R \ queued /\ R \subseteq connected \ b.pending
      /\ pending' = b.pending \cup queued
      /\ retry' = [o \in Output |->
            IF o \in queued THEN None ELSE IF o \in DOMAIN gen THEN gen[o] ELSE b.retry[o]]
      /\ flips' = [o \in Output |-> b.flips[o] + IF o \in queued THEN 1 ELSE 0]
      /\ queued # {} => b.active
  BY <1>1 DEF Drawing, Draw, Possible, Arming, Drawable
<1>3. WaitsOnce'
  <2>1. ASSUME NEW o \in pending'
        PROVE  retry'[o] = None
    <3>1. o \in Output
      BY <1>2 DEF FieldTypes, TypeOK
    <3> QED
      BY <1>2, <3>1 DEF FieldsWait
  <2> QED
    BY <2>1 DEF WaitsOnce
<1>4. FlipBound'
  <2>1. ASSUME NEW o \in Output
        PROVE  flips'[o] <= 1 \/ (o \in pending' /\ active')
    <3>1. CASE o \in queued
      BY <1>2, <3>1
    <3>2. CASE o \notin queued
      <4>1. flips'[o] = b.flips[o]
        BY <1>2, <3>2 DEF FieldTypes
      <4> QED
        BY <1>2, <4>1 DEF FieldsWait
    <3> QED
      BY <3>1, <3>2
  <2> QED
    BY <2>1 DEF FlipBound
<1>5. ASSUME NEW o \in Output \ connected
      PROVE  retry'[o] = None
  BY <1>2 DEF FieldsWait
<1> QED
  BY <1>3, <1>4, <1>5 DEF Waiting

\* A render arms new generations only, and only for surfaces without a timer;
\* what it cancels no longer matches.
LEMMA CancelledMatch ==
  ASSUME NEW ts \in SUBSET Timer, NEW S, NEW t \in Cancelled(ts, S)
  PROVE  \E u \in ts : /\ t.out = u.out /\ t.gen = u.gen
                       /\ t.live = (u.live /\ u.out \notin S)
<1>1. PICK u \in ts : t = [u EXCEPT !.live = u.live /\ u.out \notin S]
  BY DEF Cancelled
<1>2. u \in Timer
  OBVIOUS
<1> QED
  BY <1>1, <1>2 DEF Timer

LEMMA CancelledKeeps ==
  ASSUME NEW ts \in SUBSET Timer, NEW S, NEW u \in ts, u.live, u.out \notin S
  PROVE  \E t \in Cancelled(ts, S) : t.out = u.out /\ t.live
<1>1. u \in Timer
  OBVIOUS
<1> DEFINE t == [u EXCEPT !.live = u.live /\ u.out \notin S]
<1>2. t \in Cancelled(ts, S)
  BY DEF Cancelled
<1>3. t.out = u.out /\ t.live
  BY <1>1 DEF Timer
<1> QED
  BY <1>2, <1>3

LEMMA RenderTimers ==
  ASSUME TypeOK, NEW b, NEW R, NEW only, FieldTypes(b), FieldTimers(b), Drawable(b, R),
         Render(b, R, only)
  PROVE  TimersMatchTheirArm'
<1>1. PICK queued, empty, moving, refused, gen :
        Drawing(b, R, only, queued, empty, moving, refused, gen)
  BY RenderDraws
<1> DEFINE new == {[out |-> o, gen |-> gen[o], live |-> TRUE] : o \in DOMAIN gen}
<1>2. /\ DOMAIN gen \subseteq Output \ queued
      /\ retry' = [o \in Output |->
            IF o \in queued THEN None ELSE IF o \in DOMAIN gen THEN gen[o] ELSE b.retry[o]]
      /\ timers' = Cancelled(b.timers, queued) \cup new
  BY <1>1 DEF Drawing, Draw, Arming, Drawable, TypeOK
<1>3. ASSUME NEW o \in DOMAIN gen
      PROVE  /\ b.retry[o] = None
             /\ gen[o] \in Generation
             /\ \A t \in b.timers : t.gen # gen[o]
  BY <1>1 DEF Drawing, Arming, Fresh
<1>4. ASSUME NEW t \in timers'
      PROVE  t.live <=> retry'[t.out] = t.gen
  <2>1. CASE t \in new
    <3>1. PICK o \in DOMAIN gen : t = [out |-> o, gen |-> gen[o], live |-> TRUE]
      BY <2>1
    <3>2. t.out = o /\ t.gen = gen[o] /\ t.live = TRUE
      BY <3>1
    <3> QED
      BY <1>2, <3>2
  <2>2. CASE t \in Cancelled(b.timers, queued)
    <3>1. b.timers \in SUBSET Timer
      BY DEF FieldTypes
    <3>2. PICK u \in b.timers : /\ t.out = u.out /\ t.gen = u.gen
                                /\ t.live = (u.live /\ u.out \notin queued)
      BY <2>2, <3>1, CancelledMatch
    <3>3. u \in Timer
      BY <3>1
    <3>4. u.out \in Output /\ u.gen \in Generation /\ u.gen # None
      BY <3>3, NoneAssumption DEF Timer
    <3>5. u.live <=> b.retry[u.out] = u.gen
      BY DEF FieldTimers
    <3>6. CASE u.out \in queued
      BY <1>2, <3>2, <3>4, <3>6
    <3>7. CASE u.out \in DOMAIN gen
      <4>1. retry'[u.out] = gen[u.out] /\ b.retry[u.out] = None /\ u.gen # gen[u.out]
        BY <1>2, <1>3, <3>4, <3>7
      <4> QED
        BY <3>2, <3>4, <3>5, <4>1
    <3>8. CASE u.out \notin queued /\ u.out \notin DOMAIN gen
      <4>1. retry'[u.out] = b.retry[u.out]
        BY <1>2, <3>4, <3>8
      <4> QED
        BY <3>2, <3>5, <3>8, <4>1
    <3> QED
      BY <3>6, <3>7, <3>8
  <2> QED
    BY <1>2, <2>1, <2>2
<1>5. ASSUME NEW o \in Output, retry'[o] # None
      PROVE  \E t \in timers' : t.out = o /\ t.live
  <2>1. CASE o \in DOMAIN gen
    <3> DEFINE t == [out |-> o, gen |-> gen[o], live |-> TRUE]
    <3>1. t \in timers'
      BY <1>2, <2>1
    <3>2. t.out = o /\ t.live
      OBVIOUS
    <3> QED
      BY <3>1, <3>2
  <2>2. CASE o \notin DOMAIN gen
    <3>1. o \notin queued /\ b.retry[o] # None
      BY <1>2, <1>5, <2>2
    <3>2. PICK u \in b.timers : u.out = o /\ u.live
      BY <3>1 DEF FieldTimers
    <3>3. b.timers \in SUBSET Timer
      BY DEF FieldTypes
    <3> QED
      BY <1>2, <3>1, <3>2, <3>3, CancelledKeeps
  <2> QED
    BY <2>1, <2>2
<1> QED
  BY <1>4, <1>5 DEF TimersMatchTheirArm, Matches

\* A render that leaves the switched-off outputs alone keeps them dark.
LEMMA RenderDark ==
  ASSUME NEW b, NEW R, NEW only, Render(b, R, only), R \cap poweredOff' = {},
         poweredOff' \subseteq poweredOff, TypeOK, DarkStaysDark, b.pending \subseteq pending
  PROVE  DarkStaysDark'
<1>1. PICK queued, empty, moving, refused, gen :
        Drawing(b, R, only, queued, empty, moving, refused, gen)
  BY RenderDraws
<1>2. /\ queued \subseteq R /\ pending' = b.pending \cup queued
      /\ shown' = [o \in Output |-> IF o \in queued THEN Scene(o) ELSE shown[o]]
  BY <1>1 DEF Drawing, Draw
<1> QED
  BY <1>2 DEF DarkStaysDark, TypeOK

\* What a render shows and counts while the session is locked.
Hiding == CountedOutputsHide /\ LockedHidesDesktop
          /\ \A o \in Output \ connected : shown[o] = "none"

LEMMA RenderHides ==
  ASSUME NEW b, NEW R, NEW only, Render(b, R, only), connected' = connected,
         TypeOK, Hiding, Drawable(b, R)
  PROVE  Hiding'
<1>1. PICK queued, empty, moving, refused, gen :
        Drawing(b, R, only, queued, empty, moving, refused, gen)
  BY RenderDraws
<1>2. /\ queued \subseteq connected
      /\ shown' = [o \in Output |-> IF o \in queued THEN Scene(o) ELSE shown[o]]
      /\ lockedOutputs' = Marked(queued)
      /\ lock' = Confirmed(connected, lockedOutputs')
  BY <1>1 DEF Drawing, Draw, Drawable
<1>3. lock # "Unlocked" => \A o \in queued : shown'[o] # "desktop"
  BY <1>2 DEF Scene, TypeOK
<1>4. ASSUME NEW o \in Output \ connected
      PROVE  shown'[o] = "none"
  BY <1>2 DEF Hiding
<1>5. CASE lock = "Locking"
  <2>1. ASSUME NEW o \in lockedOutputs'
        PROVE  shown'[o] # "desktop"
    BY <1>2, <1>3, <1>5 DEF Hiding, CountedOutputsHide, Marked, TypeOK
  <2>2. lock' = "Locked" => connected \subseteq lockedOutputs'
    BY <1>2, <1>5 DEF Confirmed
  <2> QED
    BY <1>4, <2>1, <2>2 DEF Hiding, CountedOutputsHide, LockedHidesDesktop
<1>6. CASE lock # "Locking"
  <2>1. lock' = lock
    BY <1>2, <1>6 DEF Confirmed
  <2>2. lock = "Locked" => \A o \in connected : shown'[o] # "desktop"
    BY <1>2, <1>3 DEF Hiding, LockedHidesDesktop, TypeOK
  <2> QED
    BY <1>4, <1>6, <2>1, <2>2 DEF Hiding, CountedOutputsHide, LockedHidesDesktop
<1> QED
  BY <1>5, <1>6

-----------------------------------------------------------------------------
(* The handlers that render *)

\* Every handler that renders: from good fields, on outputs that are on.
LEMMA RenderKeeps ==
  ASSUME IInv, NEW b, NEW R, NEW only,
         FieldTypes(b), FieldsWait(b), FieldTimers(b), Drawable(b, R), Render(b, R, only),
         connected' = connected, active' = b.active, b.pending \subseteq pending,
         R \cap poweredOff' = {}, poweredOff' \subseteq poweredOff,
         requests' \subseteq connected, ping' \in BOOLEAN, running' = running,
         lockSurfaces' = lockSurfaces
  PROVE  IInv'
<1>1. TypeOK /\ Hiding /\ DarkStaysDark
  BY DEF IInv, Hiding, UnpluggedIsBlank
<1>2. DrawnTypes'
  BY <1>1, RenderTypes
<1>3. Waiting'
  BY <1>1, RenderWaits
<1>4. TimersMatchTheirArm'
  BY <1>1, RenderTimers
<1>5. DarkStaysDark'
  BY <1>1, RenderDark
<1>6. Hiding'
  BY <1>1, RenderHides
<1>7. /\ (poweredOff \subseteq connected)' /\ (connected \subseteq Output)'
      /\ (requests \subseteq connected)' /\ (ping \in BOOLEAN)' /\ (active \in BOOLEAN)'
      /\ (running \in BOOLEAN)' /\ (lockSurfaces \subseteq connected)'
  BY <1>1 DEF TypeOK, FieldTypes
<1> QED
  BY <1>2, <1>3, <1>4, <1>5, <1>6, <1>7
     DEF DrawnTypes, TypeOK, Waiting, Hiding, UnpluggedIsBlank, IInv

\* With the renderer or without it.
LEMMA RenderIfAbleKeeps ==
  ASSUME IInv, NEW b, NEW R, NEW only,
         FieldTypes(b), FieldsWait(b), FieldTimers(b), Drawable(b, R), RenderIfAble(b, R, only),
         connected' = connected, active' = b.active, b.pending \subseteq pending,
         R \cap poweredOff' = {}, poweredOff' \subseteq poweredOff,
         requests' \subseteq connected, ping' \in BOOLEAN, running' = running,
         lockSurfaces' = lockSurfaces
  PROVE  IInv'
<1>1. CASE Render(b, R, only)
  BY <1>1, RenderKeeps
<1>2. CASE Render(b, {}, only)
  <2>1. Drawable(b, {})
    BY DEF Drawable
  <2> QED
    BY <1>2, <2>1, RenderKeeps
<1> QED
  BY <1>1, <1>2 DEF RenderIfAble

LEMMA RedrawKeeps ==
  ASSUME IInv, Redraw
  PROVE  IInv'
<1> DEFINE marked == dirty \cup requests
           b == [Now EXCEPT !.dirty = marked]
<1>1. /\ b.dirty = marked /\ b.pending = pending /\ b.retry = retry /\ b.timers = timers
      /\ b.flips = flips /\ b.active = active
  BY DEF Now
<1>2. /\ RenderIfAble(b, Ready(marked), FALSE)
      /\ ping' = FALSE /\ requests' = {}
      /\ UNCHANGED <<connected, poweredOff, active, lockSurfaces, running>>
  BY DEF Redraw
<1> HIDE DEF b
<1>3. FieldTypes(b)
  BY <1>1 DEF IInv, TypeOK, FieldTypes
<1>4. FieldsWait(b)
  BY <1>1 DEF IInv, FieldsWait, WaitsOnce, FlipBound, UnpluggedIsBlank
<1>5. FieldTimers(b)
  BY <1>1 DEF IInv, FieldTimers, TimersMatchTheirArm, Matches
<1>6. Drawable(b, Ready(marked)) /\ Ready(marked) \cap poweredOff' = {}
  BY <1>1, <1>2 DEF Drawable, Ready, IInv, TypeOK
<1> QED
  BY <1>1, <1>2, <1>3, <1>4, <1>5, <1>6, RenderIfAbleKeeps

LEMMA VBlankKeeps ==
  ASSUME IInv, NEW o \in Output, VBlank(o)
  PROVE  IInv'
<1> DEFINE b == [Now EXCEPT !.pending = @ \ {o}, !.flips[o] = @ - 1]
<1>1. /\ b.dirty = dirty /\ b.pending = pending \ {o} /\ b.retry = retry /\ b.timers = timers
      /\ b.flips = [flips EXCEPT ![o] = @ - 1] /\ b.active = active
  BY DEF Now
<1>2. /\ RenderIfAble(b, FlipDone(o), FALSE) /\ flips[o] > 0
      /\ UNCHANGED <<connected, poweredOff, requests, ping, active, lockSurfaces, running>>
  BY DEF VBlank
<1> HIDE DEF b
<1>3. FieldTypes(b)
  <2>1. flips[o] - 1 \in 0 .. MaxFlips
    BY <1>2 DEF IInv, TypeOK, MaxFlips
  <2> QED
    BY <1>1, <2>1 DEF IInv, TypeOK, FieldTypes
<1>4. FieldsWait(b)
  <2>1. ASSUME NEW p \in Output
        PROVE  b.flips[p] <= 1 \/ (p \in b.pending /\ b.active)
    BY <1>1 DEF IInv, TypeOK, FlipBound, MaxFlips
  <2> QED
    BY <1>1, <2>1 DEF IInv, FieldsWait, WaitsOnce, UnpluggedIsBlank
<1>5. FieldTimers(b)
  BY <1>1 DEF IInv, FieldTimers, TimersMatchTheirArm, Matches
<1>6. Drawable(b, FlipDone(o)) /\ FlipDone(o) \cap poweredOff' = {}
  BY <1>1, <1>2 DEF Drawable, FlipDone, IInv, TypeOK
<1>7. requests' \subseteq connected /\ ping' \in BOOLEAN
  BY <1>2 DEF IInv, TypeOK
<1> QED
  BY <1>1, <1>2, <1>3, <1>4, <1>5, <1>6, <1>7, RenderIfAbleKeeps

LEMMA TimerFiresKeeps ==
  ASSUME IInv, NEW t \in timers, TimerFires(t)
  PROVE  IInv'
<1> DEFINE b == [Now EXCEPT !.timers = @ \ {t},
                   !.retry = IF Matches(t) THEN [@ EXCEPT ![t.out] = None] ELSE @,
                   !.dirty = IF Matches(t) /\ ~active THEN @ \cup {t.out} ELSE @]
<1>1. /\ b.dirty = IF Matches(t) /\ ~active THEN dirty \cup {t.out} ELSE dirty
      /\ b.pending = pending
      /\ b.retry = IF Matches(t) THEN [retry EXCEPT ![t.out] = None] ELSE retry
      /\ b.timers = timers \ {t} /\ b.flips = flips /\ b.active = active
  BY DEF Now
<1>2. /\ RenderIfAble(b, Due(t), TRUE)
      /\ UNCHANGED <<connected, poweredOff, requests, ping, active, lockSurfaces, running>>
  BY DEF TimerFires
<1> HIDE DEF b
<1>3. timers \subseteq Timer /\ t \in Timer
  BY DEF IInv, TypeOK
<1>4. t.out \in Output /\ t.gen \in Generation /\ t.gen # None /\ t.live \in BOOLEAN
  BY <1>3, NoneAssumption DEF Timer
<1>5. Matches(t) => t.out \in connected \ pending /\ t.live
  BY <1>4 DEF IInv, Matches, UnpluggedIsBlank, WaitsOnce, TimersMatchTheirArm
<1>6. FieldTypes(b)
  BY <1>1, <1>4, <1>5 DEF IInv, TypeOK, FieldTypes
<1>7. FieldsWait(b)
  BY <1>1, <1>4 DEF IInv, TypeOK, FieldsWait, WaitsOnce, FlipBound, UnpluggedIsBlank
<1>8. FieldTimers(b)
  <2>1. ASSUME NEW u \in timers \ {t}
        PROVE  u.live <=> b.retry[u.out] = u.gen
    <3>1. u \in Timer /\ u.out \in Output /\ u.gen \in Generation /\ u.gen # None
      BY <1>3, NoneAssumption DEF Timer
    <3>2. u.live <=> retry[u.out] = u.gen
      BY DEF IInv, TimersMatchTheirArm, Matches
    <3>3. CASE Matches(t) /\ u.out = t.out
      <4>1. b.retry[u.out] = None
        BY <1>1, <1>4, <3>3 DEF IInv, TypeOK
      <4>2. ~u.live
        <5>1. SUFFICES ASSUME u.live
                       PROVE  FALSE
          BY <3>1 DEF Timer
        <5>2. u.gen = t.gen /\ t.live
          BY <1>5, <3>2, <3>3, <5>1 DEF Matches
        <5>3. u = t
          BY <1>3, <3>1, <3>3, <5>1, <5>2 DEF Timer
        <5> QED
          BY <5>3
      <4> QED
        BY <3>1, <4>1, <4>2
    <3>4. CASE ~(Matches(t) /\ u.out = t.out)
      <4>1. b.retry[u.out] = retry[u.out]
        BY <1>1, <1>4, <3>1, <3>4 DEF IInv, TypeOK
      <4> QED
        BY <3>2, <4>1
    <3> QED
      BY <3>3, <3>4
  <2>2. ASSUME NEW o \in Output, b.retry[o] # None
        PROVE  \E u \in timers \ {t} : u.out = o /\ u.live
    <3>1. retry[o] # None /\ ~(Matches(t) /\ t.out = o) /\ b.retry[o] = retry[o]
      BY <1>1, <1>4, <2>2 DEF IInv, TypeOK
    <3>2. PICK u \in timers : u.out = o /\ u.live
      BY <3>1 DEF IInv, TimersMatchTheirArm
    <3>3. u # t
      BY <3>1, <3>2 DEF IInv, TimersMatchTheirArm
    <3> QED
      BY <3>2, <3>3
  <2> QED
    BY <1>1, <2>1, <2>2 DEF FieldTimers
<1>9. Drawable(b, Due(t)) /\ Due(t) \cap poweredOff' = {}
  BY <1>1, <1>2, <1>5 DEF Drawable, Due
<1>10. requests' \subseteq connected /\ ping' \in BOOLEAN
  BY <1>2 DEF IInv, TypeOK
<1> QED
  BY <1>1, <1>2, <1>6, <1>7, <1>8, <1>9, <1>10, RenderIfAbleKeeps

LEMMA ActivateSessionKeeps ==
  ASSUME IInv, ActivateSession
  PROVE  IInv'
<1> DEFINE b == [Now EXCEPT !.pending = {}, !.dirty = connected, !.active = TRUE]
<1>1. /\ b.dirty = connected /\ b.pending = {} /\ b.retry = retry /\ b.timers = timers
      /\ b.flips = flips /\ b.active = TRUE
  BY DEF Now
<1>2. /\ ~active /\ active' = TRUE
      /\ UNCHANGED <<connected, requests, ping, lockSurfaces, running>>
  BY DEF ActivateSession
<1>3. CASE poweredOff' = {} /\ Render(b, connected, FALSE)
  <2> HIDE DEF b
  <2>1. FieldTypes(b)
    BY <1>1 DEF IInv, TypeOK, FieldTypes
  <2>2. FieldsWait(b)
    BY <1>1, <1>2 DEF IInv, FieldsWait, FlipBound, UnpluggedIsBlank
  <2>3. FieldTimers(b)
    BY <1>1 DEF IInv, FieldTimers, TimersMatchTheirArm, Matches
  <2>4. Drawable(b, connected)
    BY <1>1 DEF Drawable
  <2>5. requests' \subseteq connected /\ ping' \in BOOLEAN
    BY <1>2 DEF IInv, TypeOK
  <2> QED
    BY <1>1, <1>2, <1>3, <2>1, <2>2, <2>3, <2>4, <2>5, RenderKeeps
<1>4. CASE UNCHANGED <<chain, locking, poweredOff>>
  BY <1>2, <1>4 DEF IInv, TypeOK, Timer, Picture, WaitsOnce, FlipBound, UnpluggedIsBlank,
     TimersMatchTheirArm, Matches, DarkStaysDark, CountedOutputsHide, LockedHidesDesktop,
     chain, locking
<1> QED
  BY <1>3, <1>4 DEF ActivateSession

-----------------------------------------------------------------------------
(* The handlers that do not render *)

\* Of the flip events of S at most one is left.
LEMMA LostBounds ==
  ASSUME NEW S \in SUBSET Output, NEW f \in Lost(S)
  PROVE  /\ f \in [Output -> 0 .. MaxFlips]
         /\ \A o \in S : f[o] <= 1
         /\ \A o \in Output \ S : f[o] = flips[o]
BY DEF Lost, MaxFlips

LEMMA PauseSessionKeeps ==
  ASSUME IInv, PauseSession
  PROVE  IInv'
<1>1. flips' \in [Output -> 0 .. MaxFlips] /\ \A o \in Output : flips'[o] <= 1
  BY LostBounds DEF PauseSession
<1>2. UNCHANGED <<connected, dirty, pending, retry, timers, shown, behind, poweredOff,
                  requests, ping, locking, lockSurfaces, running>> /\ active' = FALSE
  BY DEF PauseSession
<1> QED
  BY <1>1, <1>2 DEF IInv, TypeOK, WaitsOnce, FlipBound, UnpluggedIsBlank,
     TimersMatchTheirArm, Matches, DarkStaysDark, CountedOutputsHide, LockedHidesDesktop, locking

\* What only asks for frames and leaves chain, power and VT alone.
LEMMA RequestKeeps ==
  ASSUME IInv, NEW S \in SUBSET connected, Request(S),
         UNCHANGED <<connected, dirty, pending, retry, timers, flips, poweredOff, active>>,
         (DrawnTypes /\ lockSurfaces \subseteq connected)', DarkStaysDark', Hiding',
         running' \in BOOLEAN
  PROVE  IInv'
<1>1. requests' \subseteq connected /\ ping' \in BOOLEAN
  BY DEF Request, IInv, TypeOK
<1> QED
  BY <1>1 DEF IInv, TypeOK, DrawnTypes, Hiding, WaitsOnce, FlipBound, UnpluggedIsBlank,
     TimersMatchTheirArm, Matches

LEMMA DamageKeeps ==
  ASSUME IInv, Damage
  PROVE  IInv'
<1>1. PICK S \in SUBSET connected : Request(S)
  BY DEF Damage
<1>2. UNCHANGED <<connected, dirty, pending, retry, timers, flips, shown, poweredOff, active,
                  locking, lockSurfaces, running>>
  BY DEF Damage
<1>3. (DrawnTypes /\ lockSurfaces \subseteq connected)'
  BY <1>1, <1>2 DEF IInv, TypeOK, DrawnTypes, Request, Timer, Picture, locking
<1>4. DarkStaysDark' /\ Hiding'
  BY <1>2 DEF IInv, DarkStaysDark, Hiding, CountedOutputsHide, LockedHidesDesktop,
     UnpluggedIsBlank, locking
<1> QED
  BY <1>1, <1>2, <1>3, <1>4, RequestKeeps DEF IInv, TypeOK

LEMMA LockSessionKeeps ==
  ASSUME IInv, LockSession
  PROVE  IInv'
<1>1. /\ lock = "Unlocked" /\ lockedOutputs' = {} /\ Request(connected)
      /\ lock' = IF connected = {} THEN "Locked" ELSE "Locking"
      /\ UNCHANGED <<connected, dirty, pending, retry, timers, flips, shown, poweredOff, active,
                     lockSurfaces, running>>
  BY DEF LockSession
<1>2. (DrawnTypes /\ lockSurfaces \subseteq connected)'
  BY <1>1 DEF IInv, TypeOK, DrawnTypes, Request, Timer, Picture
<1>3. DarkStaysDark' /\ Hiding'
  BY <1>1 DEF IInv, DarkStaysDark, Hiding, CountedOutputsHide, LockedHidesDesktop,
     UnpluggedIsBlank
<1> QED
  BY <1>1, <1>2, <1>3, RequestKeeps DEF IInv, TypeOK

LEMMA RegisterLockSurfaceKeeps ==
  ASSUME IInv, NEW o \in Output, RegisterLockSurface(o)
  PROVE  IInv'
<1>1. /\ o \in connected /\ lockSurfaces' = lockSurfaces \cup {o} /\ Request(connected)
      /\ UNCHANGED <<connected, dirty, pending, retry, timers, flips, shown, poweredOff, active,
                     locking, running>>
  BY DEF RegisterLockSurface
<1>2. (DrawnTypes /\ lockSurfaces \subseteq connected)'
  BY <1>1 DEF IInv, TypeOK, DrawnTypes, Request, Timer, Picture, locking
<1>3. DarkStaysDark' /\ Hiding'
  BY <1>1 DEF IInv, DarkStaysDark, Hiding, CountedOutputsHide, LockedHidesDesktop,
     UnpluggedIsBlank, locking
<1> QED
  BY <1>1, <1>2, <1>3, RequestKeeps DEF IInv, TypeOK

LEMMA UnlockSessionKeeps ==
  ASSUME IInv, UnlockSession
  PROVE  IInv'
<1>1. /\ lock' = "Unlocked" /\ lockSurfaces' = {} /\ lockedOutputs' = {} /\ Request(connected)
      /\ shown' = [o \in Output |-> IF shown[o] = "locker" THEN "former locker" ELSE shown[o]]
      /\ UNCHANGED <<connected, dirty, pending, retry, timers, flips, poweredOff, active, running>>
  BY DEF UnlockSession
<1>2. (DrawnTypes /\ lockSurfaces \subseteq connected)'
  BY <1>1 DEF IInv, TypeOK, DrawnTypes, Request, Timer, Picture
<1>3. DarkStaysDark' /\ Hiding'
  BY <1>1 DEF IInv, TypeOK, DarkStaysDark, Hiding, CountedOutputsHide, LockedHidesDesktop,
     UnpluggedIsBlank
<1> QED
  BY <1>1, <1>2, <1>3, RequestKeeps DEF IInv, TypeOK

LEMMA LockClientDiesKeeps ==
  ASSUME IInv, LockClientDies
  PROVE  IInv'
BY DEF LockClientDies, chain, locking, IInv, TypeOK, WaitsOnce, FlipBound, UnpluggedIsBlank,
   TimersMatchTheirArm, Matches, DarkStaysDark, CountedOutputsHide, LockedHidesDesktop

LEMMA PowerOnKeeps ==
  ASSUME IInv, NEW o \in Output, PowerOn(o)
  PROVE  IInv'
<1>1. /\ poweredOff' = poweredOff \ {o} /\ dirty' = dirty \cup {o} /\ o \in connected
      /\ UNCHANGED <<connected, pending, retry, timers, flips, shown, behind, requests, ping,
                     active, locking, lockSurfaces, running>>
  BY DEF PowerOn
<1> QED
  BY <1>1 DEF IInv, TypeOK, WaitsOnce, FlipBound, UnpluggedIsBlank, locking,
     TimersMatchTheirArm, Matches, DarkStaysDark, CountedOutputsHide, LockedHidesDesktop

LEMMA PowerOffKeeps ==
  ASSUME IInv, NEW o \in Output, PowerOff(o)
  PROVE  IInv'
<1>1. /\ o \in connected /\ poweredOff' = poweredOff \cup {o} /\ pending' = pending \ {o}
      /\ shown' = [shown EXCEPT ![o] = "off"]
      /\ UNCHANGED <<connected, dirty, retry, timers, behind, requests, ping, active, locking,
                     lockSurfaces, running>>
  BY DEF PowerOff
<1>2. /\ flips' \in [Output -> 0 .. MaxFlips] /\ flips'[o] <= 1
      /\ \A p \in Output \ {o} : flips'[p] = flips[p]
  BY LostBounds DEF PowerOff
<1>3. TypeOK'
  BY <1>1, <1>2 DEF IInv, TypeOK, Picture, locking
<1>4. WaitsOnce' /\ FlipBound' /\ UnpluggedIsBlank'
  BY <1>1, <1>2 DEF IInv, TypeOK, WaitsOnce, FlipBound, UnpluggedIsBlank
<1>5. TimersMatchTheirArm'
  BY <1>1 DEF IInv, TimersMatchTheirArm, Matches
<1>6. DarkStaysDark' /\ CountedOutputsHide' /\ LockedHidesDesktop'
  BY <1>1 DEF IInv, TypeOK, DarkStaysDark, CountedOutputsHide, LockedHidesDesktop, locking
<1> QED
  BY <1>3, <1>4, <1>5, <1>6 DEF IInv

LEMMA ConnectKeeps ==
  ASSUME IInv, NEW o \in Output, Connect(o)
  PROVE  IInv'
<1>1. /\ o \notin connected /\ connected' = connected \cup {o} /\ dirty' = dirty \cup {o}
      /\ requests' = requests \cup connected' /\ behind' = behind \cup connected' /\ ping' = TRUE
      /\ UNCHANGED <<pending, retry, timers, flips, shown, poweredOff, active, locking,
                     lockSurfaces, running>>
  BY DEF Connect, Request
<1>2. TypeOK'
  BY <1>1 DEF IInv, TypeOK, Timer, Picture, locking
<1>3. WaitsOnce' /\ FlipBound' /\ UnpluggedIsBlank' /\ TimersMatchTheirArm' /\ DarkStaysDark'
  BY <1>1 DEF IInv, TypeOK, WaitsOnce, FlipBound, UnpluggedIsBlank, TimersMatchTheirArm,
     Matches, DarkStaysDark
<1>4. CountedOutputsHide' /\ LockedHidesDesktop'
  BY <1>1 DEF IInv, UnpluggedIsBlank, CountedOutputsHide, LockedHidesDesktop, locking
<1> QED
  BY <1>2, <1>3, <1>4 DEF IInv

LEMMA DisconnectKeeps ==
  ASSUME IInv, NEW o \in Output, Disconnect(o)
  PROVE  IInv'
<1>1. /\ connected' = connected \ {o} /\ dirty' = dirty \ {o} /\ pending' = pending \ {o}
      /\ poweredOff' = poweredOff \ {o} /\ retry' = [retry EXCEPT ![o] = None]
      /\ timers' = Cancelled(timers, {o}) /\ shown' = [shown EXCEPT ![o] = "none"]
      /\ lockSurfaces' = lockSurfaces \ {o} /\ lockedOutputs' = lockedOutputs \ {o}
      /\ lock' = Confirmed(connected', lockedOutputs')
      /\ requests' = connected' /\ behind' = connected' /\ ping' = TRUE
      /\ UNCHANGED <<active, running>>
  BY DEF Disconnect
<1>2. /\ flips' \in [Output -> 0 .. MaxFlips] /\ flips'[o] <= 1
      /\ \A p \in Output \ {o} : flips'[p] = flips[p]
  BY LostBounds DEF Disconnect
<1>3. timers \in SUBSET Timer /\ retry \in [Output -> Generation \cup {None}]
  BY DEF IInv, TypeOK
<1>4. TypeOK'
  <2>1. timers' \subseteq Timer
    BY <1>1, <1>3, CancelledTypes
  <2> QED
    BY <1>1, <1>2, <2>1 DEF IInv, TypeOK, Picture, Confirmed
<1>5. WaitsOnce' /\ FlipBound' /\ UnpluggedIsBlank'
  BY <1>1, <1>2 DEF IInv, TypeOK, WaitsOnce, FlipBound, UnpluggedIsBlank
<1>6. TimersMatchTheirArm'
  <2>1. ASSUME NEW t \in timers'
        PROVE  t.live <=> retry'[t.out] = t.gen
    <3>1. PICK u \in timers : /\ t.out = u.out /\ t.gen = u.gen
                              /\ t.live = (u.live /\ u.out \notin {o})
      BY <1>1, <1>3, CancelledMatch
    <3>2. u.out \in Output /\ u.gen # None
      BY <1>3, NoneAssumption DEF Timer
    <3>3. u.live <=> retry[u.out] = u.gen
      BY DEF IInv, TimersMatchTheirArm, Matches
    <3>4. CASE u.out = o
      BY <1>1, <1>3, <3>1, <3>2, <3>4
    <3>5. CASE u.out # o
      BY <1>1, <1>3, <3>1, <3>2, <3>3, <3>5
    <3> QED
      BY <3>4, <3>5
  <2>2. ASSUME NEW p \in Output, retry'[p] # None
        PROVE  \E t \in timers' : t.out = p /\ t.live
    <3>1. p # o /\ retry[p] # None
      BY <1>1, <1>3, <2>2
    <3>2. PICK u \in timers : u.out = p /\ u.live
      BY <3>1 DEF IInv, TimersMatchTheirArm
    <3> QED
      BY <1>1, <1>3, <3>1, <3>2, CancelledKeeps
  <2> QED
    BY <2>1, <2>2 DEF TimersMatchTheirArm, Matches
<1>7. DarkStaysDark'
  BY <1>1 DEF IInv, TypeOK, DarkStaysDark
<1>8. CountedOutputsHide' /\ LockedHidesDesktop'
  BY <1>1 DEF IInv, TypeOK, Confirmed, CountedOutputsHide, LockedHidesDesktop
<1> QED
  BY <1>4, <1>5, <1>6, <1>7, <1>8 DEF IInv

-----------------------------------------------------------------------------
LEMMA InitInv ==
  ASSUME Init
  PROVE  IInv
<1>1. TypeOK
  <2>1. flips \in [Output -> 0 .. MaxFlips]
    BY DEF Init, MaxFlips
  <2>2. shown \in [Output -> Picture]
    BY DEF Init, Picture
  <2>3. /\ connected \subseteq Output /\ dirty \subseteq connected /\ pending \subseteq connected
        /\ poweredOff \subseteq connected /\ behind \subseteq connected
        /\ requests \subseteq connected /\ lockedOutputs \subseteq connected
        /\ lockSurfaces \subseteq connected /\ timers \subseteq Timer
    BY DEF Init
  <2>4. /\ retry \in [Output -> Generation \cup {None}]
        /\ ping \in BOOLEAN /\ active \in BOOLEAN /\ running \in BOOLEAN
        /\ lock \in {"Unlocked", "Locking", "Locked"}
    BY DEF Init
  <2> QED
    BY <2>1, <2>2, <2>3, <2>4 DEF TypeOK
<1>2. WaitsOnce /\ FlipBound /\ UnpluggedIsBlank
  BY DEF Init, WaitsOnce, FlipBound, UnpluggedIsBlank
<1>3. TimersMatchTheirArm /\ DarkStaysDark /\ CountedOutputsHide /\ LockedHidesDesktop
  BY DEF Init, TimersMatchTheirArm, DarkStaysDark, CountedOutputsHide, LockedHidesDesktop
<1> QED
  BY <1>1, <1>2, <1>3 DEF IInv

LEMMA NextInv ==
  ASSUME IInv, [Next]_vars
  PROVE  IInv'
<1>1. CASE Redraw
  BY <1>1, RedrawKeeps
<1>2. ASSUME NEW o \in Output, VBlank(o)
      PROVE  IInv'
  BY <1>2, VBlankKeeps
<1>3. ASSUME NEW t \in timers, TimerFires(t)
      PROVE  IInv'
  BY <1>3, TimerFiresKeeps
<1>4. CASE PauseSession
  BY <1>4, PauseSessionKeeps
<1>5. CASE ActivateSession
  BY <1>5, ActivateSessionKeeps
<1>6. CASE Damage
  BY <1>6, DamageKeeps
<1>7. ASSUME NEW o \in Output, PowerOn(o) \/ PowerOff(o) \/ Connect(o) \/ Disconnect(o)
      PROVE  IInv'
  BY <1>7, PowerOnKeeps, PowerOffKeeps, ConnectKeeps, DisconnectKeeps
<1>8. CASE LockSession
  BY <1>8, LockSessionKeeps
<1>9. ASSUME NEW o \in Output, RegisterLockSurface(o)
      PROVE  IInv'
  BY <1>9, RegisterLockSurfaceKeeps
<1>10. CASE UnlockSession
  BY <1>10, UnlockSessionKeeps
<1>11. CASE LockClientDies
  BY <1>11, LockClientDiesKeeps
<1>12. CASE UNCHANGED vars
  BY <1>12 DEF vars, chain, locking, IInv, TypeOK, WaitsOnce, FlipBound, UnpluggedIsBlank,
     TimersMatchTheirArm, Matches, DarkStaysDark, CountedOutputsHide, LockedHidesDesktop
<1> QED
  BY <1>1, <1>2, <1>3, <1>4, <1>5, <1>6, <1>7, <1>8, <1>9, <1>10, <1>11, <1>12 DEF Next

LEMMA InvHolds == Spec => []IInv
BY InitInv, NextInv, PTL DEF Spec

\* Every reachable state is well typed; in particular no more than one flip
\* event is ever due behind a stale one.
THEOREM TypeCorrect == Spec => []TypeOK
<1>1. IInv => TypeOK
  BY DEF IInv
<1> QED
  BY <1>1, InvHolds, PTL

\* A timer is obeyed exactly while the arm it was set for stands
\* (schedule_empty_frame_retry and its generations).
THEOREM StaleTimersAreInert == Spec => []TimersMatchTheirArm
<1>1. IInv => TimersMatchTheirArm
  BY DEF IInv
<1> QED
  BY <1>1, InvHolds, PTL

\* An output that was switched off shows nothing until it is switched on.
THEOREM OffMeansDark == Spec => []DarkStaysDark
<1>1. IInv => DarkStaysDark
  BY DEF IInv
<1> QED
  BY <1>1, InvHolds, PTL

\* Neither a stale timer nor a late flip event queues a frame, and none is
\* queued on an output that is switched off.
THEOREM OnlyDueFramesAreQueued == Spec => []OnlyDueFrames
<1>1. TimersMatchTheirArm /\ DarkStaysDark => OnlyDueFrames
  BY DEF OnlyDueFrames
<1> QED
  BY <1>1, StaleTimersAreInert, OffMeansDark, PTL

\* After the locker is told "locked" no output shows the desktop.
THEOREM LockHidesEveryOutput == Spec => []LockedHidesDesktop
<1>1. IInv => LockedHidesDesktop
  BY DEF IInv
<1> QED
  BY <1>1, InvHolds, PTL

-----------------------------------------------------------------------------
(* The flip a surface waits for is on its way, as long as calls succeed: a *)
(* resume without a renderer would leave a surface waiting for a flip that *)
(* was lost with the VT.                                                   *)

FlipsComing == active => \A o \in pending : flips[o] > 0

LEMMA RenderFlips ==
  ASSUME IInv, NEW b, NEW R, NEW only, Render(b, R, only), FieldTypes(b), Drawable(b, R),
         active' = b.active, b.active => \A o \in b.pending : b.flips[o] > 0
  PROVE  FlipsComing'
<1>1. PICK queued, empty, moving, refused, gen :
        Drawing(b, R, only, queued, empty, moving, refused, gen)
  BY RenderDraws
<1>2. /\ queued \subseteq Output /\ pending' = b.pending \cup queued
      /\ flips' = [o \in Output |-> b.flips[o] + IF o \in queued THEN 1 ELSE 0]
  BY <1>1 DEF Drawing, Draw, Drawable, IInv, TypeOK
<1>3. ASSUME NEW o \in pending', active'
      PROVE  flips'[o] > 0
  <2>1. o \in Output /\ b.flips[o] \in 0 .. MaxFlips
    BY <1>2 DEF FieldTypes, IInv, TypeOK
  <2>2. CASE o \in queued
    BY <1>2, <2>1, <2>2 DEF MaxFlips
  <2>3. CASE o \notin queued
    <3>1. flips'[o] = b.flips[o] + 0 /\ b.flips[o] > 0
      BY <1>2, <1>3, <2>1, <2>3
    <3> QED
      BY <2>1, <3>1 DEF MaxFlips
  <2> QED
    BY <2>2, <2>3
<1> QED
  BY <1>3 DEF FlipsComing

LEMMA RenderIfAbleFlips ==
  ASSUME IInv, NEW b, NEW R, NEW only, RenderIfAble(b, R, only), FieldTypes(b), Drawable(b, R),
         active' = b.active, b.active => \A o \in b.pending : b.flips[o] > 0
  PROVE  FlipsComing'
<1>1. Drawable(b, {})
  BY DEF Drawable
<1> QED
  BY <1>1, RenderFlips DEF RenderIfAble

LEMMA NextFlips ==
  ASSUME "failure" \notin Environment, IInv, FlipsComing, [Next]_vars
  PROVE  FlipsComing'
<1>1. CASE Redraw
  <2> DEFINE marked == dirty \cup requests
             b == [Now EXCEPT !.dirty = marked]
  <2>1. /\ b.dirty = marked /\ b.pending = pending /\ b.retry = retry /\ b.timers = timers
        /\ b.flips = flips /\ b.active = active
    BY DEF Now
  <2>2. RenderIfAble(b, Ready(marked), FALSE) /\ active' = active
    BY <1>1 DEF Redraw
  <2> HIDE DEF b
  <2>3. FieldTypes(b) /\ Drawable(b, Ready(marked))
    BY <2>1 DEF IInv, TypeOK, FieldTypes, Drawable, Ready
  <2> QED
    BY <2>1, <2>2, <2>3, RenderIfAbleFlips DEF FlipsComing
<1>2. ASSUME NEW o \in Output, VBlank(o)
      PROVE  FlipsComing'
  <2> DEFINE b == [Now EXCEPT !.pending = @ \ {o}, !.flips[o] = @ - 1]
  <2>1. /\ b.dirty = dirty /\ b.pending = pending \ {o} /\ b.retry = retry /\ b.timers = timers
        /\ b.flips = [flips EXCEPT ![o] = @ - 1] /\ b.active = active
    BY DEF Now
  <2>2. RenderIfAble(b, FlipDone(o), FALSE) /\ flips[o] > 0 /\ active' = active
    BY <1>2 DEF VBlank
  <2> HIDE DEF b
  <2>3. flips[o] - 1 \in 0 .. MaxFlips
    BY <2>2 DEF IInv, TypeOK, MaxFlips
  <2>4. FieldTypes(b) /\ Drawable(b, FlipDone(o))
    BY <2>1, <2>3 DEF IInv, TypeOK, FieldTypes, Drawable, FlipDone
  <2>5. b.active => \A p \in b.pending : b.flips[p] > 0
    BY <2>1 DEF FlipsComing, IInv, TypeOK
  <2> QED
    BY <2>1, <2>2, <2>4, <2>5, RenderIfAbleFlips
<1>3. ASSUME NEW t \in timers, TimerFires(t)
      PROVE  FlipsComing'
  <2> DEFINE b == [Now EXCEPT !.timers = @ \ {t},
                     !.retry = IF Matches(t) THEN [@ EXCEPT ![t.out] = None] ELSE @,
                     !.dirty = IF Matches(t) /\ ~active THEN @ \cup {t.out} ELSE @]
  <2>1. /\ b.dirty = IF Matches(t) /\ ~active THEN dirty \cup {t.out} ELSE dirty
        /\ b.pending = pending
        /\ b.retry = IF Matches(t) THEN [retry EXCEPT ![t.out] = None] ELSE retry
        /\ b.timers = timers \ {t} /\ b.flips = flips /\ b.active = active
    BY DEF Now
  <2>2. RenderIfAble(b, Due(t), TRUE) /\ active' = active
    BY <1>3 DEF TimerFires
  <2> HIDE DEF b
  <2>3. t \in Timer
    BY DEF IInv, TypeOK
  <2>4. t.out \in Output /\ t.gen # None
    BY <2>3, NoneAssumption DEF Timer
  <2>5. Matches(t) => t.out \in connected \ pending
    BY <2>4 DEF IInv, Matches, UnpluggedIsBlank, WaitsOnce
  <2>6. FieldTypes(b)
    BY <2>1, <2>4, <2>5 DEF IInv, TypeOK, FieldTypes
  <2>7. Drawable(b, Due(t))
    BY <2>1, <2>5 DEF Drawable, Due
  <2> QED
    BY <2>1, <2>2, <2>6, <2>7, RenderIfAbleFlips DEF FlipsComing
<1>4. CASE PauseSession
  BY <1>4 DEF PauseSession, FlipsComing
<1>5. CASE ActivateSession
  <2> DEFINE b == [Now EXCEPT !.pending = {}, !.dirty = connected, !.active = TRUE]
  <2>1. /\ b.dirty = connected /\ b.pending = {} /\ b.retry = retry /\ b.timers = timers
        /\ b.flips = flips /\ b.active = TRUE
    BY DEF Now
  <2>2. Render(b, connected, FALSE) /\ active' = TRUE
    BY <1>5 DEF ActivateSession
  <2> HIDE DEF b
  <2>3. FieldTypes(b) /\ Drawable(b, connected)
    BY <2>1 DEF IInv, TypeOK, FieldTypes, Drawable
  <2> QED
    BY <2>1, <2>2, <2>3, RenderFlips
<1>6. CASE Damage \/ LockSession \/ UnlockSession \/ LockClientDies
  BY <1>6 DEF Damage, LockSession, UnlockSession, LockClientDies, chain, FlipsComing
<1>7. ASSUME NEW o \in Output, PowerOn(o) \/ Connect(o) \/ RegisterLockSurface(o)
      PROVE  FlipsComing'
  BY <1>7 DEF PowerOn, Connect, RegisterLockSurface, FlipsComing
<1>8. ASSUME NEW o \in Output, PowerOff(o) \/ Disconnect(o)
      PROVE  FlipsComing'
  <2>1. pending' = pending \ {o} /\ active' = active /\ flips' \in Lost({o})
    BY <1>8 DEF PowerOff, Disconnect
  <2>2. \A p \in Output \ {o} : flips'[p] = flips[p]
    BY <2>1, LostBounds
  <2> QED
    BY <2>1, <2>2 DEF FlipsComing, IInv, TypeOK
<1>9. CASE UNCHANGED vars
  BY <1>9 DEF vars, chain, FlipsComing
<1> QED
  BY <1>1, <1>2, <1>3, <1>4, <1>5, <1>6, <1>7, <1>8, <1>9 DEF Next

\* When no call fails, a surface waits for one thing at a time and that
\* thing comes: no output waits for a flip that nobody will report.
THEOREM OneFrame ==
  ASSUME "failure" \notin Environment
  PROVE  Spec => []OneFrameInFlight
<1>1. Init => FlipsComing
  BY DEF Init, FlipsComing
<1>2. IInv /\ FlipsComing /\ [Next]_vars => FlipsComing'
  BY NextFlips
<1>3. IInv /\ FlipsComing => OneFrameInFlight
  BY DEF IInv, WaitsOnce, FlipsComing, OneFrameInFlight
<1> QED
  BY <1>1, <1>2, <1>3, InvHolds, PTL DEF Spec

-----------------------------------------------------------------------------
(* No wake-up is lost.  The surface's own retry field stands for the timer *)
(* it waits for (TimersMatchTheirArm), and a flip it waits for is coming.  *)

Waking(o) ==
  shown[o] = "off" \/ (ping /\ o \in requests \cup dirty) \/ o \in pending \cap dirty \/ retry[o] # None

AllWaking == running /\ active => \A o \in behind \ poweredOff : Waking(o)

LEMMA WakingIsWoken ==
  ASSUME IInv, FlipsComing
  PROVE  AllWaking <=> NoLostWakeup
<1> SUFFICES ASSUME running, active, NEW o \in behind \ poweredOff
             PROVE  Waking(o) <=> shown[o] = "off" \/ Woken(o)
  BY DEF AllWaking, NoLostWakeup
<1>1. o \in Output /\ (o \in pending => flips[o] > 0)
  BY DEF IInv, TypeOK, FlipsComing
<1>2. retry[o] # None <=> \E t \in timers : t.out = o /\ Matches(t)
  <2>1. ASSUME NEW t \in timers, t.out = o, Matches(t)
        PROVE  retry[o] # None
    BY <2>1, NoneAssumption DEF IInv, TypeOK, Timer, Matches
  <2>2. retry[o] # None => \E t \in timers : t.out = o /\ Matches(t)
    BY <1>1 DEF IInv, TimersMatchTheirArm
  <2> QED
    BY <2>1, <2>2
<1> QED
  BY <1>1, <1>2 DEF Waking, Woken

\* A render wakes the loop again for every picture that goes on moving.
LEMMA RenderWakes ==
  ASSUME "failure" \notin Environment, "refuse" \notin Environment,
         IInv, NEW b, NEW R, NEW only, Render(b, R, only), FieldTypes(b), Drawable(b, R),
         b.active,
         \A o \in behind \ (R \cup poweredOff') :
           \/ shown[o] = "off" \/ (ping' /\ o \in requests' \cup b.dirty)
           \/ o \in b.pending \cap b.dirty \/ b.retry[o] # None
  PROVE  AllWaking'
<1>1. PICK queued, empty, moving, refused, gen :
        Drawing(b, R, only, queued, empty, moving, refused, gen)
  BY RenderDraws
<1>2. /\ queued \subseteq R /\ empty \subseteq R \ queued /\ moving \subseteq R
      /\ R \subseteq Output
      /\ refused = {} /\ R \ (queued \cup empty) = {}
      /\ gen \in [Arming(b, empty, moving, only) -> Fresh(b)]
  BY <1>1 DEF Drawing, Possible, Drawable, IInv, TypeOK
<1>3. /\ dirty' = (b.dirty \ R) \cup moving
      /\ pending' = b.pending \cup queued
      /\ retry' = [o \in Output |->
            IF o \in queued THEN None ELSE IF o \in DOMAIN gen THEN gen[o] ELSE b.retry[o]]
      /\ shown' = [o \in Output |-> IF o \in queued THEN Scene(o) ELSE shown[o]]
      /\ behind' = (behind \ R) \cup moving
  BY <1>1, <1>2 DEF Drawing, Draw
<1>4. ASSUME NEW o \in behind' \ poweredOff'
      PROVE  Waking(o)'
  <2>1. CASE o \in moving /\ o \in queued
    BY <1>3, <2>1 DEF Waking
  <2>2. CASE o \in moving /\ o \in empty
    <3>1. o \in Output /\ o \notin queued
      BY <1>2, <2>2
    <3>2. CASE b.retry[o] = None
      <4>1. o \in DOMAIN gen /\ gen[o] # None
        BY <1>2, <2>2, <3>2, NoneAssumption DEF Arming, Fresh
      <4> QED
        BY <1>3, <3>1, <4>1 DEF Waking
    <3>3. CASE b.retry[o] # None
      <4>1. o \notin DOMAIN gen
        BY <1>2, <3>3 DEF Arming
      <4> QED
        BY <1>3, <3>1, <3>3, <4>1 DEF Waking
    <3> QED
      BY <3>2, <3>3
  <2>3. CASE o \notin moving
    <3>1. o \in behind \ (R \cup poweredOff') /\ o \in Output /\ o \notin queued /\ o \notin DOMAIN gen
      BY <1>2, <1>3, <2>3 DEF Arming, IInv, TypeOK
    <3>2. /\ shown'[o] = shown[o] /\ retry'[o] = b.retry[o]
          /\ o \in b.dirty => o \in dirty'
      BY <1>3, <3>1
    <3> QED
      BY <1>3, <3>1, <3>2 DEF Waking
  <2> QED
    BY <1>2, <1>3, <2>1, <2>2, <2>3
<1> QED
  BY <1>4 DEF AllWaking

LEMMA RenderIfAbleRenders ==
  ASSUME "failure" \notin Environment, NEW b, NEW R, NEW only, RenderIfAble(b, R, only)
  PROVE  Render(b, R, only)
  BY DEF RenderIfAble

LEMMA NextWakes ==
  ASSUME "failure" \notin Environment, "refuse" \notin Environment,
         IInv, AllWaking, [Next]_vars
  PROVE  AllWaking'
<1> SUFFICES ASSUME running', active'
             PROVE  AllWaking'
  BY DEF AllWaking
<1>1. CASE Redraw
  <2> DEFINE marked == dirty \cup requests
             b == [Now EXCEPT !.dirty = marked]
  <2>1. /\ b.dirty = marked /\ b.pending = pending /\ b.retry = retry /\ b.timers = timers
        /\ b.flips = flips /\ b.active = active
    BY DEF Now
  <2>2. RenderIfAble(b, Ready(marked), FALSE) /\ UNCHANGED <<active, running, poweredOff>>
    BY <1>1 DEF Redraw
  <2> HIDE DEF b
  <2>3. FieldTypes(b) /\ Drawable(b, Ready(marked))
    BY <2>1 DEF IInv, TypeOK, FieldTypes, Drawable, Ready
  <2>4. ASSUME NEW o \in behind \ (Ready(marked) \cup poweredOff')
        PROVE  \/ shown[o] = "off" \/ o \in b.pending \cap b.dirty \/ b.retry[o] # None
    BY <2>1, <2>2 DEF AllWaking, Waking, Ready
  <2> QED
    BY <2>1, <2>2, <2>3, <2>4, RenderIfAbleRenders, RenderWakes
<1>2. ASSUME NEW o \in Output, VBlank(o)
      PROVE  AllWaking'
  <2> DEFINE b == [Now EXCEPT !.pending = @ \ {o}, !.flips[o] = @ - 1]
  <2>1. /\ b.dirty = dirty /\ b.pending = pending \ {o} /\ b.retry = retry /\ b.timers = timers
        /\ b.flips = [flips EXCEPT ![o] = @ - 1] /\ b.active = active
    BY DEF Now
  <2>2. /\ RenderIfAble(b, FlipDone(o), FALSE) /\ flips[o] > 0
        /\ UNCHANGED <<active, running, poweredOff, requests, ping>>
    BY <1>2 DEF VBlank
  <2> HIDE DEF b
  <2>3. flips[o] - 1 \in 0 .. MaxFlips
    BY <2>2 DEF IInv, TypeOK, MaxFlips
  <2>4. FieldTypes(b) /\ Drawable(b, FlipDone(o))
    BY <2>1, <2>3 DEF IInv, TypeOK, FieldTypes, Drawable, FlipDone
  <2>5. ASSUME NEW p \in behind \ (FlipDone(o) \cup poweredOff')
        PROVE  \/ shown[p] = "off" \/ (ping' /\ p \in requests' \cup b.dirty)
               \/ p \in b.pending \cap b.dirty \/ b.retry[p] # None
    BY <2>1, <2>2 DEF AllWaking, Waking, FlipDone
  <2> QED
    BY <2>1, <2>2, <2>4, <2>5, RenderIfAbleRenders, RenderWakes
<1>3. ASSUME NEW t \in timers, TimerFires(t)
      PROVE  AllWaking'
  <2> DEFINE b == [Now EXCEPT !.timers = @ \ {t},
                     !.retry = IF Matches(t) THEN [@ EXCEPT ![t.out] = None] ELSE @,
                     !.dirty = IF Matches(t) /\ ~active THEN @ \cup {t.out} ELSE @]
  <2>1. /\ b.dirty = IF Matches(t) /\ ~active THEN dirty \cup {t.out} ELSE dirty
        /\ b.pending = pending
        /\ b.retry = IF Matches(t) THEN [retry EXCEPT ![t.out] = None] ELSE retry
        /\ b.timers = timers \ {t} /\ b.flips = flips /\ b.active = active
    BY DEF Now
  <2>2. /\ RenderIfAble(b, Due(t), TRUE)
        /\ UNCHANGED <<active, running, poweredOff, requests, ping>>
    BY <1>3 DEF TimerFires
  <2> HIDE DEF b
  <2>3. t \in Timer
    BY DEF IInv, TypeOK
  <2>4. t.out \in Output /\ t.gen # None
    BY <2>3, NoneAssumption DEF Timer
  <2>5. Matches(t) => t.out \in connected \ pending
    BY <2>4 DEF IInv, Matches, UnpluggedIsBlank, WaitsOnce
  <2>6. FieldTypes(b)
    BY <2>1, <2>4, <2>5 DEF IInv, TypeOK, FieldTypes
  <2>7. Drawable(b, Due(t))
    BY <2>1, <2>5 DEF Drawable, Due
  <2>8. ASSUME NEW o \in behind \ (Due(t) \cup poweredOff')
        PROVE  \/ shown[o] = "off" \/ (ping' /\ o \in requests' \cup b.dirty)
               \/ o \in b.pending \cap b.dirty \/ b.retry[o] # None
    <3>1. Waking(o) /\ b.dirty = dirty
      BY <2>1, <2>2 DEF AllWaking
    <3>2. retry[o] # None => b.retry[o] # None
      BY <2>1, <2>2 DEF Due, IInv, TypeOK
    <3> QED
      BY <2>1, <2>2, <3>1, <3>2 DEF Waking
  <2> QED
    BY <2>1, <2>2, <2>6, <2>7, <2>8, RenderIfAbleRenders, RenderWakes
<1>4. CASE PauseSession
  BY <1>4 DEF PauseSession
<1>5. CASE ActivateSession
  <2> DEFINE b == [Now EXCEPT !.pending = {}, !.dirty = connected, !.active = TRUE]
  <2>1. /\ b.dirty = connected /\ b.pending = {} /\ b.retry = retry /\ b.timers = timers
        /\ b.flips = flips /\ b.active = TRUE
    BY DEF Now
  <2>2. Render(b, connected, FALSE)
    BY <1>5 DEF ActivateSession
  <2> HIDE DEF b
  <2>3. FieldTypes(b) /\ Drawable(b, connected)
    BY <2>1 DEF IInv, TypeOK, FieldTypes, Drawable
  <2>4. behind \subseteq connected
    BY DEF IInv, TypeOK
  <2> QED
    BY <2>1, <2>2, <2>3, <2>4, RenderWakes
<1>6. CASE Damage
  BY <1>6 DEF Damage, Request, AllWaking, Waking
<1>7. CASE LockSession
  BY <1>7 DEF LockSession, Request, AllWaking, Waking
<1>8. CASE UnlockSession
  <2>1. /\ ping' /\ requests' = requests \cup connected /\ behind' = behind \cup connected
    BY <1>8 DEF UnlockSession, Request
  <2> QED
    BY <2>1 DEF AllWaking, Waking, IInv, TypeOK
<1>9. CASE LockClientDies
  BY <1>9 DEF LockClientDies
<1>10. ASSUME NEW o \in Output, PowerOn(o)
       PROVE  AllWaking'
  <2>1. /\ UNCHANGED <<active, running, pending, retry, shown, behind, requests, ping>>
        /\ poweredOff' = poweredOff \ {o} /\ dirty' = dirty \cup {o}
    BY <1>10 DEF PowerOn
  <2>2. o \in poweredOff => shown[o] = "off"
    BY DEF IInv, DarkStaysDark
  <2> QED
    BY <2>1, <2>2 DEF AllWaking, Waking
<1>11. ASSUME NEW o \in Output, PowerOff(o)
       PROVE  AllWaking'
  <2>1. /\ UNCHANGED <<active, running, dirty, retry, behind, requests, ping>>
        /\ poweredOff' = poweredOff \cup {o} /\ pending' = pending \ {o}
        /\ \A p \in Output \ {o} : shown'[p] = shown[p]
    BY <1>11 DEF PowerOff, IInv, TypeOK
  <2>2. behind \subseteq Output
    BY DEF IInv, TypeOK
  <2> QED
    BY <2>1, <2>2 DEF AllWaking, Waking
<1>12. ASSUME NEW o \in Output, Connect(o)
       PROVE  AllWaking'
  <2>1. /\ behind' = behind \cup connected' /\ requests' = requests \cup connected' /\ ping'
        /\ behind \subseteq connected'
    BY <1>12 DEF Connect, Request, IInv, TypeOK
  <2> QED
    BY <2>1 DEF AllWaking, Waking
<1>13. ASSUME NEW o \in Output, Disconnect(o)
       PROVE  AllWaking'
  BY <1>13 DEF Disconnect, AllWaking, Waking
<1>14. ASSUME NEW o \in Output, RegisterLockSurface(o)
       PROVE  AllWaking'
  BY <1>14 DEF RegisterLockSurface, Request, AllWaking, Waking
<1>15. CASE UNCHANGED vars
  BY <1>15 DEF vars, chain, AllWaking, Waking
<1> QED
  BY <1>1, <1>2, <1>3, <1>4, <1>5, <1>6, <1>7, <1>8, <1>9, <1>10, <1>11, <1>12, <1>13, <1>14,
     <1>15 DEF Next

\* When calls succeed and timers can be armed (render_requested_surfaces, the VBlank
\* handler and schedule_empty_frame_retry), an output whose picture changed always
\* has its next frame under way: a wake-up, a flip it is dirty behind, or a timer.
THEOREM NoWakeupIsLost ==
  ASSUME "failure" \notin Environment, "refuse" \notin Environment
  PROVE  Spec => []NoLostWakeup
<1>1. Init => FlipsComing /\ AllWaking
  BY DEF Init, FlipsComing, AllWaking
<1>2. IInv /\ FlipsComing /\ [Next]_vars => FlipsComing'
  BY NextFlips
<1>3. IInv /\ AllWaking /\ [Next]_vars => AllWaking'
  BY NextWakes
<1>4. IInv /\ FlipsComing /\ AllWaking => NoLostWakeup
  BY WakingIsWoken
<1> QED
  BY <1>1, <1>2, <1>3, <1>4, InvHolds, PTL DEF Spec
=============================================================================
