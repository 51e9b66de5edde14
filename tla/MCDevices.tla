------------------------------ MODULE MCDevices ------------------------------
(***************************************************************************)
(* What devices do to the compositor, checked side by side: displays in a  *)
(* world where every call may fail, displays in a calm world, the keyboard *)
(* and the pointer.  `part` picks what moves in a behaviour; the others    *)
(* stay as they began.                                                     *)
(***************************************************************************)
EXTENDS MCFrames, Keys, Pointer

CONSTANTS Left1, Right1
VARIABLE part

Calm == INSTANCE Frames WITH Environment <- Still

TwoButtons == {Left1, Right1}

\* The keyboard's worlds: a screen reader with what may come between a press and
\* its release, and all of that together without one.
KeyWorlds ==
  {{"reader", "screens"}, {"reader", "host"}, {"reader", "watches"}, {"reader", "tables"},
   {"tables", "screens", "host"}}

devicesVars == <<vars, kyVars, ptVars, part>>
handsVars == <<kyVars, ptVars>>

InFaults == part = "faults" /\ UNCHANGED <<handsVars, part>>
InCalm == part = "calm" /\ UNCHANGED <<handsVars, part>>
InKeys == part = "keys" /\ UNCHANGED <<vars, ptVars, part>>
InPointer == part = "pointer" /\ UNCHANGED <<vars, kyVars, part>>

DevicesInit ==
  /\ part \in {"faults", "calm", "keys", "pointer"}
  /\ Init /\ KyInit /\ PtInit
  /\ part # "faults" => Calm!Init
  /\ part # "keys" => allowed = {"reader", "screens"}

DevicesNext ==
  \/ InFaults /\ Next
  \/ InCalm /\ Calm!Next
  \/ InKeys /\ KyNext
  \/ InPointer /\ PtNext

\* The event loop's sources, and a locker that draws its surfaces.
DevicesSpec ==
  /\ DevicesInit /\ [][DevicesNext]_devicesVars
  /\ WF_devicesVars(InCalm /\ Calm!Redraw)
  /\ \A o \in Output : /\ WF_devicesVars(InCalm /\ Calm!VBlank(o))
                       /\ WF_devicesVars(InCalm /\ Calm!RegisterLockSurface(o))
  /\ \A t \in Timer : WF_devicesVars(InCalm /\ Calm!TimerFires(t))

\* In the calm world every change of a lit output's picture reaches a frame
\* (FlipDone and the retry timers take up what a flip in flight left over).
CalmDamageIsDrawn == part = "calm" => DamageIsDrawn

\* In the calm world a lock request is confirmed (try_confirm_lock), once the
\* monitors stay on and plugged in.
CalmLockIsConfirmed == part = "calm" => LockIsConfirmed
=============================================================================
