-------------------------------- MODULE Keys --------------------------------
(***************************************************************************)
(* The keyboard: one physical key event at a time goes through the screen  *)
(* reader's keyboard monitor, the seat's XKB state and the compositor's    *)
(* filter, which either forwards it to the focused client or keeps it.     *)
(* What one press decided must still hold at its release, although lock,   *)
(* reload, keyboard grabs and a nested session's host intervene.           *)
(*                                                                         *)
(* Four keys stand for all: a modifier, the minimap's trigger (used with   *)
(* the modifier), a helper of an arbitrary chord, and a letter that is     *)
(* bound with the modifier or the helper, and alone in a mode.             *)
(***************************************************************************)
LOCAL INSTANCE Naturals
LOCAL INSTANCE FiniteSets

CONSTANTS KeysHeld,   \* at most so many keys are down at once
          Sessions    \* what may happen in a session: sets of the names below

Happenings == {"reader", "watches", "screens", "tables", "host"}
ASSUME KeysAssumption == KeysHeld \in Nat /\ Sessions \subseteq SUBSET Happenings

VARIABLES allowed,     \* what may happen in this session
          keyDown,     \* the keys that are physically down
          seatDown,    \* the keys XKB takes for down
          told,        \* the keys clients were told are down
          helpers,     \* helper_keys_down
          triggerDown, peek,          \* minimap_trigger_down, and the peek
          mode, rescue,               \* active_mode is set; rescue_keybinds_active
          screen,      \* "locked", "free", or what captures a free keyboard
          reader,      \* the screen reader's subscription
          suppressed,  \* keys grabbed on press
          recipients,  \* keys whose press was seen, and whether the reader got it
          tapped,      \* grabbed modifiers pressed before
          astray       \* keys whose release went missing (a history variable)

kyKeyboard == <<seatDown, told, helpers, triggerDown, peek, mode, rescue, screen>>
kyMonitor == <<reader, suppressed, recipients, tapped>>
kyVars == <<allowed, keyDown, kyKeyboard, kyMonitor, astray>>

KeysUsed == {"super", "trigger", "letter"} \cup IF "tables" \in allowed THEN {"helper"} ELSE {}
NoReader == [all |-> FALSE, watched |-> FALSE, mods |-> {}, strokes |-> {}]

KyInit ==
  /\ allowed \in Sessions
  /\ keyDown = {} /\ seatDown = {} /\ told = {} /\ helpers = {}
  /\ triggerDown = FALSE /\ peek = FALSE /\ mode = FALSE /\ rescue = FALSE
  /\ screen = "free"
  /\ reader = NoReader
  /\ suppressed = {} /\ recipients = <<>> /\ tapped = {} /\ astray = {}

-----------------------------------------------------------------------------
(* The keyboard monitor: whether a key event is the reader's alone *)

ShouldGrab(k) ==
  \/ reader.all \/ k \in reader.mods \/ k \in reader.strokes
  \/ reader.mods \cap suppressed # {}
ShouldWatch(k) == reader.watched \/ ShouldGrab(k)

\* The queue to the bus is full or gone: every grab is given up.
FailOpen ==
  /\ reader' = NoReader /\ suppressed' = {} /\ recipients' = <<>> /\ tapped' = {}

WithoutEntry(k) == [x \in DOMAIN recipients \ {k} |-> recipients[x]]
WithEntry(k) ==
  [x \in DOMAIN recipients \cup {k} |->
     \/ x \in DOMAIN recipients /\ recipients[x]
     \/ x = k /\ ShouldWatch(k)]

MonitorSeesPress(k, block) ==
  \/ ShouldWatch(k) /\ block = "pass" /\ FailOpen
  \/ /\ recipients' = WithEntry(k)
     /\ tapped' = tapped \cup ({k} \cap reader.mods)
     /\ UNCHANGED reader
     /\ \/ k \in reader.mods \cap tapped /\ block = "pass" /\ UNCHANGED suppressed
        \/ /\ k \in suppressed \/ ShouldGrab(k)
           /\ suppressed' = suppressed \cup {k}
           /\ block = IF k \in reader.mods THEN "modifier" ELSE "block"
        \/ /\ ~(k \in suppressed \/ ShouldGrab(k))
           /\ block = "pass" /\ UNCHANGED suppressed

Heard == {k \in DOMAIN recipients : recipients[k]}
HearsRelease(k) == IF k \in DOMAIN recipients THEN recipients[k] ELSE ShouldWatch(k)
MonitorSeesRelease(k, block) ==
  \/ HearsRelease(k) /\ block = "pass" /\ FailOpen
  \/ /\ recipients' = WithoutEntry(k)
     /\ suppressed' = suppressed \ {k}
     /\ block = IF k \notin suppressed THEN "pass"
                ELSE IF k \in reader.mods THEN "modifier" ELSE "block"
     /\ UNCHANGED <<reader, tapped>>

-----------------------------------------------------------------------------
(* The filter *)

InTable(k) ==
  /\ k = "letter"
  /\ \/ rescue /\ "super" \in seatDown
     \/ ~rescue /\ mode
     \/ ~rescue /\ ~mode /\ ("super" \in seatDown \/ "helper" \in helpers)
UsesHelper(k) == k = "helper" /\ ~rescue /\ ~mode
PeekChord(k) == k = "trigger" /\ "super" \in seatDown

Forwarded(k) == told' = told \cup {k}
NotForwarded == told' = told

\* run_action, for the actions that change what the filter does next.
RunAction ==
  \/ mode' \in BOOLEAN /\ ("tables" \in allowed \/ ~mode') /\ UNCHANGED <<rescue, helpers>>
  \/ /\ rescue' = FALSE /\ helpers' = {}
     /\ mode' \in {mode, FALSE}

FilterPress(k) ==
  \/ /\ screen = "locked" /\ Forwarded(k)
     /\ UNCHANGED <<helpers, triggerDown, peek, mode, rescue, screen>>
  \/ /\ screen = "inhibited"
     /\ \/ Forwarded(k) /\ UNCHANGED screen
        \/ InTable(k) /\ NotForwarded /\ screen' = "free"
     /\ UNCHANGED <<helpers, triggerDown, peek, mode, rescue>>
  \/ /\ screen = "picker" /\ NotForwarded
     /\ screen' \in {"picker", "free"}
     /\ UNCHANGED <<helpers, triggerDown, peek, mode, rescue>>
  \/ /\ screen = "free" /\ PeekChord(k)
     /\ NotForwarded /\ peek' = TRUE /\ triggerDown' = TRUE
     /\ UNCHANGED <<helpers, mode, rescue, screen>>
  \* The peek does not open: the pointer is grabbed, or the engine is Classic.
  \/ /\ screen = "free" /\ PeekChord(k) /\ ~peek /\ Forwarded(k)
     /\ UNCHANGED <<helpers, triggerDown, peek, mode, rescue, screen>>
  \/ /\ screen = "free" /\ InTable(k) /\ NotForwarded /\ RunAction
     /\ UNCHANGED <<triggerDown, peek, screen>>
  \/ /\ screen = "free" /\ ~PeekChord(k) /\ ~InTable(k)
     /\ IF UsesHelper(k) THEN NotForwarded /\ helpers' = helpers \cup {k}
                         ELSE Forwarded(k) /\ UNCHANGED helpers
     /\ UNCHANGED <<triggerDown, peek, mode, rescue, screen>>

\* A press the monitor blocks still reaches XKB, but nothing else; a grabbed
\* modifier's does not even do that.
PressKey(k, block) ==
  /\ k \notin keyDown /\ Cardinality(keyDown) < KeysHeld
  /\ keyDown' = keyDown \cup {k}
  /\ MonitorSeesPress(k, block)
  /\ CASE block = "modifier" -> UNCHANGED kyKeyboard
       [] block = "block" ->
            seatDown' = seatDown \cup {k}
            /\ UNCHANGED <<told, helpers, triggerDown, peek, mode, rescue, screen>>
       [] OTHER -> seatDown' = seatDown \cup {k} /\ FilterPress(k)
  /\ UNCHANGED astray

\* The peek ends with any key of its chord.
\* Mutant: only the trigger's own release counts.
EndsPeekByTrigger(k) == triggerDown /\ k = "trigger"
EndsPeek(k) == triggerDown /\ (k = "trigger" \/ "super" \notin seatDown')
FilterRelease(k) ==
  IF k \in helpers
  THEN NotForwarded /\ helpers' = helpers \ {k} /\ UNCHANGED <<triggerDown, peek>>
  ELSE /\ triggerDown' = (triggerDown /\ ~EndsPeek(k))
       /\ peek' = (peek /\ ~EndsPeek(k))
       /\ told' = IF k = "trigger" /\ triggerDown THEN told ELSE told \ {k}
       /\ UNCHANGED helpers

ReleaseKey(k, block) ==
  /\ k \in keyDown
  /\ keyDown' = keyDown \ {k}
  /\ MonitorSeesRelease(k, block)
  /\ CASE block = "modifier" -> UNCHANGED kyKeyboard
       [] block = "block" ->
            /\ seatDown' = seatDown \ {k}
            /\ told' = IF k = "super" THEN told \ {k} ELSE told
            /\ UNCHANGED <<helpers, triggerDown, peek, mode, rescue, screen>>
       [] OTHER ->
            /\ seatDown' = seatDown \ {k} /\ FilterRelease(k)
            /\ UNCHANGED <<mode, rescue, screen>>
  \* A release the seat never saw leaves the modifier held for the clients, and
  \* one the filter never saw leaves the peek open.
  /\ astray' = IF block = "modifier" /\ k \in seatDown THEN astray \cup {k}
               ELSE IF block = "block" /\ k = "super" /\ peek THEN (astray \ {k}) \cup {"chord"}
               ELSE astray \ ({k} \cup IF triggerDown' THEN {} ELSE {"chord"})

\* Ctrl+Alt+Escape: its own keys go the ordinary way and are left out.
RescueChord ==
  /\ screen \in {"free", "inhibited", "picker"}
  /\ rescue' = TRUE /\ mode' = FALSE /\ helpers' = {}
  /\ UNCHANGED <<keyDown, seatDown, told, triggerDown, peek, screen, kyMonitor, astray>>

\* A reload by other means than a key.
ReloadKeys ==
  /\ rescue' = FALSE /\ helpers' = {} /\ mode' \in {mode, FALSE}
  /\ UNCHANGED <<keyDown, seatDown, told, triggerDown, peek, screen, kyMonitor, astray>>

-----------------------------------------------------------------------------
(* What captures the keyboard *)

LockScreenUp ==
  /\ screen # "locked" /\ screen' = "locked" /\ peek' = FALSE
  /\ UNCHANGED <<keyDown, seatDown, told, helpers, triggerDown, mode, rescue, kyMonitor, astray>>
CaptureKeyboard(by) ==
  /\ screen = "free" /\ screen' = by
  /\ UNCHANGED <<keyDown, seatDown, told, helpers, triggerDown, peek, mode, rescue,
                 kyMonitor, astray>>
FreeKeyboard ==
  /\ screen \in {"locked", "inhibited"} /\ screen' = "free"
  /\ UNCHANGED <<keyDown, seatDown, told, helpers, triggerDown, peek, mode, rescue,
                 kyMonitor, astray>>

\* A click in the peek travels and closes it, the trigger still held.
TravelByPeek ==
  /\ peek /\ peek' = FALSE
  /\ UNCHANGED <<keyDown, seatDown, told, helpers, triggerDown, mode, rescue, screen,
                 kyMonitor, astray>>

\* The host takes the keyboard: no release that follows is seen, and
\* release_stuck_keys lets go of what the seat takes for pressed.
HostTakesFocus ==
  /\ keyDown' = {}
  /\ IF seatDown = {} THEN UNCHANGED <<seatDown, told, helpers, triggerDown, peek>>
     ELSE /\ seatDown' = {} /\ told' = {} /\ helpers' = {}
          /\ triggerDown' = FALSE /\ peek' = (peek /\ ~triggerDown)
  /\ astray' = (astray \ seatDown) \cup keyDown
  /\ UNCHANGED <<mode, rescue, screen, kyMonitor>>

-----------------------------------------------------------------------------
(* The screen reader's own calls *)

\* A subscription that has become empty goes with everything recorded for it.
Subscribed(r) ==
  /\ reader' = r
  /\ IF r = NoReader
     THEN recipients' = <<>> /\ tapped' = {}
     ELSE UNCHANGED recipients /\ tapped' = tapped \cap r.mods
  /\ UNCHANGED <<keyDown, kyKeyboard, suppressed, astray>>

GrabKeyboard(on) == reader.all # on /\ Subscribed([reader EXCEPT !.all = on])
WatchKeyboard(on) == reader.watched # on /\ Subscribed([reader EXCEPT !.watched = on])
SetKeyGrabs(m, s) ==
  /\ <<m, s>> # <<reader.mods, reader.strokes>>
  /\ Subscribed([reader EXCEPT !.mods = m, !.strokes = s])
Disconnects == reader # NoReader /\ Subscribed(NoReader)

Captures == LockScreenUp \/ FreeKeyboard \/ \E by \in {"inhibited", "picker"} : CaptureKeyboard(by)
ReaderCalls ==
  \/ \E on \in BOOLEAN : GrabKeyboard(on) \/ ("watches" \in allowed /\ WatchKeyboard(on))
  \/ \E m \in {{}, {"super"}}, s \in {{}, {"letter"}} : SetKeyGrabs(m, s)
  \/ Disconnects

KyNext ==
  /\ UNCHANGED allowed
  /\ \/ \E k \in KeysUsed, block \in {"pass", "block", "modifier"} :
          PressKey(k, block) \/ ReleaseKey(k, block)
     \/ TravelByPeek
     \/ "tables" \in allowed /\ (RescueChord \/ ReloadKeys)
     \/ "screens" \in allowed /\ Captures
     \/ "host" \in allowed /\ HostTakesFocus
     \/ "reader" \in allowed /\ ReaderCalls

KySpec == KyInit /\ [][KyNext]_kyVars

-----------------------------------------------------------------------------
\* What was decided at a press is undone at its release, whatever happened in
\* between.  No client, and no screen reader, is left with a key that is up;
\* XKB holds no modifier that nobody holds; no helper and no grab outlives its
\* key; and the minimap is open only while its chord is held.  Excepted are the
\* keys whose release went missing: the host took the keyboard, or the reader
\* grabbed, or still blocks, a modifier that was already down.
KeysSettled ==
  /\ helpers \subseteq keyDown
  /\ told \cup seatDown \cup suppressed \cup Heard \subseteq keyDown \cup astray
  /\ peek => triggerDown
  /\ triggerDown => "trigger" \in seatDown
  /\ peek => "super" \in seatDown \/ "chord" \in astray
=============================================================================
