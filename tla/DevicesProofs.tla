---------------------------- MODULE DevicesProofs ----------------------------
(***************************************************************************)
(* Proofs about the keyboard and the pointer, for any number of keys held  *)
(* at once, any worlds of the keyboard and any buttons of the mouse: what  *)
(* a press decided is undone at its release, and a drag ends with whatever *)
(* carries it and commits only when the user means it.                     *)
(*                                                                         *)
(* A key is never two things at once (OneFate): a helper the filter keeps  *)
(* is neither told to a client nor grabbed by the reader.  Without that    *)
(* a blocked release, which does not reach the filter, would leave a       *)
(* helper or a client's key behind.                                        *)
(***************************************************************************)
EXTENDS Keys, Pointer, TLAPS

Key == {"super", "trigger", "letter", "helper"}

Reader == [all : BOOLEAN, watched : BOOLEAN,
           mods : SUBSET {"super"}, strokes : SUBSET {"letter"}]

KeysTyped ==
  /\ keyDown \subseteq Key /\ seatDown \subseteq Key
  /\ helpers \subseteq {"helper"}
  /\ reader \in Reader
  /\ suppressed \cup Heard \subseteq Key

\* Only a modifier is ever held for the clients by XKB alone, and what the filter
\* decided it decided about a key that XKB saw.
SeatFollows ==
  /\ told \cup helpers \subseteq seatDown
  /\ seatDown \subseteq keyDown \cup {"super"}

OneFate ==
  /\ helpers \cap (told \cup suppressed) = {}
  /\ told \cap suppressed \subseteq {"super"}
  /\ triggerDown => "trigger" \notin told \cup suppressed

\* A modifier held by XKB alone is of no concern to the monitor.
LeftToSeat == (seatDown \ keyDown) \cap (suppressed \cup Heard) = {}

KeysInv == KeysTyped /\ SeatFollows /\ OneFate /\ LeftToSeat /\ KeysSettled

-----------------------------------------------------------------------------
(* The keyboard *)

LEMMA ReaderType ==
  /\ NoReader \in Reader
  /\ \A r \in Reader : r.mods \subseteq {"super"}
  BY DEF NoReader, Reader

LEMMA FailOpenForgets ==
  ASSUME FailOpen
  PROVE  suppressed' = {} /\ Heard' = {} /\ reader' = NoReader
  BY DEF FailOpen, NoReader, Heard

\* What the monitor does with a press: it grabs and hears no other key, and
\* grabs no key that it lets pass, a modifier tapped twice aside.
LEMMA PressSeen ==
  ASSUME KeysInv, NEW k \in Key, NEW block, MonitorSeesPress(k, block)
  PROVE  /\ suppressed' \subseteq suppressed \cup {k}
         /\ Heard' \subseteq Heard \cup {k}
         /\ reader' \in Reader
         /\ block = "pass" /\ k # "super" => k \notin suppressed'
         /\ block = "modifier" => k = "super"
<1>1. CASE FailOpen /\ block = "pass"
  BY <1>1, FailOpenForgets, ReaderType
<1>2. CASE recipients' = WithEntry(k) /\ UNCHANGED reader
  <2>1. reader' \in Reader
    BY <1>2 DEF KeysInv, KeysTyped
  <2>2. Heard' \subseteq Heard \cup {k}
    BY <1>2 DEF Heard, WithEntry
  <2>3. CASE k \in reader.mods \cap tapped /\ UNCHANGED suppressed /\ block = "pass"
    BY <2>1, <2>2, <2>3, ReaderType DEF KeysInv, KeysTyped
  <2>4. CASE /\ suppressed' = suppressed \cup {k}
             /\ block = IF k \in reader.mods THEN "modifier" ELSE "block"
    BY <2>1, <2>2, <2>4, ReaderType DEF KeysInv, KeysTyped
  <2>5. CASE k \notin suppressed /\ UNCHANGED suppressed /\ block = "pass"
    BY <2>1, <2>2, <2>5
  <2> QED
    BY <1>2, <2>3, <2>4, <2>5, FailOpenForgets, ReaderType DEF MonitorSeesPress
<1> QED
  BY <1>1, <1>2 DEF MonitorSeesPress

\* What it does with a release: the key is forgotten, and one that is let pass
\* was not grabbed, unless every grab was given up.
LEMMA ReleaseSeen ==
  ASSUME KeysInv, NEW k \in Key, NEW block, MonitorSeesRelease(k, block)
  PROVE  /\ suppressed' \subseteq suppressed \ {k}
         /\ Heard' \subseteq Heard \ {k}
         /\ reader' \in Reader
         /\ block # "pass" => k \in suppressed
         /\ block = "modifier" => k = "super"
<1>1. CASE FailOpen /\ block = "pass"
  BY <1>1, FailOpenForgets, ReaderType
<1>2. CASE ~(FailOpen /\ block = "pass")
  <2>1. /\ recipients' = WithoutEntry(k)
        /\ suppressed' = suppressed \ {k}
        /\ block = IF k \notin suppressed THEN "pass"
                   ELSE IF k \in reader.mods THEN "modifier" ELSE "block"
        /\ UNCHANGED reader
    BY <1>2 DEF MonitorSeesRelease
  <2>2. Heard' \subseteq Heard \ {k}
    BY <2>1 DEF Heard, WithoutEntry
  <2> QED
    BY <2>1, <2>2, ReaderType DEF KeysInv, KeysTyped
<1> QED
  BY <1>1, <1>2

\* What the filter does with a press: the client or the helpers learn of it, or
\* the minimap opens, over its whole chord.
LEMMA FilterPresses ==
  ASSUME KeysInv, NEW k \in Key, FilterPress(k)
  PROVE  /\ \/ told' = told /\ helpers' \subseteq helpers
            \/ told' = told \cup {k} /\ helpers' = helpers
            \/ told' = told /\ helpers' = helpers \cup {k} /\ k = "helper"
         /\ \/ UNCHANGED <<triggerDown, peek>>
            \/ /\ k = "trigger" /\ "super" \in seatDown
               /\ told' = told /\ triggerDown' /\ peek'
  BY DEF FilterPress, Forwarded, NotForwarded, RunAction, UsesHelper, PeekChord

LEMMA PressKeepsKeys ==
  ASSUME KeysInv, NEW k \in Key, NEW block, PressKey(k, block), block \in {"pass", "block", "modifier"}
  PROVE  KeysInv'
<1>1. /\ k \notin keyDown /\ keyDown' = keyDown \cup {k} /\ UNCHANGED astray
      /\ MonitorSeesPress(k, block)
  BY DEF PressKey
<1>2. /\ suppressed' \subseteq suppressed \cup {k}
      /\ Heard' \subseteq Heard \cup {k}
      /\ reader' \in Reader
      /\ block = "pass" /\ k # "super" => k \notin suppressed'
      /\ block = "modifier" => k = "super"
  BY <1>1, PressSeen
<1>3. k \notin helpers /\ (k # "super" => k \notin seatDown \cup told)
  BY <1>1 DEF KeysInv, SeatFollows, KeysSettled
<1>4. CASE block # "pass"
  <2>1. UNCHANGED <<told, helpers, triggerDown, peek>> /\ seatDown' \in {seatDown, seatDown \cup {k}}
    BY <1>4 DEF PressKey, kyKeyboard
  <2>2. KeysTyped' /\ SeatFollows'
    BY <1>1, <1>2, <2>1 DEF KeysInv, KeysTyped, SeatFollows
  <2>3. OneFate'
    BY <1>1, <1>2, <1>3, <2>1 DEF KeysInv, OneFate, KeysSettled, SeatFollows
  <2>4. LeftToSeat'
    BY <1>1, <1>2, <2>1 DEF KeysInv, LeftToSeat
  <2>5. KeysSettled'
    BY <1>1, <1>2, <2>1 DEF KeysInv, KeysSettled
  <2> QED
    BY <2>2, <2>3, <2>4, <2>5 DEF KeysInv
<1>5. CASE block = "pass"
  <2>1. seatDown' = seatDown \cup {k} /\ FilterPress(k)
    BY <1>5 DEF PressKey
  <2>2. /\ \/ told' = told /\ helpers' \subseteq helpers
           \/ told' = told \cup {k} /\ helpers' = helpers
           \/ told' = told /\ helpers' = helpers \cup {k} /\ k = "helper"
        /\ \/ UNCHANGED <<triggerDown, peek>>
           \/ /\ k = "trigger" /\ "super" \in seatDown
              /\ told' = told /\ triggerDown' /\ peek'
    BY <2>1, FilterPresses
  <2>3. KeysTyped' /\ SeatFollows'
    BY <1>1, <1>2, <2>1, <2>2 DEF KeysInv, KeysTyped, SeatFollows
  <2>4. OneFate'
    <3>1. helpers' \cap (told' \cup suppressed') = {}
      BY <1>2, <1>3, <1>5, <2>2 DEF KeysInv, OneFate
    <3>2. told' \cap suppressed' \subseteq {"super"}
      BY <1>2, <1>3, <1>5, <2>2 DEF KeysInv, OneFate
    <3>3. triggerDown' => "trigger" \notin told' \cup suppressed'
      <4>1. CASE k = "trigger" /\ told' = told
        BY <1>2, <1>3, <1>5, <4>1
      <4>2. CASE UNCHANGED <<triggerDown, peek>>
        BY <1>1, <1>2, <2>2, <4>2 DEF KeysInv, OneFate, KeysSettled, SeatFollows
      <4> QED
        BY <2>2, <4>1, <4>2
    <3> QED
      BY <3>1, <3>2, <3>3 DEF OneFate
  <2>5. LeftToSeat'
    BY <1>1, <1>2, <2>1 DEF KeysInv, LeftToSeat
  <2>6. KeysSettled'
    BY <1>1, <1>2, <2>1, <2>2 DEF KeysInv, KeysSettled
  <2> QED
    BY <2>3, <2>4, <2>5, <2>6 DEF KeysInv
<1> QED
  BY <1>4, <1>5

LEMMA ReleaseKeepsKeys ==
  ASSUME KeysInv, NEW k \in Key, NEW block, ReleaseKey(k, block), block \in {"pass", "block", "modifier"}
  PROVE  KeysInv'
<1>1. k \in keyDown /\ keyDown' = keyDown \ {k} /\ MonitorSeesRelease(k, block)
  BY DEF ReleaseKey
<1>2. /\ suppressed' \subseteq suppressed \ {k}
      /\ Heard' \subseteq Heard \ {k}
      /\ reader' \in Reader
      /\ block # "pass" => k \in suppressed
      /\ block = "modifier" => k = "super"
  BY <1>1, ReleaseSeen
<1>3. /\ block = "modifier" /\ k \in seatDown => astray' = astray \cup {k}
      /\ block = "modifier" /\ k \notin seatDown
           => astray' = astray \ ({k} \cup IF triggerDown' THEN {} ELSE {"chord"})
      /\ block = "block" => astray' \in {(astray \ {k}) \cup {"chord"},
                                         astray \ ({k} \cup IF triggerDown' THEN {} ELSE {"chord"})}
      /\ block = "block" /\ k = "super" /\ peek => "chord" \in astray'
      /\ block = "pass" => astray' = astray \ ({k} \cup IF triggerDown' THEN {} ELSE {"chord"})
  BY DEF ReleaseKey
<1>4. "chord" \notin Key
  BY DEF Key
<1>5. CASE block = "modifier"
  <2>1. UNCHANGED <<seatDown, told, helpers, triggerDown, peek>> /\ k = "super"
    BY <1>2, <1>5 DEF ReleaseKey, kyKeyboard
  <2>2. KeysTyped' /\ SeatFollows' /\ OneFate'
    BY <1>1, <1>2, <2>1 DEF KeysInv, KeysTyped, SeatFollows, OneFate
  <2>3. LeftToSeat'
    BY <1>1, <1>2, <2>1 DEF KeysInv, LeftToSeat
  <2>4. KeysSettled'
    <3>1. told' \cup seatDown' \cup suppressed' \cup Heard' \subseteq keyDown' \cup astray'
      BY <1>1, <1>2, <1>3, <1>4, <1>5, <2>1 DEF KeysInv, KeysSettled, SeatFollows, KeysTyped
    <3>2. peek' => "super" \in seatDown' \/ "chord" \in astray'
      BY <1>1, <1>2, <1>3, <1>4, <1>5, <2>1 DEF KeysInv, KeysSettled
    <3> QED
      BY <1>1, <1>2, <1>3, <1>4, <1>5, <2>1, <3>1, <3>2 DEF KeysInv, KeysSettled, SeatFollows, KeysTyped
  <2> QED
    BY <2>2, <2>3, <2>4 DEF KeysInv
<1>6. CASE block = "block"
  <2>1. /\ seatDown' = seatDown \ {k} /\ UNCHANGED <<helpers, triggerDown, peek>>
        /\ told' = IF k = "super" THEN told \ {k} ELSE told
    BY <1>6 DEF ReleaseKey
  <2>2. told' \subseteq told \ {k} /\ k \notin helpers /\ (triggerDown => k # "trigger")
    BY <1>2, <1>6, <2>1 DEF KeysInv, OneFate
  <2>3. KeysTyped' /\ SeatFollows' /\ OneFate'
    BY <1>1, <1>2, <2>1, <2>2 DEF KeysInv, KeysTyped, SeatFollows, OneFate
  <2>4. LeftToSeat'
    BY <1>1, <1>2, <2>1 DEF KeysInv, LeftToSeat
  <2>5. KeysSettled'
    <3>1. told' \cup seatDown' \cup suppressed' \cup Heard' \subseteq keyDown' \cup astray'
      BY <1>1, <1>2, <1>3, <1>4, <1>6, <2>1, <2>2 DEF KeysInv, KeysSettled, SeatFollows, KeysTyped
    <3>2. peek' => "super" \in seatDown' \/ "chord" \in astray'
      BY <1>1, <1>2, <1>3, <1>4, <1>6, <2>1, <2>2 DEF KeysInv, KeysSettled
    <3> QED
      BY <1>1, <1>2, <1>3, <1>4, <1>6, <2>1, <2>2, <3>1, <3>2 DEF KeysInv, KeysSettled, SeatFollows
  <2> QED
    BY <2>3, <2>4, <2>5 DEF KeysInv
<1>7. CASE block = "pass"
  <2>1. seatDown' = seatDown \ {k} /\ FilterRelease(k)
    BY <1>7 DEF ReleaseKey
  <2>2. /\ told' \subseteq told \ {k} /\ helpers' \subseteq helpers \ {k}
        /\ triggerDown' => triggerDown /\ k # "trigger"
        /\ peek' => peek
        /\ peek' /\ triggerDown => triggerDown' /\ k # "super"
    BY <2>1 DEF FilterRelease, NotForwarded, EndsPeek, KeysInv, OneFate, KeysTyped
  <2>3. KeysTyped' /\ SeatFollows' /\ OneFate'
    BY <1>1, <1>2, <2>1, <2>2 DEF KeysInv, KeysTyped, SeatFollows, OneFate
  <2>4. LeftToSeat'
    BY <1>1, <1>2, <2>1 DEF KeysInv, LeftToSeat
  <2>5. KeysSettled'
    <3>1. told' \cup seatDown' \cup suppressed' \cup Heard' \subseteq keyDown' \cup astray'
      BY <1>1, <1>2, <1>3, <1>4, <1>7, <2>1, <2>2 DEF KeysInv, KeysSettled, SeatFollows, KeysTyped
    <3>2. peek' => "super" \in seatDown' \/ "chord" \in astray'
      BY <1>1, <1>2, <1>3, <1>4, <1>7, <2>1, <2>2 DEF KeysInv, KeysSettled
    <3> QED
      BY <1>1, <1>2, <1>3, <1>4, <1>7, <2>1, <2>2, <3>1, <3>2 DEF KeysInv, KeysSettled, SeatFollows
  <2> QED
    BY <2>3, <2>4, <2>5 DEF KeysInv
<1> QED
  BY <1>5, <1>6, <1>7

LEMMA HostKeepsKeys ==
  ASSUME KeysInv, HostTakesFocus
  PROVE  KeysInv'
<1> QED
  BY DEF KeysInv, HostTakesFocus, kyMonitor, KeysTyped, SeatFollows, OneFate, LeftToSeat, KeysSettled, Heard

LEMMA ReaderKeepsKeys ==
  ASSUME KeysInv, ReaderCalls
  PROVE  KeysInv'
<1>1. PICK r \in Reader : Subscribed(r)
  BY ReaderType DEF ReaderCalls, KeysInv, KeysTyped, Reader, GrabKeyboard, WatchKeyboard, SetKeyGrabs, Disconnects
<1> QED
  BY <1>1 DEF KeysInv, Subscribed, kyKeyboard, KeysTyped, SeatFollows, OneFate, LeftToSeat, KeysSettled, Heard

LEMMA OthersKeepKeys ==
  ASSUME KeysInv, TravelByPeek \/ RescueChord \/ ReloadKeys \/ Captures
  PROVE  KeysInv'
<1>1. /\ UNCHANGED <<keyDown, seatDown, told, triggerDown, reader, suppressed, recipients, astray>>
      /\ helpers' \subseteq helpers
      /\ peek' => peek
  <2>1. CASE TravelByPeek
    BY <2>1 DEF TravelByPeek, kyMonitor
  <2>2. CASE RescueChord \/ ReloadKeys
    <3>1. /\ UNCHANGED <<keyDown, seatDown, told, triggerDown, peek, kyMonitor, astray>>
          /\ helpers' = {}
      BY <2>2 DEF RescueChord, ReloadKeys
    <3> QED
      BY <3>1 DEF kyMonitor
  <2>3. CASE LockScreenUp \/ FreeKeyboard
    BY <2>3 DEF LockScreenUp, FreeKeyboard, kyMonitor
  <2>4. ASSUME NEW by, CaptureKeyboard(by)
        PROVE  /\ UNCHANGED <<keyDown, seatDown, told, triggerDown, reader, suppressed,
                              recipients, astray>>
               /\ helpers' \subseteq helpers
               /\ peek' => peek
    BY <2>4 DEF CaptureKeyboard, kyMonitor
  <2> QED
    BY <2>1, <2>2, <2>3, <2>4 DEF Captures
<1> QED
  BY <1>1 DEF KeysInv, KeysTyped, SeatFollows, OneFate, LeftToSeat, KeysSettled, Heard

\* What was decided at a press is undone at its release (process_input_event's
\* keyboard filter and the accessibility monitor's process_key): no client, screen
\* reader or helper set keeps a key that is up, and the minimap is open only over
\* its chord, except for the keys whose release went missing.
THEOREM KeysAreSettled == KySpec => []KeysSettled
<1>1. KyInit => KeysInv
  BY ReaderType DEF KyInit, KeysInv, KeysTyped, SeatFollows, OneFate, LeftToSeat, KeysSettled, Heard
<1>2. KeysInv /\ [KyNext]_kyVars => KeysInv'
  <2> SUFFICES ASSUME KeysInv, [KyNext]_kyVars
               PROVE  KeysInv'
    OBVIOUS
  <2>1. CASE UNCHANGED kyVars
    BY <2>1 DEF kyVars, kyKeyboard, kyMonitor, KeysInv, KeysTyped, SeatFollows, OneFate,
                LeftToSeat, KeysSettled, Heard
  <2>2. ASSUME NEW k \in KeysUsed, NEW block \in {"pass", "block", "modifier"},
               PressKey(k, block) \/ ReleaseKey(k, block)
        PROVE  KeysInv'
    <3>1. k \in Key
      BY DEF KeysUsed, Key
    <3> QED
      BY <2>2, <3>1, PressKeepsKeys, ReleaseKeepsKeys
  <2> QED
    BY <2>1, <2>2, HostKeepsKeys, ReaderKeepsKeys, OthersKeepKeys DEF KyNext
<1>3. KeysInv => KeysSettled
  BY DEF KeysInv
<1> QED
  BY <1>1, <1>2, <1>3, PTL DEF KySpec

-----------------------------------------------------------------------------
(* The pointer *)

Clients == Desktop \cup {"locker"}

GrabTyped ==
  /\ gesture \in BOOLEAN /\ modal \in {"locked", "picker", "peek", "none"}
  /\ seatGrab.kind \in {"none", "click", "menu"} \cup Drags
  /\ seatGrab.kind = "none" => seatGrab.by = "nobody"
  /\ seatGrab.kind = "click" => seatGrab.by \in Clients
  /\ seatGrab.kind = "menu" => seatGrab.by = "menu"
  /\ seatGrab.kind \in Drags => seatGrab.by \in {"button", "gesture", "client"}
  /\ {focus, over} \subseteq Clients

\* A client is told of no button that the seat does not count, and a grab that a
\* client may turn into a drag has a button.
SeatCounts ==
  /\ heardDown \subseteq held
  /\ seatGrab.by \in {"window", "client"} => held # {}

\* Behind the lock screen nothing of the desktop is under the pointer or its grab.
LockedOut ==
  modal = "locked" => /\ seatGrab.kind \in {"none", "click"}
                      /\ seatGrab.by # "window"
                      /\ over \in {"locker", "nothing"} /\ focus \in {"locker", "nothing"}

PointerInv == GrabTyped /\ SeatCounts /\ LockedOut /\ PointerSettled

\* A step that drops is the user's, on an unlocked desktop.
DropIsMeant ==
  dropped' => /\ modal # "locked" /\ modal' # "locked"
              /\ pressed' # pressed \/ gesture' # gesture
              /\ preview' = FALSE /\ carried

LEMMA DragKinds ==
  /\ Moves \subseteq Drags /\ "resize" \in Drags /\ "resize" \notin Moves
  /\ "none" \notin Drags /\ "click" \notin Drags /\ "menu" \notin Drags
  BY DEF Moves, Drags

\* Leaving a grab ends the preview, and only a completed move whose window is
\* still there drops.
LEMMA LeavingDrops ==
  ASSUME PointerInv, NEW completed \in BOOLEAN, Left(completed)
  PROVE  /\ dropped' => completed /\ carried /\ preview' = FALSE /\ seatGrab.kind \in Moves
         /\ ~preview'
<1>1. preview => seatGrab.kind \in Moves
  BY DEF PointerInv, PointerSettled
<1>2. preview' = (preview /\ seatGrab.kind \notin Moves)
  BY DEF Left
<1>3. preview' = FALSE
  BY <1>1, <1>2
<1>4. dropped' => completed /\ carried /\ seatGrab.kind \in {"float", "tile"}
  BY DEF Left, DropFloat, DropTile
<1> QED
  BY <1>3, <1>4 DEF Moves

LEMMA UngrabSettles ==
  ASSUME PointerInv, NEW completed \in BOOLEAN, Ungrab(completed)
  PROVE  /\ dropped' => completed /\ carried /\ preview' = FALSE /\ seatGrab.kind \in Moves
         /\ ~preview' /\ seatGrab' = Ungrabbed /\ resize' # "resizing"
  BY LeavingDrops DEF Ungrab, LeftResize, PointerInv, PointerSettled

LEMMA StartSettles ==
  ASSUME PointerInv, NEW kind \in Drags, NEW b, NEW by, StartDrag(kind, b, by)
  PROVE  /\ ~dropped' /\ ~preview' /\ heardDown' = {} /\ focus' = "nothing"
         /\ seatGrab' = Grab(kind, b, by)
         /\ resize' = "resizing" => kind = "resize"
         /\ kind = "resize" /\ ~again' => resize' = "resizing"
<1>1. Left(FALSE)
  BY DEF StartDrag
<1>2. ~dropped' /\ ~preview'
  BY <1>1, LeavingDrops
<1>3. heardDown' = {} /\ focus' = "nothing"
  BY DEF StartDrag, Enter
<1>4. /\ resize' = "resizing" => kind = "resize"
      /\ kind = "resize" /\ ~again' => resize' = "resizing"
  BY DEF StartDrag, PointerInv, PointerSettled
<1> QED
  BY <1>2, <1>3, <1>4 DEF StartDrag

\* A drag in its place: what it needs of the state around it.
LEMMA DragSettles ==
  ASSUME PointerInv, NEW kind \in Drags, NEW b, NEW by \in {"button", "gesture", "client"},
         StartDrag(kind, b, by),
         UNCHANGED <<held, over, modal>>, modal # "locked", gesture' \in BOOLEAN,
         eatReleases' \subseteq pressed', held \subseteq pressed' \cup eaten',
         by = "gesture" => gesture',
         by = "button" => b \in pressed',
         by = "client" => held # {}
  PROVE  PointerInv' /\ DropIsMeant
<1>1. /\ ~dropped' /\ ~preview' /\ heardDown' = {} /\ focus' = "nothing"
      /\ seatGrab' = Grab(kind, b, by)
      /\ resize' = "resizing" => kind = "resize"
      /\ kind = "resize" /\ ~again' => resize' = "resizing"
  BY StartSettles
<1>2. seatGrab'.kind = kind /\ seatGrab'.button = b /\ seatGrab'.by = by
  BY <1>1 DEF Grab
<1>3. GrabTyped'
  BY <1>1, <1>2, DragKinds DEF PointerInv, GrabTyped, Clients, Desktop
<1>4. SeatCounts' /\ LockedOut'
  BY <1>1, <1>2 DEF SeatCounts, LockedOut
<1>5. PointerSettled'
  BY <1>1, <1>2 DEF PointerSettled, SeatCounts
<1> QED
  BY <1>1, <1>3, <1>4, <1>5 DEF PointerInv, DropIsMeant

\* After a grab has ended, whoever ended it.
LEMMA UngrabbedSettles ==
  ASSUME seatGrab' = Ungrabbed, ~preview', resize' # "resizing",
         heardDown' \subseteq held', held' \subseteq pressed' \cup eaten',
         eatReleases' \subseteq pressed', {focus', over'} \subseteq Clients, gesture' \in BOOLEAN,
         modal' \in {"locked", "picker", "peek", "none"},
         modal' = "locked" => {focus', over'} \subseteq {"locker", "nothing"}
  PROVE  PointerInv'
<1>1. seatGrab'.kind = "none" /\ seatGrab'.by = "nobody"
  BY DEF Ungrabbed
<1> QED
  BY <1>1, DragKinds DEF PointerInv, GrabTyped, SeatCounts, LockedOut, PointerSettled

LEMMA CursorType ==
  ASSUME PointerInv
  PROVE  /\ UnderCursor \in Clients
         /\ modal = "locked" => UnderCursor \in {"locker", "nothing"}
  BY DEF PointerInv, GrabTyped, LockedOut, UnderCursor, Clients, Desktop

\* A button that reaches the seat, in any grab.
LEMMA DispatchSettles ==
  ASSUME PointerInv, NEW b, NEW down \in BOOLEAN, Dispatch(b, down),
         UNCHANGED <<over, modal, gesture>>, modal \in {"locked", "none"},
         eatReleases' \subseteq pressed',
         down => b \notin pressed /\ pressed' = pressed \cup {b} /\ eaten' = eaten \ {b},
         ~down => b \in pressed /\ pressed' = pressed \ {b} /\ eaten' = eaten
  PROVE  PointerInv' /\ DropIsMeant
<1> DEFINE now == IF down THEN held \cup {b} ELSE held \ {b}
           heard == IF down /\ focus # "nothing" THEN heardDown \cup {b} ELSE heardDown \ {b}
<1>1. /\ held' = now
      /\ held' \subseteq pressed' \cup eaten' /\ (down => held' # {})
      /\ heard \subseteq held'
      /\ pressed' # pressed
  BY DEF Dispatch, PointerInv, SeatCounts, PointerSettled
<1>2. CASE /\ seatGrab.kind = "none" /\ Enter(focus, heard)
           /\ seatGrab' = IF down THEN Grab("click", b, focus) ELSE Ungrabbed
           /\ dropped' = FALSE /\ UNCHANGED <<preview, resize, again>>
  <2>1. focus' = focus /\ heardDown' = heard /\ ~preview' /\ resize' # "resizing"
    BY <1>2, DragKinds DEF Enter, PointerInv, PointerSettled
  <2>2. /\ down => seatGrab'.kind = "click" /\ seatGrab'.by = focus
        /\ ~down => seatGrab'.kind = "none" /\ seatGrab'.by = "nobody"
    BY <1>2 DEF Grab, Ungrabbed
  <2>3. GrabTyped'
    BY <2>1, <2>2, DragKinds DEF PointerInv, GrabTyped
  <2>4. SeatCounts' /\ LockedOut'
    BY <1>1, <2>1, <2>2 DEF PointerInv, SeatCounts, LockedOut
  <2>5. PointerSettled'
    BY <1>1, <2>1, <2>2, DragKinds DEF PointerSettled
  <2> QED
    BY <1>2, <2>3, <2>4, <2>5 DEF PointerInv, DropIsMeant
<1>3. CASE seatGrab.kind = "click" /\ now # {} /\ Enter(focus, heard) /\ SameGrab
  <2>1. focus' = focus /\ heardDown' = heard /\ ~dropped' /\ UNCHANGED <<seatGrab, preview, resize, again>>
    BY <1>3 DEF Enter, SameGrab
  <2>2. GrabTyped' /\ SeatCounts' /\ LockedOut'
    BY <1>1, <1>3, <2>1 DEF PointerInv, GrabTyped, SeatCounts, LockedOut
  <2>3. PointerSettled'
    BY <1>1, <1>3, <2>1, DragKinds DEF PointerInv, PointerSettled
  <2> QED
    BY <2>1, <2>2, <2>3 DEF PointerInv, DropIsMeant
<1>4. CASE /\ seatGrab.kind \in {"click", "menu"} /\ Ungrab(FALSE)
           /\ Enter(UnderCursor, heard) \/ Enter(focus, heard)
  <2>1. ~dropped' /\ ~preview' /\ seatGrab' = Ungrabbed /\ resize' # "resizing"
    BY <1>4, UngrabSettles
  <2>2. focus' \in {UnderCursor, focus} /\ heardDown' \subseteq heard
    BY <1>4 DEF Enter
  <2>3. PointerInv'
    BY <1>1, <2>1, <2>2, CursorType, UngrabbedSettles DEF PointerInv, GrabTyped, LockedOut
  <2> QED
    BY <2>1, <2>3 DEF DropIsMeant
<1>5. CASE seatGrab.kind = "menu" /\ Enter(focus, heard) /\ SameGrab
  <2>1. focus' = focus /\ heardDown' = heard /\ ~dropped' /\ UNCHANGED <<seatGrab, preview, resize, again>>
    BY <1>5 DEF Enter, SameGrab
  <2>2. GrabTyped' /\ SeatCounts' /\ LockedOut'
    BY <1>1, <1>5, <2>1 DEF PointerInv, GrabTyped, SeatCounts, LockedOut
  <2>3. PointerSettled'
    BY <1>1, <1>5, <2>1, DragKinds DEF PointerInv, PointerSettled
  <2> QED
    BY <2>1, <2>2, <2>3 DEF PointerInv, DropIsMeant
<1>6. CASE seatGrab.kind \in Drags /\ seatGrab.button \in now /\ Enter(focus, {}) /\ SameGrab
  <2>1. focus' = focus /\ heardDown' = {} /\ ~dropped' /\ UNCHANGED <<seatGrab, preview, resize, again>>
    BY <1>6 DEF Enter, SameGrab
  <2>2. GrabTyped' /\ SeatCounts' /\ LockedOut'
    BY <1>1, <1>6, <2>1 DEF PointerInv, GrabTyped, SeatCounts, LockedOut
  <2>3. PointerSettled'
    BY <1>1, <1>6, <2>1 DEF PointerInv, PointerSettled
  <2> QED
    BY <2>1, <2>2, <2>3 DEF PointerInv, DropIsMeant
<1>7. CASE seatGrab.kind \in Drags /\ Enter(UnderCursor, {}) /\ DragEnds
  <2>1. Left(TRUE) /\ seatGrab' = Ungrabbed /\ resize' # "resizing"
    BY <1>7 DEF DragEnds, LeftResize, PointerInv, PointerSettled
  <2>2. /\ dropped' => carried /\ preview' = FALSE
        /\ ~preview'
    BY <2>1, LeavingDrops
  <2>3. modal = "none"
    BY <1>7, DragKinds DEF PointerInv, LockedOut
  <2>4. focus' = UnderCursor /\ heardDown' = {}
    BY <1>7 DEF Enter
  <2>5. PointerInv'
    BY <1>1, <2>1, <2>2, <2>3, <2>4, CursorType, UngrabbedSettles DEF PointerInv, GrabTyped
  <2> QED
    BY <1>1, <2>2, <2>3, <2>5 DEF DropIsMeant
<1> QED
  BY <1>2, <1>3, <1>4, <1>5, <1>6, <1>7 DEF Dispatch

\* A button that stays with a modal screen.
LEMMA IdleSettles ==
  ASSUME PointerInv, Idle, UNCHANGED <<over, gesture>>,
         modal' \in {modal, "none", "peek", "picker"},
         eatReleases' \subseteq pressed', held \subseteq pressed' \cup eaten',
         seatGrab.kind \in Drags /\ seatGrab.by = "button" => seatGrab.button \in pressed' \cup eaten'
  PROVE  PointerInv' /\ DropIsMeant
<1>1. UNCHANGED <<held, focus, heardDown, seatGrab, preview, resize, again>> /\ ~dropped'
  BY DEF Idle, SameGrab
<1>2. GrabTyped' /\ SeatCounts' /\ LockedOut'
  BY <1>1 DEF PointerInv, GrabTyped, SeatCounts, LockedOut
<1>3. seatGrab.kind \in Drags => seatGrab.by \in {"button", "gesture", "client"}
  BY DEF PointerInv, GrabTyped
<1>4. PointerSettled'
  BY <1>1, <1>3 DEF PointerInv, PointerSettled, SeatCounts
<1> QED
  BY <1>1, <1>2, <1>4 DEF PointerInv, DropIsMeant

LEMMA PressSettles ==
  ASSUME PointerInv, NEW b \in Buttons, PressButton(b)
  PROVE  PointerInv' /\ DropIsMeant
<1>1. /\ b \notin pressed /\ pressed' = pressed \cup {b} /\ eaten' = eaten \ {b}
      /\ UNCHANGED <<over, gesture>>
      /\ eatReleases' \subseteq eatReleases \cup {b}
  BY DEF PressButton
<1>2. /\ eatReleases' \subseteq pressed' /\ held \subseteq pressed' \cup eaten'
      /\ pressed \cup eaten \subseteq pressed' \cup eaten'
      /\ gesture' \in BOOLEAN
  BY <1>1 DEF PointerInv, PointerSettled, GrabTyped
<1>3. CASE modal \in {"locked", "none"} /\ Dispatch(b, TRUE) /\ UNCHANGED modal
  BY <1>1, <1>2, <1>3, DispatchSettles
<1>4. CASE Idle /\ modal' \in {modal, "none", "peek", "picker"}
  BY <1>1, <1>2, <1>4, IdleSettles DEF PointerInv, PointerSettled
<1>5. CASE modal = "none" /\ DragFrom(b) /\ UNCHANGED <<held, modal>>
  <2>1. PICK kind \in Drags : StartDrag(kind, b, "button")
    BY <1>5 DEF DragFrom, DragTile, DragFloat, DragEdge, DragTileBody, DragCanvas, DragSplit, Drags
  <2> QED
    BY <1>1, <1>2, <1>5, <2>1, DragSettles
<1> QED
  BY <1>3, <1>4, <1>5 DEF PressButton

LEMMA ReleaseSettles ==
  ASSUME PointerInv, NEW b \in Buttons, ReleaseButton(b)
  PROVE  PointerInv' /\ DropIsMeant
<1>1. /\ b \in pressed /\ pressed' = pressed \ {b} /\ eatReleases' = eatReleases \ {b}
      /\ UNCHANGED <<over, gesture, modal>>
  BY DEF ReleaseButton
<1>2. eatReleases' \subseteq pressed'
  BY <1>1 DEF PointerInv, PointerSettled
<1>3. CASE Idle /\ eaten' = eaten \cup ({b} \cap (held \cup {seatGrab.button}))
  <2>1. held \subseteq pressed' \cup eaten'
    BY <1>1, <1>3 DEF PointerInv, PointerSettled
  <2>2. seatGrab.kind \in Drags /\ seatGrab.by = "button" => seatGrab.button \in pressed' \cup eaten'
    BY <1>1, <1>3 DEF PointerInv, PointerSettled
  <2> QED
    BY <1>1, <1>2, <1>3, <2>1, <2>2, IdleSettles
<1>4. CASE Dispatch(b, FALSE) /\ eaten' = eaten /\ modal \in {"locked", "none"}
  BY <1>1, <1>2, <1>4, DispatchSettles
<1>5. modal \in {"locked", "none"} \/ modal \in {"picker", "peek"}
  BY DEF PointerInv, GrabTyped
<1> QED
  BY <1>3, <1>4, <1>5 DEF ReleaseButton

\* The pointer may only enter the lock screen while the session is locked.
LEMMA MotionSettles ==
  ASSUME PointerInv, NEW client, Motion(client)
  PROVE  PointerInv' /\ DropIsMeant
<1>1. /\ client \in (IF modal = "locked" THEN {"locker", "nothing"} ELSE Desktop)
      /\ over' = client /\ Enter(FollowsTo(client), heardDown) /\ ~dropped'
      /\ preview' = (preview \/ seatGrab.kind = "float" \/ (seatGrab.kind = "tile" /\ carried))
      /\ UNCHANGED <<pressed, held, eatReleases, modal, seatGrab, gesture, resize, eaten, again>>
  BY DEF Motion
<1>2. FollowsTo(client) \in {focus, "nothing", client}
  BY DEF FollowsTo
<1>3. focus' \in {focus, "nothing", client} /\ heardDown' \subseteq heardDown
  BY <1>1, <1>2 DEF Enter
<1>4. GrabTyped' /\ SeatCounts' /\ LockedOut'
  BY <1>1, <1>3 DEF PointerInv, GrabTyped, SeatCounts, LockedOut, Clients, Desktop
<1>5. preview' => seatGrab.kind \in Moves
  BY <1>1 DEF PointerInv, PointerSettled, Moves
<1>6. PointerSettled'
  BY <1>1, <1>3, <1>5 DEF PointerInv, PointerSettled
<1> QED
  BY <1>1, <1>4, <1>6 DEF PointerInv, DropIsMeant

LEMMA SwipeSettles ==
  ASSUME PointerInv,
         \/ \E kind \in Drags : SwipeBegin(kind) \/ ClientDrags(kind)
         \/ \E cancelled \in BOOLEAN : SwipeEnd(cancelled)
  PROVE  PointerInv' /\ DropIsMeant
<1>1. ASSUME NEW kind \in Drags, SwipeBegin(kind)
      PROVE  PointerInv' /\ DropIsMeant
  BY <1>1, DragSettles DEF SwipeBegin, PointerInv, PointerSettled
<1>2. ASSUME NEW kind \in Drags, ClientDrags(kind)
      PROVE  PointerInv' /\ DropIsMeant
  <2>1. /\ seatGrab.by \in {"window", "client"}
        /\ StartDrag(kind, seatGrab.button, "client")
        /\ UNCHANGED <<pressed, held, over, eatReleases, modal, gesture, eaten>>
    BY <1>2 DEF ClientDrags
  <2>2. held # {} /\ held \subseteq pressed \cup eaten /\ eatReleases \subseteq pressed
    BY <2>1 DEF PointerInv, SeatCounts, PointerSettled
  <2>3. modal # "locked"
    BY <2>1, DragKinds DEF PointerInv, GrabTyped, LockedOut, Clients, Desktop
  <2>4. gesture \in BOOLEAN
    BY DEF PointerInv, GrabTyped
  <2> QED
    BY <2>1, <2>2, <2>3, <2>4, DragSettles
<1>3. ASSUME NEW cancelled \in BOOLEAN, SwipeEnd(cancelled)
      PROVE  PointerInv' /\ DropIsMeant
  <2> DEFINE completed == seatGrab.by = "gesture" /\ ~cancelled /\ modal # "locked"
  <2>1. /\ gesture /\ gesture' = FALSE /\ Ungrab(completed)
        /\ UNCHANGED <<pressed, held, over, eatReleases, modal, eaten>>
        /\ Enter(UnderCursor, heardDown) \/ UNCHANGED <<focus, heardDown>>
    BY <1>3 DEF SwipeEnd
  <2>2. completed \in BOOLEAN
    OBVIOUS
  <2>3. /\ dropped' => completed /\ carried /\ preview' = FALSE
        /\ ~preview' /\ seatGrab' = Ungrabbed /\ resize' # "resizing"
    BY <2>1, <2>2, UngrabSettles
  <2>4. focus' \in {focus, UnderCursor} /\ heardDown' \subseteq heardDown
    BY <2>1 DEF Enter
  <2>5. PointerInv'
    BY <2>1, <2>3, <2>4, CursorType, UngrabbedSettles
       DEF PointerInv, GrabTyped, LockedOut, SeatCounts, PointerSettled
  <2> QED
    BY <2>1, <2>3, <2>5 DEF DropIsMeant
<1> QED
  BY <1>1, <1>2, <1>3

LEMMA MenuSettles ==
  ASSUME PointerInv, OpenMenu \/ CloseMenu
  PROVE  PointerInv' /\ DropIsMeant
<1>1. CASE OpenMenu
  <2>1. /\ seatGrab.kind = "click" /\ seatGrab' = Grab("menu", seatGrab.button, "menu") /\ ~dropped'
        /\ seatGrab.by = "window"
        /\ UNCHANGED <<pressed, held, over, focus, heardDown, eatReleases, modal, gesture, preview,
                       resize, eaten>>
    BY <1>1 DEF OpenMenu
  <2>2. seatGrab'.kind = "menu" /\ seatGrab'.by = "menu"
    BY <2>1 DEF Grab
  <2>3. GrabTyped' /\ SeatCounts' /\ LockedOut'
    BY <2>1, <2>2, DragKinds DEF PointerInv, GrabTyped, SeatCounts, LockedOut
  <2>4. PointerSettled'
    BY <2>1, <2>2, DragKinds DEF PointerInv, PointerSettled
  <2> QED
    BY <2>1, <2>3, <2>4 DEF PointerInv, DropIsMeant
<1>2. CASE CloseMenu
  <2>1. /\ Ungrab(FALSE) /\ Enter(UnderCursor, heardDown)
        /\ UNCHANGED <<pressed, held, over, eatReleases, modal, gesture, eaten>>
    BY <1>2 DEF CloseMenu
  <2>2. ~dropped' /\ ~preview' /\ seatGrab' = Ungrabbed /\ resize' # "resizing"
    BY <2>1, UngrabSettles
  <2>3. focus' = UnderCursor /\ heardDown' \subseteq heardDown
    BY <2>1 DEF Enter
  <2>4. PointerInv'
    BY <2>1, <2>2, <2>3, CursorType, UngrabbedSettles
       DEF PointerInv, GrabTyped, LockedOut, SeatCounts, PointerSettled
  <2> QED
    BY <2>2, <2>4 DEF DropIsMeant
<1> QED
  BY <1>1, <1>2

LEMMA WindowSettles ==
  ASSUME PointerInv, WindowLeaves \/ WindowCommits
  PROVE  PointerInv' /\ DropIsMeant
<1>1. /\ ~dropped' /\ resize' \in {resize, "idle"}
      /\ resize' # resize => resize = "waiting"
      /\ UNCHANGED <<pressed, held, over, focus, heardDown, eatReleases, modal, seatGrab, gesture,
                     preview, eaten, again>>
  BY DEF WindowLeaves, WindowCommits
<1> QED
  BY <1>1 DEF PointerInv, GrabTyped, SeatCounts, LockedOut, PointerSettled, DropIsMeant

LEMMA ModalSettles ==
  ASSUME PointerInv, OpenPeek \/ OpenPicker \/ CloseModal
  PROVE  PointerInv' /\ DropIsMeant
<1>1. /\ Idle /\ modal' \in {"none", "peek", "picker"}
      /\ UNCHANGED <<pressed, over, eatReleases, gesture, eaten>>
  BY DEF OpenPeek, OpenPicker, CloseModal
<1> QED
  BY <1>1, IdleSettles DEF PointerInv, PointerSettled

LEMMA LockSettles ==
  ASSUME PointerInv, Lock \/ Unlock
  PROVE  PointerInv' /\ DropIsMeant
<1>1. CASE Lock
  <2>1. /\ modal' = "locked" /\ Ungrab(FALSE)
        /\ over' \in {"locker", "nothing"} /\ Enter(over', heardDown)
        /\ UNCHANGED <<pressed, held, eatReleases, gesture, eaten>>
    BY <1>1 DEF Lock
  <2>2. ~dropped' /\ ~preview' /\ seatGrab' = Ungrabbed /\ resize' # "resizing"
    BY <2>1, UngrabSettles
  <2>3. focus' = over' /\ heardDown' \subseteq heardDown
    BY <2>1 DEF Enter
  <2>4. {"locker", "nothing"} \subseteq Clients
    BY DEF Clients, Desktop
  <2>5. PointerInv'
    BY <2>1, <2>2, <2>3, <2>4, UngrabbedSettles DEF PointerInv, GrabTyped, SeatCounts, PointerSettled
  <2> QED
    BY <2>2, <2>5 DEF DropIsMeant
<1>2. CASE Unlock
  <2>1. /\ modal' = "none" /\ over' \in Desktop
        /\ Enter(IF seatGrab.kind = "click" THEN focus ELSE over', heardDown)
        /\ SameGrab /\ UNCHANGED <<pressed, held, eatReleases, gesture, eaten>>
    BY <1>2 DEF Unlock
  <2>2. focus' \in {focus, over'} /\ heardDown' \subseteq heardDown
    BY <2>1 DEF Enter
  <2>3. UNCHANGED <<seatGrab, preview, resize, again>> /\ ~dropped'
    BY <2>1 DEF SameGrab
  <2>4. GrabTyped' /\ SeatCounts' /\ LockedOut'
    BY <2>1, <2>2, <2>3 DEF PointerInv, GrabTyped, SeatCounts, LockedOut, Clients
  <2>5. PointerSettled'
    BY <2>1, <2>2, <2>3 DEF PointerInv, PointerSettled
  <2> QED
    BY <2>3, <2>4, <2>5 DEF PointerInv, DropIsMeant
<1> QED
  BY <1>1, <1>2

LEMMA PointerSteps ==
  ASSUME PointerInv, PtNext
  PROVE  PointerInv' /\ DropIsMeant
  BY PressSettles, ReleaseSettles, MotionSettles, SwipeSettles, MenuSettles, WindowSettles,
     ModalSettles, LockSettles DEF PtNext

LEMMA PointerHolds == PtSpec => []PointerInv
<1>1. PtInit => PointerInv
  <2> SUFFICES ASSUME PtInit
               PROVE  PointerInv
    OBVIOUS
  <2>1. seatGrab.kind = "none" /\ seatGrab.by = "nobody"
    BY DEF PtInit, Ungrabbed
  <2>2. GrabTyped /\ LockedOut
    BY <2>1, DragKinds DEF PtInit, GrabTyped, LockedOut, Clients, Desktop
  <2>3. SeatCounts /\ PointerSettled
    BY <2>1, DragKinds DEF PtInit, SeatCounts, PointerSettled
  <2> QED
    BY <2>2, <2>3 DEF PointerInv
<1>2. PointerInv /\ UNCHANGED ptVars => PointerInv'
  BY DEF ptVars, PointerInv, GrabTyped, SeatCounts, LockedOut, PointerSettled, UnderCursor
<1> QED
  BY <1>1, <1>2, PointerSteps, PTL DEF PtSpec

\* Buttons and drags end with what carries them (the handlers of
\* process_input_event, Smithay's seat and the unset callbacks of the grabs): no
\* client keeps a button that is up, no drag outlives its button or fingers, and no
\* preview or resizing state outlives its drag, whoever ended it.
THEOREM PointerIsSettled == PtSpec => []PointerSettled
<1>1. PointerInv => PointerSettled
  BY DEF PointerInv
<1> QED
  BY <1>1, PointerHolds, PTL

\* A drop (the unset callbacks of the move grabs) changes the layout only in a step
\* of the user's, on an unlocked desktop, with the window still where it was taken.
THEOREM OnlyMeantDrops == PtSpec => DropsAreMeant
<1>1. PointerInv /\ [PtNext]_ptVars
        => [dropped' => /\ modal # "locked" /\ modal' # "locked"
                        /\ pressed' # pressed \/ gesture' # gesture
                        /\ preview' = FALSE /\ carried]_ptVars
  BY PointerSteps DEF DropIsMeant
<1> QED
  BY <1>1, PointerHolds, PTL DEF PtSpec, DropsAreMeant
=============================================================================
