------------------------------- MODULE Focus -------------------------------
(***************************************************************************)
(* Who has the keyboard.  Everything that maps, hides, closes, locks or    *)
(* clicks states an intent and ends in reconcile_keyboard_focus, the only  *)
(* writer of the seat's focus: the lock screen, then the highest mapped    *)
(* exclusive layer, then a clicked on-demand layer, then the window meant, *)
(* then nobody.  A popup menu's grab moves the seat on to the menu while   *)
(* its root keeps the logical focus; leaving the root ends the grab, but   *)
(* the pointer's half of it only in an idle callback.                      *)
(*                                                                         *)
(* One output with numbered workspaces.  Stacking order is any order: a    *)
(* fallback to the topmost window is a fallback to any visible one.        *)
(***************************************************************************)
EXTENDS SequencesExt

CONSTANTS
  Windows, Layers, Menus,   \* finitely many, and no surface is two of them
  Desks,             \* workspace numbers
  Above,             \* rank of each layer surface, highest kind first
  Nobody, LockScreen,
  Restless           \* focus follows the pointer

ASSUME FoAssumption ==
  /\ IsFiniteSet(Windows) /\ IsFiniteSet(Layers)
  /\ Windows \cap Layers = {} /\ Windows \cap Menus = {} /\ Layers \cap Menus = {}
  /\ Nobody \notin Windows \cup Layers \cup Menus
  /\ LockScreen \notin Windows \cup Layers \cup Menus \cup {Nobody}
  /\ Restless \in BOOLEAN
  /\ Desks \subseteq Nat \ {0}
  /\ Above \in [Layers -> Nat] /\ \A l, k \in Layers : l # k => Above[l] # Above[k]

VARIABLES
  home,        \* the workspace of a mapped window, 0 while it is not mapped
  desk,        \* the workspace shown
  keyboard,    \* what each layer surface asks for; "unmapped" without buffer
  lock,        \* the session is locking or locked
  lockSurface, \* a lock surface is registered
  intent,      \* window_focus
  onDemand,    \* on_demand_layer_focus
  focus,       \* keyboard_focus, the logical owner
  seat,        \* the surface wl_keyboard really is on
  activated,   \* windows told that they are activated
  history,     \* most recently focused first
  urgent,      \* windows asking for attention
  menu,        \* the popup grab: its root, its open menus, whether it takes the
               \* keyboard, and the serials it answers to
  grabbed,     \* menus whose pointer grab is in force; Nobody for none
  releasing,   \* pointer releases queued for the idle callback
  walk         \* windows cycle_focus went through since anything else happened

desktop == <<home, desk>>
locks   == <<lock, lockSurface>>
wants   == <<intent, onDemand>>
owner   == <<focus, seat, activated>>
pops    == <<menu, grabbed, releasing>>
foVars  == <<desktop, keyboard, locks, wants, owner, history, urgent, pops, walk>>

NoMenu   == [root |-> Nobody, open |-> <<>>, typing |-> FALSE, serials |-> {}]
Targets  == Windows \cup Layers \cup {Nobody, LockScreen}
Visible  == {w \in Windows : home[w] = desk}

FoTypeOK ==
  /\ home \in [Windows -> Desks \cup {0}] /\ desk \in Desks
  /\ keyboard \in [Layers -> {"unmapped", "none", "on_demand", "exclusive"}]
  /\ {lock, lockSurface} \subseteq BOOLEAN
  /\ intent \in Windows \cup {Nobody} /\ onDemand \in Layers \cup {Nobody}
  /\ focus \in Targets /\ seat \in Targets \cup Menus
  /\ activated \subseteq Windows /\ urgent \subseteq Windows
  /\ IsInjective(history) /\ Range(history) \subseteq Windows
  /\ menu.root \in Targets /\ Range(menu.open) \cup menu.serials \subseteq Menus
  /\ grabbed \in Menus \cup {Nobody} /\ releasing \subseteq Menus
  /\ Range(walk) \subseteq Windows

FoInit ==
  /\ home = [w \in Windows |-> 0] /\ desk \in Desks
  /\ keyboard = [l \in Layers |-> "unmapped"]
  /\ lock = FALSE /\ lockSurface = FALSE
  /\ intent = Nobody /\ onDemand = Nobody
  /\ focus = Nobody /\ seat = Nobody /\ activated = {}
  /\ history = <<>> /\ urgent = {}
  /\ menu = NoMenu /\ grabbed = Nobody /\ releasing = {} /\ walk = <<>>

-----------------------------------------------------------------------------
(* Exclusive layers, and the highest of them.                              *)
Exclusives == {l \in Layers : keyboard[l] = "exclusive"}
Exclusive  == IF Exclusives = {} THEN Nobody
              ELSE CHOOSE l \in Exclusives : \A k \in Exclusives : Above[k] <= Above[l]

(* Locked, nothing but the lock screen; then the exclusive layer.          *)
Preempted == lock \/ Exclusive # Nobody
Preempter == IF ~lock THEN Exclusive ELSE IF lockSurface THEN LockScreen ELSE Nobody

(* What the intents come to when nothing preempts them.                    *)
Meant(win, dem) == IF dem # Nobody THEN dem ELSE win

(* The surface the seat belongs on: the topmost open menu of a keyboard    *)
(* grab whose root has the focus, or the owner itself.                     *)
SeatOf(target, pop) ==
  IF pop.typing /\ pop.open # <<>> /\ pop.root = target
    THEN Last(pop.open) ELSE target

(* Mutant of Released: the pointer's half of the grab is forgotten.        *)
ReleasedNothing(pop) == {}

(* The pointer release that dropping a grab queues.                        *)
Released(pop) == pop.serials

(* A window is listed at most once.                                        *)
Unlisted(s, x) ==
  IF x \in Range(s) THEN RemoveAt(s, CHOOSE i \in DOMAIN s : s[i] = x) ELSE s

(* Mutant of Remembered: cycling reorders the history as any focus does.   *)
RememberedAlways(target, old, cycling) ==
  IF target \in Windows THEN <<target>> \o Unlisted(old, target) ELSE old

(* A window that gets the focus comes first, unless Alt-Tab went to it.    *)
Remembered(target, old, cycling) ==
  IF target \in Windows /\ ~cycling THEN <<target>> \o Unlisted(old, target) ELSE old

(* reconcile_keyboard_focus, after the step's other assignments; `win` and *)
(* `dem` are the intents the step leaves, `old` the history, `asks` the    *)
(* urgent windows, `pop` the popup grab, `gone` windows that lost their    *)
(* role; cycling leaves the history's order alone.                         *)
Reconcile(win, dem, old, asks, pop, queued, gone, cycling) ==
  LET win1   == IF win \in Visible' THEN win ELSE Nobody
      dem1   == IF dem # Nobody /\ keyboard'[dem] = "on_demand" THEN dem ELSE Nobody
      target == IF Preempted' THEN Preempter' ELSE Meant(win1, dem1)
      leaves == pop.typing /\ target # pop.root
      pop1   == IF leaves THEN NoMenu ELSE pop
      moved  == target # focus /\ (target \in Windows \/ focus \in Windows)
  IN /\ intent' = win1 /\ onDemand' = dem1
     /\ focus' = target
     /\ menu' = pop1
     /\ releasing' = queued \cup (IF leaves THEN Released(pop) ELSE {})
     /\ seat' = SeatOf(target, pop1)
     /\ IF moved
          THEN /\ activated' = ((activated \ {focus}) \cup ({target} \cap Windows)) \ gone
               /\ urgent' = asks \ {target}
               /\ history' = Remembered(target, old, cycling)
          ELSE /\ activated' = activated \ gone
               /\ urgent' = asks /\ history' = old

(* reconcile with nothing but the intents changed by the step.             *)
Settle(win, dem) ==
  Reconcile(win, dem, history, urgent, menu, releasing, {}, FALSE)

(* focus_window: an explicit request forgets the on-demand layer.          *)
FocusWindow(w) == Settle(w, Nobody)

(* Where focus goes when its owner vanished: the last window used among    *)
(* those visible, or with none of them used yet any visible one.           *)
Recent(old, shown) ==
  IF shown \cap Range(old) # {}
    THEN {w \in shown : \E i \in DOMAIN old : old[i] = w /\ \A j \in 1 .. i - 1 : old[j] \notin shown}
    ELSE IF shown # {} THEN shown ELSE {Nobody}

(* repair_keyboard_focus: the intent stands while its window is visible.   *)
(* Otherwise the window under the pointer may take it, then the last used  *)
(* one; a layer's departure names no output and falls back to any.         *)
Repaired(win, old, byLayer) ==
  IF win \in Visible' THEN {win}
  ELSE (IF byLayer THEN (IF Visible' = {} THEN {Nobody} ELSE Visible')
        ELSE Recent(old, Visible'))
       \cup (IF Restless THEN Visible' ELSE {})

Forget(pop, root)  == IF pop.root = root THEN NoMenu ELSE pop
Dropped(pop, root) == IF pop.root = root THEN Released(pop) ELSE {}

-----------------------------------------------------------------------------
(* Windows.  A rule may open one on another workspace, or without focus.   *)
MapWindow(w, d, quiet) ==
  /\ home[w] = 0 /\ home' = [home EXCEPT ![w] = d]
  /\ UNCHANGED <<desk, keyboard, locks, grabbed>>
  /\ IF quiet THEN UNCHANGED <<wants, owner, history, urgent, menu, releasing>>
     ELSE FocusWindow(w)
  /\ walk' = <<>>

CloseWindow(w) ==
  /\ home[w] # 0 /\ home' = [home EXCEPT ![w] = 0]
  /\ UNCHANGED <<desk, keyboard, locks, grabbed>>
  /\ \E next \in Repaired(intent, Unlisted(history, w), FALSE) :
       Reconcile(next, onDemand, Unlisted(history, w), urgent \ {w},
                 Forget(menu, w), releasing \cup Dropped(menu, w), {w}, FALSE)
  /\ walk' = <<>>

(* A workspace switch, or a move of one window, hides and shows windows;   *)
(* the window last used among those visible then takes the focus.          *)
SwitchTo(d) ==
  /\ d # desk /\ desk' = d
  /\ UNCHANGED <<home, keyboard, locks, grabbed>>
  /\ \E next \in Recent(history, Visible') : FocusWindow(next)
  /\ walk' = <<>>

MoveAway(w, d) ==
  /\ w \in Visible /\ d # desk /\ home' = [home EXCEPT ![w] = d]
  /\ UNCHANGED <<desk, keyboard, locks, grabbed>>
  /\ \E next \in Recent(history, Visible') : FocusWindow(next)
  /\ walk' = <<>>

(* An activation with a fresh serial shows the window and focuses it; a    *)
(* stale one marks it urgent, unless it is the window already meant.       *)
Activate(w) ==
  /\ Exclusive = Nobody /\ ~lock /\ home[w] # 0
  /\ desk' = home[w]
  /\ UNCHANGED <<home, keyboard, locks, grabbed>>
  /\ FocusWindow(w)
  /\ walk' = <<>>

MarkUrgent(w) ==
  /\ intent # w /\ home[w] # 0 /\ w \notin urgent
  /\ urgent' = urgent \cup {w}
  /\ UNCHANGED <<desktop, keyboard, locks, wants, owner, history, pops, walk>>

(* cycle_focus: the used windows first, then the others.                   *)
Used(w) == w \in Range(history)
UsedBefore(v, w) ==
  \E i, j \in DOMAIN history : i < j /\ history[i] = v /\ history[j] = w

CycleOrders ==
  {o \in SetToSeqs(Visible) :
     \A i, j \in DOMAIN o : i < j /\ Used(o[j]) => UsedBefore(o[i], o[j])}

NextOf(order) ==
  IF \E i \in DOMAIN order : order[i] = focus /\ i < Len(order)
    THEN order[1 + CHOOSE i \in DOMAIN order : order[i] = focus]
    ELSE Head(order)

Round == IF walk = <<>> /\ focus \in Visible THEN <<focus>> ELSE walk

CycleFocus ==
  /\ Exclusive = Nobody /\ Visible # {}
  /\ UNCHANGED <<desktop, keyboard, locks, grabbed>>
  /\ \E order \in CycleOrders :
       /\ Reconcile(NextOf(order), Nobody, history, urgent, menu, releasing, {}, TRUE)
       /\ walk' = IF lock \/ Len(Round) = Cardinality(Visible) THEN <<>>
                  ELSE Append(Round, NextOf(order))

-----------------------------------------------------------------------------
(* Layer surfaces.                                                         *)
MapLayer(l, k) ==
  /\ keyboard[l] = "unmapped" /\ k # "unmapped"
  /\ keyboard' = [keyboard EXCEPT ![l] = k]
  /\ UNCHANGED <<desktop, locks, grabbed>>
  /\ Settle(intent, IF k = "on_demand" THEN l ELSE onDemand)
  /\ walk' = <<>>

CommitLayer(l, k) ==
  /\ keyboard[l] # "unmapped" /\ k \notin {"unmapped", keyboard[l]}
  /\ keyboard' = [keyboard EXCEPT ![l] = k]
  /\ UNCHANGED <<desktop, locks, grabbed>>
  /\ Settle(intent, onDemand)
  /\ walk' = <<>>

(* A null buffer, the destroyed role, or its output's departure.           *)
UnmapLayer(l) ==
  /\ keyboard[l] # "unmapped" /\ keyboard' = [keyboard EXCEPT ![l] = "unmapped"]
  /\ UNCHANGED <<desktop, locks, grabbed>>
  /\ \E next \in Repaired(intent, history, TRUE) :
       Reconcile(next, IF onDemand = l THEN Nobody ELSE onDemand, history, urgent,
                 Forget(menu, l), releasing \cup Dropped(menu, l), {}, FALSE)
  /\ walk' = <<>>

(* The lock ends whatever grab is live, pointer and menus alike.           *)
LockSession ==
  /\ ~lock /\ lock' = TRUE /\ lockSurface' = FALSE
  /\ grabbed' = Nobody
  /\ UNCHANGED <<desktop, keyboard>>
  /\ Reconcile(intent, onDemand, history, urgent, NoMenu,
               releasing \cup Released(menu), {}, FALSE)
  /\ walk' = <<>>

RegisterLockSurface ==
  /\ lock /\ ~lockSurface /\ lockSurface' = TRUE
  /\ UNCHANGED <<desktop, keyboard, lock, grabbed>>
  /\ Settle(intent, onDemand)
  /\ walk' = <<>>

Unlock ==
  /\ lock /\ lock' = FALSE /\ lockSurface' = FALSE
  /\ UNCHANGED <<desktop, keyboard, grabbed>>
  /\ Settle(intent, onDemand)
  /\ walk' = <<>>

-----------------------------------------------------------------------------
(* The pointer.  A press on a layer focuses it if it takes keys; outside   *)
(* an exclusive layer nothing else does; a menu's own grab does not keep a *)
(* press from moving the focus.                                            *)
Press(t) ==
  /\ ~lock
  /\ \/ /\ t \in Layers /\ keyboard[t] \in {"on_demand", "exclusive"}
        /\ UNCHANGED <<desktop, keyboard, locks, grabbed>>
        /\ Settle(intent, IF keyboard[t] = "on_demand" THEN t ELSE onDemand)
     \/ /\ t \in Visible \cup {Nobody} /\ Exclusive = Nobody
        /\ t = Nobody => menu # NoMenu
        /\ UNCHANGED <<desktop, keyboard, locks, grabbed>>
        /\ FocusWindow(t)
  /\ walk' = <<>>

(* Focus follows the pointer on to a window; unfocus_on_empty lets a window *)
(* lose it over the bare desktop.                                          *)
Hover(w) ==
  /\ Restless /\ grabbed = Nobody /\ Exclusive = Nobody
  /\ IF w = Nobody THEN focus \in Windows ELSE w \in Visible \ {focus}
  /\ UNCHANGED <<desktop, keyboard, locks, grabbed>>
  /\ FocusWindow(w)
  /\ walk' = <<>>

-----------------------------------------------------------------------------
(* Popup grabs.  The root must have the focus, or be a layer that never    *)
(* takes keys (then only the pointer is grabbed); a pointer grabbed for    *)
(* anything but the menu's parent refuses it.                              *)
MayGrab(root) ==
  IF root \in Windows THEN home[root] # 0 /\ focus = root
  ELSE \/ keyboard[root] = "none"
       \/ keyboard[root] \in {"on_demand", "exclusive"} /\ focus = root

OpenMenu(m, root) ==
  /\ m \notin Range(menu.open) \cup releasing \cup {grabbed} /\ MayGrab(root)
  /\ IF menu = NoMenu THEN grabbed = Nobody
     ELSE menu.root = root /\ menu.open # <<>> /\ grabbed \in menu.serials
  /\ grabbed' = m
  /\ UNCHANGED <<desktop, keyboard, locks>>
  /\ Reconcile(intent, onDemand, history, urgent,
       [root |-> root, open |-> Append(menu.open, m),
        typing |-> root \in Windows \/ keyboard[root] # "none",
        serials |-> {m} \cup (IF menu = NoMenu THEN {} ELSE {Last(menu.open)})],
       releasing, {}, FALSE)
  /\ UNCHANGED walk

(* A menu loses its buffer: the topmost one closes alone, any other takes  *)
(* the whole chain with it; an ended grab gives the pointer back.          *)
UnmapMenu(m) ==
  /\ m \in Range(menu.open)
  /\ LET rest == IF Last(menu.open) = m THEN Front(menu.open) ELSE <<>>
     IN /\ grabbed' = IF rest = <<>> /\ grabbed \in menu.serials
                        THEN Nobody ELSE grabbed
        /\ UNCHANGED <<desktop, keyboard, locks>>
        /\ Reconcile(intent, onDemand, history, urgent,
             IF rest = <<>> THEN NoMenu ELSE [menu EXCEPT !.open = rest],
             releasing, {}, FALSE)
  /\ UNCHANGED walk

(* The client destroys its menus outright, or a press elsewhere ends the   *)
(* toolkit's grab: the record stays until the backend's next tick.         *)
MenusDie ==
  /\ menu.open # <<>> /\ menu' = [menu EXCEPT !.open = <<>>]
  /\ seat' = IF seat \in Range(menu.open) THEN Nobody ELSE seat
  /\ UNCHANGED <<desktop, keyboard, locks, wants, focus, activated, history,
                 urgent, grabbed, releasing, walk>>

RefreshGrab ==
  /\ menu # NoMenu /\ menu.open = <<>>
  /\ grabbed' = IF grabbed \in menu.serials THEN Nobody ELSE grabbed
  /\ UNCHANGED <<desktop, keyboard, locks>>
  /\ Reconcile(intent, onDemand, history, urgent, NoMenu, releasing, {}, FALSE)
  /\ UNCHANGED walk

(* The idle callback: the pointer is released if that grab still owns it.  *)
IdleRelease ==
  /\ releasing # {} /\ releasing' = {}
  /\ grabbed' = IF grabbed \in releasing THEN Nobody ELSE grabbed
  /\ UNCHANGED <<desktop, keyboard, locks, wants, owner, history, urgent, menu, walk>>

-----------------------------------------------------------------------------
FoNext ==
  \/ \E w \in Windows :
       \/ \E d \in Desks : MoveAway(w, d) \/ MapWindow(w, d, TRUE) \/ MapWindow(w, d, FALSE)
       \/ CloseWindow(w) \/ Activate(w) \/ MarkUrgent(w)
  \/ \E d \in Desks : SwitchTo(d)
  \/ CycleFocus
  \/ \E l \in Layers : \/ UnmapLayer(l)
                       \/ \E k \in {"none", "on_demand", "exclusive"} :
                            MapLayer(l, k) \/ CommitLayer(l, k)
  \/ LockSession \/ RegisterLockSurface \/ Unlock
  \/ \E t \in Windows \cup Layers \cup {Nobody} : Press(t)
  \/ \E w \in Windows \cup {Nobody} : Hover(w)
  \/ \E m \in Menus : \/ \E r \in Windows \cup Layers : OpenMenu(m, r)
                      \/ UnmapMenu(m)
  \/ MenusDie \/ RefreshGrab \/ IdleRelease

FoFairness == WF_foVars(RefreshGrab) /\ WF_foVars(IdleRelease)

FoSpec == FoInit /\ [][FoNext]_foVars /\ FoFairness

-----------------------------------------------------------------------------
(* Whatever was mapped, hidden, closed, clicked or locked, the owner of the *)
(* keyboard is the one the priorities give now, and a window that owns it   *)
(* can be seen.                                                             *)
OwnerFollowsPriority ==
  /\ focus = IF Preempted THEN Preempter ELSE Meant(intent, onDemand)
  /\ intent # Nobody => intent \in Visible
  /\ onDemand # Nobody => keyboard[onDemand] = "on_demand"

(* The seat, the activated state and the urgency mark agree with the owner: *)
(* keys go to it or to its topmost menu, it alone is told that it is        *)
(* activated, and it no longer asks for attention.  Menus destroyed with    *)
(* the grab are the exception until the backend's tick.                     *)
OneOwner ==
  /\ menu = NoMenu \/ menu.open # <<>> => seat = SeatOf(focus, menu)
  /\ activated = {focus} \cap Windows
  /\ focus \notin urgent

(* A menu that holds the keyboard is one of the owner's.                    *)
MenuBelongsToOwner == menu.typing => menu.root = focus

(* The pointer is never left grabbed for menus nobody tracks any more.      *)
PointerGrabIsOwed ==
  grabbed # Nobody => menu # NoMenu \/ grabbed \in releasing

(* Alt-Tab reaches every visible window once before it comes round, if each *)
(* was focused before: cycling itself does not reorder what it walks.       *)
CycleVisitsAll == Visible \subseteq Range(history) => IsInjective(walk)

(* The keyboard has settled: one owner, by priority, and every menu grab is *)
(* its own, whatever came in between (reconcile_keyboard_focus).            *)
KeyboardSettled ==
  /\ FoTypeOK /\ OwnerFollowsPriority /\ OneOwner /\ MenuBelongsToOwner /\ PointerGrabIsOwed
=============================================================================
