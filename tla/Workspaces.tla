----------------------------- MODULE Workspaces -----------------------------
(***************************************************************************)
(* Windows, workspaces and monitors of the Classic engine: what the user,  *)
(* the clients and the hotplug code may do to the ownership maps, in any   *)
(* order.  The compositor runs one handler at a time, so an action is a    *)
(* whole handler; the hazards lie in the sequences of handlers, of which   *)
(* each keeps a dozen maps consistent by hand.                             *)
(***************************************************************************)
EXTENDS WorkspaceOps

CONSTANTS Numbers,   \* the workspaces the user addresses
          Rules,     \* the window rules that may apply at a map
          Features   \* the optional actions that are enabled

ASSUME NumbersAssumption == Numbers \subseteq Workspace /\ Rules \subseteq Rule

VARIABLES desk,      \* the ownership maps, see WorkspaceOps
          wantsPin,  \* the windows the user wants pinned (a history variable)
          stray      \* hidden windows that may still hold the keyboard focus

vars == <<desk, wantsPin, stray>>

\* No window, every output lit, workspace 1 everywhere.
Init ==
    /\ desk = [live |-> Output, active |-> [o \in Output |-> 1],
               mapped |-> {}, tile |-> <<>>, tag |-> <<>>, over |-> <<>>,
               pinned |-> {}, pseudo |-> {}, shown |-> {},
               full |-> <<>>, maxi |-> <<>>, groups |-> {}, pin |-> <<>>]
    /\ wantsPin = {}
    /\ stray = {}

\* A keyboard action aims at the focused window: any visible one, by a click.
Aimable == desk.shown \cup stray

\* What the code does to a tab it takes for a plain window is a feature of its
\* own: several of its operations forget the group.
Plainly(w) == "tabModes" \in Features \/ ~IsGrouped(desk, w)

\* A handler that leaves the user's pins alone and settles the focus.
Becomes(d) == desk' = d /\ wantsPin' = wantsPin /\ stray' = {}

-----------------------------------------------------------------------------
(* The user *)

SwitchWorkspace(o, n) == Becomes(Switch(desk, o, n))
SendToWorkspace(w, n) == Becomes(MoveToWorkspace(desk, w, n))
SendToMonitor(w, to) == Becomes(MoveWindowToMonitor(desk, w, to))
DropOnMonitor(w, to) == Becomes(DropTile(desk, w, to))
SendWorkspace(from, to) == Becomes(MoveWorkspace(desk, from, to))
SwapWorkspaces(a, b) == Becomes(Swap(desk, a, b))

\* Tiling a window gives up its pin.
FloatWindow(w, o) ==
    /\ "floats" \in Features
    /\ desk' = ToggleFloating(desk, w, o)
    /\ wantsPin' = IF IsTiled(desk', w) THEN wantsPin \ {w} ELSE wantsPin
    /\ stray' = {}

PinWindow(w, o) ==
    /\ "pins" \in Features
    /\ desk' = TogglePin(desk, w, o)
    /\ wantsPin' = IF w \in wantsPin THEN wantsPin \ {w} ELSE wantsPin \cup {w}
    /\ stray' = {}

PseudoTile(w) == "modes" \in Features /\ Becomes(TogglePseudo(desk, w))
PinToMonitor(w) == "outputPins" \in Features /\ Becomes(ToggleOutputPin(desk, w))

\* A floater pushed by the keyboard, and one dropped by the pointer.
NudgeFloat(w, o) ==
    /\ "nudges" \in Features /\ ~IsTiled(desk, w) /\ ~IsFull(desk, w) /\ ~IsMaxi(desk, w)
    /\ Becomes(Nudge(desk, w, o))
DropFloat(w, o) ==
    /\ ~IsTiled(desk, w) /\ ~IsFull(desk, w) /\ ~IsMaxi(desk, w)
    /\ Becomes(SyncFloating(Nudge(desk, w, o), w))

JoinGroup(a, b) == "tabs" \in Features /\ Becomes(GroupWith(desk, a, b))
LeaveTabs(w) == "tabs" \in Features /\ Becomes(Ungroup(desk, w))
NextTab(w, forward) == "tabs" \in Features /\ Becomes(CycleTab(desk, w, forward))

User ==
    \/ \E w \in Aimable :
         \/ PinToMonitor(w) \/ LeaveTabs(w)
         \/ \E forward \in BOOLEAN : NextTab(w, forward)
         \/ \E b \in desk.shown : JoinGroup(w, b)
         \/ \E o \in desk.live : SendToMonitor(w, o) \/ DropOnMonitor(w, o)
    \/ \E w \in {x \in Aimable : Plainly(x)} :
         \/ PseudoTile(w)
         \/ \E n \in Numbers : SendToWorkspace(w, n)
         \/ \E o \in desk.live : FloatWindow(w, o) \/ PinWindow(w, o)
    \/ \E w \in desk.shown, o \in desk.live : NudgeFloat(w, o) \/ DropFloat(w, o)
    \/ \E o \in desk.live, n \in Numbers : SwitchWorkspace(o, n)
    \/ \E a, b \in desk.live : SendWorkspace(a, b) \/ SwapWorkspaces(a, b)

-----------------------------------------------------------------------------
(* The clients, of which other windows' taskbars are some *)

RequestFullscreen(w, o) ==
    /\ w \in desk.mapped \/ "earlyFullscreen" \in Features
    /\ o \in FullscreenOutputs(desk, w) /\ Plainly(w)
    /\ Becomes(Fullscreen(desk, w, o))
RequestUnfullscreen(w) == Becomes(Unfullscreen(desk, w))

RequestMaximize(w, o) ==
    /\ o = IF Live(desk, Preferred(desk, w)) # NoOutput THEN Preferred(desk, w) ELSE o
    /\ "modes" \in Features /\ Plainly(w)
    /\ Becomes(Maximize(desk, w, o))
RequestUnmaximize(w) == Becomes(Unmaximize(desk, w))

\* A commit of a visible floater settles which output owns it.
CommitFloat(w) == Becomes(SyncFloating(desk, w))

ActivateWindow(w) == w \in desk.mapped /\ Becomes(Activate(desk, w))

MapWindow(w, o, n, rule) ==
    /\ w \notin desk.mapped
    /\ o = IF IsFull(desk, w) /\ desk.full[w].output \in desk.live
           THEN desk.full[w].output ELSE o
    /\ desk' = Map(desk, w, o, n, rule)
    /\ wantsPin' = IF rule.placed = "pin" THEN wantsPin \cup {w} ELSE wantsPin
    /\ stray' = {}

UnmapWindow(w) ==
    /\ w \in desk.mapped \/ IsFull(desk, w)
    /\ desk' = Unmap(desk, w)
    /\ wantsPin' = wantsPin \ {w}
    /\ stray' = {}

Client ==
    \E w \in Window :
      \/ RequestUnfullscreen(w) \/ RequestUnmaximize(w)
      \/ CommitFloat(w) \/ ActivateWindow(w) \/ UnmapWindow(w)
      \/ \E o \in desk.live :
           \/ RequestFullscreen(w, o) \/ RequestMaximize(w, o)
           \/ \E n \in Numbers, rule \in Rules : MapWindow(w, o, n, rule)

-----------------------------------------------------------------------------
(* Hotplug *)

\* The focus is repaired after a display left, but not after one came.
ConnectOutput(o) ==
    /\ LET lit == [desk EXCEPT !.live = @ \cup {o}]
       IN \E orphaned \in SetToSeqs(Owned(lit) \ lit.live) :
            LET e == Adopt(lit, o, orphaned)
            IN \E displaced \in SetToSeqs(Displaced(e, o)) : desk' = Recall(e, o, displaced)
    /\ wantsPin' = wantsPin
    /\ stray' = IF "staleFocus" \in Features THEN desk.shown \ desk'.shown ELSE {}

DisconnectOutput(o, fallback) == Becomes(Disconnect(desk, o, fallback))

Hotplug ==
    /\ "hotplug" \in Features
    /\ \/ \E o \in Output \ desk.live : ConnectOutput(o)
       \/ \E o \in desk.live :
            IF desk.live = {o} THEN DisconnectOutput(o, NoOutput)
            ELSE \E fallback \in desk.live \ {o} : DisconnectOutput(o, fallback)

Next == User \/ Client \/ Hotplug

Spec == Init /\ [][Next]_vars

-----------------------------------------------------------------------------
(* Properties *)

Home(w) ==
    IF IsTiled(desk, w) THEN desk.tile[w]
    ELSE IF IsTagged(desk, w) THEN desk.tag[w]
    ELSE GroupOf(desk, w).home

\* The maps have the types of the code.
TypeOK ==
    /\ desk.live \subseteq Output /\ desk.active \in [Output -> Workspace]
    /\ desk.mapped \subseteq Window /\ desk.shown \subseteq Window
    /\ desk.pinned \subseteq Window /\ desk.pseudo \subseteq Window
    /\ \A f \in {desk.tile, desk.tag} : f \in [DOMAIN f -> Key] /\ DOMAIN f \subseteq Window
    /\ \A f \in {desk.over, desk.maxi, desk.pin} :
         f \in [DOMAIN f -> Output] /\ DOMAIN f \subseteq Window
    /\ desk.full \in [DOMAIN desk.full -> FullscreenEntry]
    /\ DOMAIN desk.full \subseteq Window
    /\ \A g \in desk.groups :
         /\ g.members \in Seq(Window) /\ g.home \in Key
         /\ Len(g.members) > 1 /\ g.active \in 1 .. Len(g.members)
    /\ wantsPin \subseteq Window /\ stray \subseteq Window

\* A mapped window is owned exactly once: by a tree, by a floating tag or by
\* the one group that parks it.  Nothing else owns anything.
OneHome ==
    \A w \in Window :
      LET owners == (IF IsTiled(desk, w) THEN 1 ELSE 0)
                    + (IF IsTagged(desk, w) THEN 1 ELSE 0)
                    + Cardinality({g \in desk.groups : w \in ParkedIn(g)})
      IN owners = IF w \in desk.mapped THEN 1 ELSE 0

\* toggle_floating's comment: "a hidden workspace's windows are never mapped".
\* On a lit output a window is visible exactly if its workspace is the active
\* one or it is pinned; a parked tab never is.
VisibleIsActive ==
    /\ desk.shown \subseteq desk.mapped \ Parked(desk)
    /\ \A w \in desk.mapped \ Parked(desk) :
         LET k == IF IsTiled(desk, w) THEN desk.tile[w] ELSE desk.tag[w] IN
         k[1] \in desk.live => (w \in desk.shown <=> IsActive(desk, k) \/ w \in desk.pinned)

\* The visible tab of a group holds the leaf (the doc of WindowGroup.active:
\* "whichever one currently occupies the tree leaf"), and the leaf stands where
\* the group says: activation switches to the home of the group, and a tab that
\* leaves it is inserted there.
GroupAtLeaf ==
    \A g \in desk.groups :
      IsTiled(desk, ActiveTab(g)) /\ desk.tile[ActiveTab(g)] = g.home

\* assert_state_invariants, one assertion each.
PinnedFloats == \A w \in desk.pinned : IsTagged(desk, w)
PinSuspended == desk.pinned \cap DOMAIN desk.full = {}
PseudoTiled == \A w \in desk.pseudo : IsTiled(desk, w)
MaximizedOwned ==
    \A w \in DOMAIN desk.maxi : IsTagged(desk, w) /\ desk.tag[w][1] = desk.maxi[w]
FullscreenOwned ==
    \A w \in DOMAIN desk.full :
      w \in desk.mapped /\ Preferred(desk, w) # NoOutput
        => Preferred(desk, w) = desk.full[w].output
OneFullscreen ==
    \A v, w \in DOMAIN desk.full : desk.full[v].output = desk.full[w].output => v = w
\* A mode lies on a lit monitor, so that a new owner of the monitor can end it.
ModesLive ==
    desk.live # {} =>
      \A w \in Window : /\ IsFull(desk, w) => desk.full[w].output \in desk.live
                        /\ IsMaxi(desk, w) => desk.maxi[w] \in desk.live

\* A pin the user asked for survives fullscreen, demotion by another window,
\* migration and recall, until the user takes it back, tiles the window or
\* the window goes away; and no window is pinned that nobody pinned.
PinIntent ==
    wantsPin = desk.pinned \cup {w \in DOMAIN desk.full : desk.full[w].wasPinned}

\* The modes of a window agree with its place (assert_state_invariants), and
\* with what the user asked for.
ModesAgree ==
    /\ PinnedFloats /\ PinSuspended /\ PseudoTiled /\ PinIntent
    /\ MaximizedOwned /\ FullscreenOwned /\ OneFullscreen /\ ModesLive

\* While any output is lit, nothing lives on one that is not: no window, and no
\* group with its parked tabs, is left where no action can reach it.
HomesLive ==
    desk.live # {} =>
      /\ \A w \in Window : /\ IsTiled(desk, w) => desk.tile[w][1] \in desk.live
                           /\ IsTagged(desk, w) => desk.tag[w][1] \in desk.live
      /\ \A g \in desk.groups : g.home[1] \in desk.live

\* Every window has one home, and one a user can reach, whatever the windows,
\* the rules and the hotplug do.
WindowsHeld == TypeOK /\ OneHome /\ HomesLive

\* A workspace that is sent to another monitor, or swapped with one, arrives
\* whole and alone: windows that shared a workspace still do, and windows that
\* did not still do not.  Pinned windows belong to no workspace.
Transfer == \E a, b \in desk.live : SendWorkspace(a, b) \/ SwapWorkspaces(a, b)
StayTogether ==
    \A v, w \in (desk.mapped \cap desk'.mapped) \ (desk.pinned \cup desk'.pinned) :
      (Home(v) = Home(w)) <=> (Home(v) = Home(w))'
WorkspaceMovesWhole == [][StayTogether \/ ~Transfer]_vars
=============================================================================
