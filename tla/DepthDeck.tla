----------------------------- MODULE DepthDeck -----------------------------
(***************************************************************************)
(* The Classic engine's Depth Deck at work: tiled windows are parked below *)
(* their workspace and recalled, while windows map and close, workspaces   *)
(* move, outputs come and go and other clients activate parked windows.    *)
(* The handlers are in src/src/tide_core/state/groups_depth.rs; the deck   *)
(* itself is the value of DeckOps.  The layout is abstracted to the set of *)
(* tiles of each workspace: where a leaf sits is the subject of Layouts.   *)
(***************************************************************************)
EXTENDS DeckOps

CONSTANTS NoWindow,   \* no window has the focus
          NoOverlay   \* the picker is not drawn

VARIABLES
    enabled,  \* config.classic_depth.enabled
    deck,     \* spatial.workspaces.classic_depth
    overlay,  \* depth_deck_overlay: what the user sees of the deck
    tiles,    \* [Output -> [Workspace -> SUBSET Window]], the trees of Layouts
    active,   \* [Output -> Workspace], Layouts.active_workspace
    live,     \* the outputs mapped in Space
    exempt,   \* grouped, fullscreen or pseudo-tiled windows: not to be parked
    focus     \* the focused window or NoWindow

vars == <<enabled, deck, overlay, tiles, active, live, exempt, focus>>

Overlay == [output : Output, ws : Workspace, titles : Seq(Window), selected : Nat]

ASSUME NoWindowAssumption == NoWindow \notin Window

TypeOK ==
    /\ enabled \in BOOLEAN
    /\ deck \in Deck
    /\ overlay \in Overlay \cup {NoOverlay}
    /\ tiles \in [Output -> [Workspace -> SUBSET Window]]
    /\ active \in [Output -> Workspace]
    /\ live \in SUBSET Output
    /\ exempt \in SUBSET Window
    /\ focus \in Window \cup {NoWindow}

Init ==
    /\ enabled \in BOOLEAN
    /\ deck = EmptyDeck
    /\ overlay = NoOverlay
    /\ tiles = [o \in Output |-> [s \in Workspace |-> {}]]
    /\ active \in {f \in [Output -> Workspace] : \A o, p \in Output : f[o] = f[p]}
    /\ live = Output
    /\ exempt = {}
    /\ focus = NoWindow

-----------------------------------------------------------------------------
TiledAt(w, o, s) == w \in tiles[o][s]
Tiled(w) == \E o \in Output, s \in Workspace : TiledAt(w, o, s)
Mapped(w) == Tiled(w) \/ w \in Parked(deck)
TileSlot(w) == CHOOSE p \in Output \X Workspace : TiledAt(w, p[1], p[2])

\* preferred_output_for_toplevel: tiles and deck entries alike.
OwnedBy(o) == {w \in Window : \/ \E s \in Workspace : TiledAt(w, o, s)
                              \/ \E i \in DOMAIN deck.entries : /\ deck.entries[i].win = w
                                                                /\ deck.entries[i].output = o}

\* An output has one fullscreen window at most: when another one arrives, the
\* one it has is demoted (do_unfullscreen).
Demoted(o) == {exempt} \cup {exempt \ {w} : w \in exempt \cap OwnedBy(o)}

Visible(t, a, o) == t[o][a[o]]

\* refocus_after_hide: a window still shown on the output, or nothing.
Refocus(t, a, o) ==
    IF o \in live /\ Visible(t, a, o) # {} THEN Visible(t, a, o) ELSE {NoWindow}

\* The output the focused window is on, or any: the pointer's.
PrimaryOutput(o) ==
    /\ o \in live
    /\ \/ focus # NoWindow /\ \E s \in Workspace : TiledAt(focus, o, s)
       \/ focus = NoWindow

Closed(d) == /\ deck' = Close(d)
             /\ overlay' = NoOverlay

\* rebuild_depth_deck_overlay: redraw the picker from the deck.
Redrawn(d) ==
    IF d.view = NoView \/ d.view.output \notin live
    THEN NoOverlay
    ELSE [output |-> d.view.output, ws |-> d.view.ws,
          titles |-> [i \in DOMAIN EntriesFor(d, d.view.output, d.view.ws) |->
                        EntriesFor(d, d.view.output, d.view.ws)[i].win],
          selected |-> d.view.selected]

\* Mutant of MaySink: the exclusions are forgotten.
MaySinkAnyTile(w) == w # NoWindow /\ Tiled(w)

\* The deck only ever takes an ordinary focused tile.
MaySink(w) == /\ w # NoWindow
              /\ Tiled(w)
              /\ w \notin exempt

-----------------------------------------------------------------------------
(* The actions a user binds to keys *)

SinkTile(w, o, s) ==
    /\ tiles' = [tiles EXCEPT ![o][s] = @ \ {w}]
    /\ Closed(Park(deck, [win |-> w, output |-> o, ws |-> s]))
    /\ focus' \in Refocus(tiles', active, o)
    /\ UNCHANGED <<enabled, active, live, exempt>>

SinkWindow ==
    /\ enabled
    /\ MaySink(focus)
    /\ LET p == TileSlot(focus) IN SinkTile(focus, p[1], p[2])

\* Opens the picker, or closes an open one.
Dive ==
    /\ enabled
    /\ IF deck.view # NoView
       THEN Closed(deck)
       ELSE \E o \in live :
              /\ PrimaryOutput(o)
              /\ Count(deck.entries, o, active[o]) # 0
              /\ deck' = Open(deck, o, active[o])
              /\ overlay' = Redrawn(deck')
    /\ UNCHANGED <<enabled, tiles, active, live, exempt, focus>>

CycleDepthDeck(delta) ==
    /\ enabled
    /\ deck.view # NoView
    /\ deck' = Cycle(deck, delta)
    /\ overlay' = Redrawn(deck')
    /\ UNCHANGED <<enabled, tiles, active, live, exempt, focus>>

DepthCancel ==
    /\ deck.view # NoView \/ overlay # NoOverlay
    /\ Closed(deck)
    /\ UNCHANGED <<enabled, tiles, active, live, exempt, focus>>

\* depth-down and depth-up rotate the focused tile through its workspace's
\* deck; with an empty deck, depth-down parks it if another tile remains.
SwitchDepth(down) ==
    /\ enabled
    /\ MaySink(focus)
    /\ LET o == TileSlot(focus)[1]
           s == TileSlot(focus)[2]
       IN IF Count(deck.entries, o, s) = 0
          THEN /\ down
               /\ Cardinality(tiles[o][s]) > 1
               /\ SinkTile(focus, o, s)
          ELSE LET up == deck.entries[RotateChosen(deck, o, s, down)].win IN
               /\ Closed(Rotate(deck, o, s, [win |-> focus, output |-> o, ws |-> s], down))
               /\ tiles' = [tiles EXCEPT ![o][s] = (@ \ {focus}) \cup {up}]
               /\ focus' = up
               /\ UNCHANGED <<enabled, active, live, exempt>>

\* Recall: swap with the focused tile of the deck's own workspace, else
\* insert the selected window as one more tile.
CanSwap(w) == /\ MaySink(w)
              /\ TiledAt(w, deck.view.output, deck.view.ws)

SelectDepthDeck ==
    /\ enabled
    /\ deck.view # NoView
    /\ LET o == deck.view.output
           s == deck.view.ws
           up == SelectedEntry(deck)
       IN /\ up # NoEntry
          /\ IF CanSwap(focus)
             THEN /\ Closed(SwapSelected(deck, [win |-> focus, output |-> o, ws |-> s]))
                  /\ tiles' = [tiles EXCEPT ![o][s] = (@ \ {focus}) \cup {up.win}]
             ELSE /\ Closed(TakeSelected(deck))
                  /\ tiles' = [tiles EXCEPT ![up.output][up.ws] = @ \cup {up.win}]
          /\ focus' = up.win
    /\ UNCHANGED <<enabled, active, live, exempt>>

-----------------------------------------------------------------------------
(* Everything else that happens to windows *)

MapWindow(w, o) ==
    /\ ~Mapped(w)
    /\ o \in live
    /\ tiles' = [tiles EXCEPT ![o][active[o]] = @ \cup {w}]
    /\ focus' = w
    /\ UNCHANGED <<enabled, deck, overlay, active, live, exempt>>

\* detach_mapped_toplevel; a closed parked window takes the picker with it.
CloseWindow(w) ==
    /\ Mapped(w)
    /\ IF w \in Parked(deck)
       THEN Closed(Remove(deck, w))
       ELSE UNCHANGED <<deck, overlay>>
    /\ tiles' = [o \in Output |-> [s \in Workspace |-> tiles[o][s] \ {w}]]
    /\ exempt' = exempt \ {w}
    /\ IF focus = w
       THEN focus' \in IF Tiled(w) THEN Refocus(tiles', active, TileSlot(w)[1])
                       ELSE {NoWindow}
       ELSE focus' = focus
    /\ UNCHANGED <<enabled, active, live>>

\* activate_toplevel: a client or a tool asks for w.  A parked window is put
\* back in its tree first; the picker is not redrawn.  Then the window's
\* workspace is shown, which closes the picker, unless it is shown already.
ActivateToplevel(w) ==
    /\ Mapped(w)
    /\ \E o \in Output, s \in Workspace :
         /\ \/ TiledAt(w, o, s) /\ UNCHANGED tiles
            \/ /\ \E i \in DOMAIN deck.entries :
                    deck.entries[i] = [win |-> w, output |-> o, ws |-> s]
               /\ tiles' = [tiles EXCEPT ![o][s] = @ \cup {w}]
         /\ IF active[o] # s /\ o \in live
            THEN /\ active' = [active EXCEPT ![o] = s]
                 /\ Closed(Remove(deck, w))
            ELSE /\ active' = active
                 /\ deck' = Remove(deck, w)
                 /\ overlay' = overlay
    /\ focus' = w
    /\ UNCHANGED <<enabled, live, exempt>>

\* fullscreen_request: any mapped window becomes fullscreen, a parked one too
\* (mapped_toplevel_window knows the deck), in place of its output's.
FullscreenRequest(w) ==
    /\ live # {}
    /\ \E o \in Output :
         /\ w \in OwnedBy(o)
         /\ \E rest \in Demoted(o) : exempt' = rest \cup {w}
    /\ UNCHANGED <<enabled, deck, overlay, tiles, active, live, focus>>

\* do_unfullscreen, on behalf of any client or key; the focused tile leaves
\* its group or pseudo-tiling the same way.
Unfullscreen(w) ==
    /\ w \in exempt
    /\ exempt' = exempt \ {w}
    /\ UNCHANGED <<enabled, deck, overlay, tiles, active, live, focus>>

\* The focused tile joins a group or becomes pseudo-tiled.
SetAside(w) ==
    /\ focus = w
    /\ Tiled(w)
    /\ w \notin exempt
    /\ exempt' = exempt \cup {w}
    /\ UNCHANGED <<enabled, deck, overlay, tiles, active, live, focus>>

FocusTile(w) ==
    /\ w # focus
    /\ \E o \in live : w \in Visible(tiles, active, o)
    /\ focus' = w
    /\ UNCHANGED <<enabled, deck, overlay, tiles, active, live, exempt>>

SwitchWorkspace(o, s) ==
    /\ o \in live
    /\ s # active[o]
    /\ active' = [active EXCEPT ![o] = s]
    /\ Closed(deck)
    /\ focus' \in Refocus(tiles, active', o)
    /\ UNCHANGED <<enabled, tiles, live, exempt>>

\* move_workspace_to_monitor: the active workspace of `from` moves, parked
\* windows included, into a vacant slot of `to`, which becomes active there.
Vacant(o, s) == tiles[o][s] = {} /\ Count(deck.entries, o, s) = 0

MoveWorkspaceToMonitor(from, to, t) ==
    /\ {from, to} \subseteq live /\ from # to
    /\ PrimaryOutput(from)
    /\ Vacant(to, t)
    /\ IF Vacant(to, active[from]) THEN t = active[from]
       ELSE \A u \in Workspace : Vacant(to, u) => t <= u
    /\ LET s == active[from] IN
       /\ tiles' = [tiles EXCEPT ![from][s] = {}, ![to][t] = tiles[from][s]]
       /\ Closed(MoveWorkspace(deck, from, s, to, t))
       /\ active' = [active EXCEPT ![to] = t]
       /\ focus' \in IF focus \in tiles[from][s] THEN {focus} ELSE Refocus(tiles', active', to)
    /\ exempt' \in Demoted(to)
    /\ UNCHANGED <<enabled, live>>

\* migrate_output_windows: every owner of `from` is retagged, workspace
\* numbers unchanged.
Migrated(from, to) ==
    /\ tiles' = [tiles EXCEPT ![from] = [s \in Workspace |-> {}],
                              ![to] = [s \in Workspace |-> @[s] \cup tiles[from][s]]]
    /\ deck' = MigrateOutput(deck, from, to)

DisconnectOutput(o) ==
    /\ o \in live
    /\ live' = live \ {o}
    /\ IF live' = {}
       THEN /\ UNCHANGED <<tiles, deck, exempt>>
            /\ focus' = NoWindow
       ELSE \E to \in live' :
              /\ Migrated(o, to)
              /\ exempt' \in Demoted(to)
              /\ focus' \in IF \E p \in live' : focus \in Visible(tiles', active, p)
                            THEN {focus}
                            ELSE Visible(tiles', active, to) \cup {NoWindow}
    /\ UNCHANGED <<enabled, overlay, active>>

\* adopt_orphaned_output_windows: a first output after none takes over all
\* that the vanished ones still own, one vanished output after the other.
ConnectOutput(o) ==
    LET gone == Output \ (live \cup {o}) IN
    /\ o \notin live
    /\ live' = live \cup {o}
    /\ tiles' = [p \in Output |-> [s \in Workspace |->
                   IF p = o THEN tiles[o][s] \cup UNION {tiles[q][s] : q \in gone}
                   ELSE IF p \in gone THEN {}
                   ELSE tiles[p][s]]]
    /\ deck' = AdoptOutputs(deck, gone, o)
    /\ exempt' \in SUBSET exempt
    /\ UNCHANGED <<enabled, overlay, active, focus>>

\* restore_all_depth_deck_windows: turning the feature off, or leaving the
\* Classic engine, puts every parked window back in its own tree.
ReloadConfig(on) ==
    /\ enabled # on
    /\ enabled' = on
    /\ IF on
       THEN UNCHANGED <<deck, overlay, tiles>>
       ELSE /\ tiles' = [o \in Output |-> [s \in Workspace |->
                           tiles[o][s] \cup {e.win : e \in {deck.entries[i] :
                               i \in SlotsOf(deck.entries, o, s)}}]]
            /\ deck' = Drain(deck)
            /\ overlay' = NoOverlay
    /\ UNCHANGED <<active, live, exempt, focus>>

Next ==
    \/ SinkWindow
    \/ Dive
    \/ \E delta \in {1, -1} : CycleDepthDeck(delta)
    \/ DepthCancel
    \/ \E down \in BOOLEAN : SwitchDepth(down)
    \/ SelectDepthDeck
    \/ \E w \in Window, o \in Output : MapWindow(w, o)
    \/ \E w \in Window : CloseWindow(w)
    \/ \E w \in Window : ActivateToplevel(w)
    \/ \E w \in Window : FullscreenRequest(w) \/ Unfullscreen(w) \/ SetAside(w)
    \/ \E w \in Window : FocusTile(w)
    \/ \E o \in Output, s \in Workspace : SwitchWorkspace(o, s)
    \/ \E from, to \in Output, t \in Workspace : MoveWorkspaceToMonitor(from, to, t)
    \/ \E o \in Output : DisconnectOutput(o)
    \/ \E o \in Output : ConnectOutput(o)
    \/ \E on \in BOOLEAN : ReloadConfig(on)

Spec == Init /\ [][Next]_vars

-----------------------------------------------------------------------------
(* What must hold *)

\* A window is owned once: it is a tile of one workspace, or it holds one deck
\* slot, never both and never two.  Losing one would strand a client no key
\* can reach; owning one twice would show it in two places.
OwnedOnce ==
    /\ \A o, p \in Output, s, t \in Workspace :
         tiles[o][s] \cap tiles[p][t] # {} => <<o, s>> = <<p, t>>
    /\ \A i, j \in DOMAIN deck.entries :
         deck.entries[i].win = deck.entries[j].win => i = j
    /\ \A w \in Parked(deck) : ~Tiled(w)

\* An open picker points at an entry that exists, whatever closed, moved or
\* was activated while it was open (clamp_view).
ViewSelectsEntry ==
    deck.view # NoView =>
        deck.view.selected < Count(deck.entries, deck.view.output, deck.view.ws)

\* A feature that is off holds no window (hot-disabling strands nobody).
DisabledHoldsNothing == ~enabled => deck = EmptyDeck

\* Nothing is parked but what the user sinks: of all steps, whatever clients
\* request meanwhile, one parks at most the focused window, an ordinary tile,
\* and only while the deck is on; switched off, it holds nothing.
ParkedOnPurpose ==
    /\ []DisabledHoldsNothing
    /\ [][ \A w \in Parked(deck)' \ Parked(deck) :
             enabled /\ w = focus /\ Tiled(w) /\ w \notin exempt ]_vars

\* No step but a close loses a window, and none but a map adds one: rotation,
\* recall, workspace moves, hotplug and hot-disabling conserve windows.
WindowsOf == {w \in Window : Mapped(w)}
Conserved ==
    [][ \/ WindowsOf' = WindowsOf
        \/ \E w \in Window : WindowsOf' \in {WindowsOf \cup {w}, WindowsOf \ {w}}
                             /\ (MapWindow(w, TileSlot(w)'[1]) \/ CloseWindow(w)) ]_vars

\* depth-up is the inverse of depth-down: taking the step back restores the
\* tile and the order of the workspace's deck (the doc comment of `rotate`).
RotationInverse ==
    [][ LET o == TileSlot(focus)[1]
            s == TileSlot(focus)[2]
        IN \A down \in BOOLEAN :
             ( deck' # deck /\ SwitchDepth(down) /\ Count(deck.entries, o, s) # 0 )
             => LET e == [win |-> focus', output |-> o, ws |-> s]
                    back == Rotate(deck', o, s, e, ~down)
                IN /\ deck'.entries[RotateChosen(deck', o, s, ~down)].win = focus
                   /\ EntriesFor(back, o, s) = EntriesFor(deck, o, s) ]_vars

\* Recall brings up the window the picker highlights (SPATIAL_MODEL.md: "the
\* chosen window swaps into that tile").
RecallsHighlighted ==
    [][ (SelectDepthDeck /\ overlay # NoOverlay)
          => focus' = overlay.titles[overlay.selected + 1] ]_vars
=============================================================================
