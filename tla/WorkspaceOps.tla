---------------------------- MODULE WorkspaceOps ----------------------------
(***************************************************************************)
(* Who owns a window: the ownership maps of the Classic engine as one      *)
(* value, and the operations of the handlers on it.                        *)
(*                                                                         *)
(* A desk is a record with                                                 *)
(*   live    the outputs mapped in Space                                   *)
(*   active  the active workspace of every output                          *)
(*   mapped  the windows the client has mapped: not in unmapped_toplevels  *)
(*   tile    window -> key: the owner index of Layouts                     *)
(*   tag     window -> key: floating_workspace                             *)
(*   over    window -> output: where most of a floating rectangle lies     *)
(*   pinned, pseudo, shown   pinned, pseudo_tiled, the elements of Space   *)
(*   full    window -> FullscreenEntry, for unmapped windows too           *)
(*   maxi    window -> the output of its MaximizedEntry                    *)
(*   groups  the window groups                                             *)
(*   pin     window -> output: output_pins                                 *)
(* A key is a pair <<output, workspace>>.  Rectangles are left out but for *)
(* the output they lie on.  A map without an entry for a window is a       *)
(* function without that window in its domain.                             *)
(***************************************************************************)
EXTENDS Naturals, Sequences, FiniteSets, SequencesExt, FiniteSetsExt

CONSTANTS Output, Window,
          Normal,   \* workspaces 1 .. N
          Scratch,  \* the reserved numbers of scratchpads
          NoOutput

ASSUME NormalAssumption ==
    IsFiniteSet(Normal) /\ Normal # {} /\ Normal = 1 .. Cardinality(Normal)
ASSUME FiniteAssumption == IsFiniteSet(Output) /\ IsFiniteSet(Window)
ASSUME ScratchAssumption == Scratch \cap Normal = {} /\ NoOutput \notin Output

Workspace == Normal \cup Scratch
Key == Output \X Workspace

FullscreenEntry ==
    [output : Output, wasPinned : BOOLEAN, pinFloated : BOOLEAN, hasRect : BOOLEAN]
WindowGroup == [members : Seq(Window), active : Nat \ {0}, home : Key]

Put(f, x, v) == [y \in DOMAIN f \cup {x} |-> IF y = x THEN v ELSE f[y]]
Drop(f, S) == Restrict(f, DOMAIN f \ S)

-----------------------------------------------------------------------------
(* Where a window is *)

IsTiled(d, w) == w \in DOMAIN d.tile
IsTagged(d, w) == w \in DOMAIN d.tag
IsFull(d, w) == w \in DOMAIN d.full
IsMaxi(d, w) == w \in DOMAIN d.maxi

Members(g) == Range(g.members)
ActiveTab(g) == g.members[g.active]
IsGrouped(d, w) == \E g \in d.groups : w \in Members(g)
GroupOf(d, w) == CHOOSE g \in d.groups : w \in Members(g)

\* The members whose handle only the group holds.
ParkedIn(g) == Members(g) \ {ActiveTab(g)}
Parked(d) == UNION {ParkedIn(g) : g \in d.groups}

IsActive(d, k) == d.active[k[1]] = k[2]
ActiveKey(d, o) == <<o, d.active[o]>>

Live(d, o) == IF o \in d.live THEN o ELSE NoOutput

\* rendered_output_for_surface: where most of a shown window is drawn.
Rendered(d, w) ==
    IF w \notin d.shown THEN NoOutput
    ELSE Live(d, IF IsTiled(d, w) THEN d.tile[w][1]
                 ELSE IF IsFull(d, w) THEN d.full[w].output
                 ELSE IF IsMaxi(d, w) THEN d.maxi[w]
                 ELSE d.over[w])

\* preferred_output_for_toplevel, without the pointer's say over a window
\* that straddles two outputs.
Preferred(d, w) ==
    IF Rendered(d, w) # NoOutput THEN Rendered(d, w)
    ELSE IF IsTiled(d, w) THEN d.tile[w][1]
    ELSE IF IsTagged(d, w) THEN d.tag[w][1]
    ELSE NoOutput

\* retile: every tile of an active workspace is mapped; nothing is unmapped.
Retile(d) ==
    [d EXCEPT !.shown = @ \cup {w \in DOMAIN d.tile :
                                  d.tile[w][1] \in d.live /\ IsActive(d, d.tile[w])}]

Tiled(d, w, k) == [d EXCEPT !.tile = Put(@, w, k)]
Tagged(d, w, k) == [d EXCEPT !.tag = Put(@, w, k)]
Hidden(d, S) == [d EXCEPT !.shown = @ \ S]
Shown(d, S) == [d EXCEPT !.shown = @ \cup S]

-----------------------------------------------------------------------------
(* Fullscreen and maximized *)

\* A window that is still tiled falls back into its slot; any other gets its
\* rectangle, and its pin, back.
Unfullscreen(d, w) ==
    IF ~IsFull(d, w) THEN d
    ELSE LET was == d.full[w].wasPinned
             e == [d EXCEPT !.full = Drop(@, {w})]
         IN Retile(
              IF IsTiled(d, w) THEN [e EXCEPT !.maxi = Drop(@, {w})]
              ELSE [e EXCEPT !.shown = IF was /\ IsTagged(d, w) THEN @ \cup {w} ELSE @,
                             !.pinned = IF was THEN @ \cup {w} ELSE @])

\* The fullscreen window of output o, unless it is one of S, makes room.
Demoted(d, S, o) ==
    LET owners == {x \in DOMAIN d.full \ S : d.full[x].output = o} IN
    IF owners = {} THEN d ELSE Unfullscreen(d, CHOOSE x \in owners : TRUE)

\* do_fullscreen_request, with the output resolved.
Fullscreen(d, w, o) ==
    IF IsFull(d, w) /\ d.full[w].output = o THEN Retile(d)
    ELSE
      LET e == Demoted(d, {w}, o)
          was == w \in e.pinned \/ (IsFull(e, w) /\ e.full[w].wasPinned)
          rect == \/ IsFull(e, w) /\ e.full[w].hasRect
                  \/ IsMaxi(e, w)
                  \/ w \in e.mapped /\ ~IsTiled(e, w) /\ w \in e.shown
      IN Retile(
           [e EXCEPT !.pinned = @ \ {w},
                     !.tag = IF was /\ IsTagged(e, w) THEN Put(@, w, ActiveKey(e, o)) ELSE @,
                     !.full = Put(@, w, [output |-> o, wasPinned |-> was,
                                         pinFloated |-> FALSE, hasRect |-> rect])])

\* A mapped window's owner is authoritative; the client's hint, or the output
\* the user is on, counts only when there is none.
FullscreenOutputs(d, w) ==
    IF w \in d.mapped /\ Live(d, Preferred(d, w)) # NoOutput THEN {Preferred(d, w)}
    ELSE d.live

\* do_maximize_request on output o: only windows outside the trees.
Maximize(d, w, o) ==
    IF IsTiled(d, w) \/ w \notin d.mapped THEN [d EXCEPT !.maxi = Drop(@, {w})]
    ELSE IF IsMaxi(d, w) THEN Retile(d)
    ELSE IF \/ IsFull(d, w) /\ d.full[w].hasRect
            \/ w \in d.shown
            \/ IsTagged(d, w)
         THEN Retile([d EXCEPT !.maxi = Put(@, w, o)])
    ELSE d

\* do_unmaximize_request
Unmaximize(d, w) ==
    LET e == [d EXCEPT !.maxi = Drop(@, {w})] IN IF IsFull(d, w) THEN e ELSE Retile(e)

-----------------------------------------------------------------------------
(* Floating, pinned and pseudo-tiled *)

\* A tile becomes a floater of key k at the place of its tile.
Untile(d, w, k) ==
    [Tagged(d, w, k) EXCEPT !.tile = Drop(@, {w}),
                            !.over = Put(@, w, k[1]),
                            !.pseudo = @ \ {w}]

\* A floater becomes a tile of key k; pins and the maximized mode end.
Retiled(d, w, k) ==
    [Tiled(d, w, k) EXCEPT
        !.tag = Drop(@, {w}), !.over = Drop(@, {w}),
        !.pinned = @ \ {w}, !.maxi = Drop(@, {w}),
        !.full = IF IsFull(d, w) THEN [@ EXCEPT ![w].wasPinned = FALSE] ELSE @]

\* toggle_floating: o is the output of the user's action, for a floater that
\* lies on no output.  A hidden window is left alone.
ToggleFloating(d, w, o) ==
    IF w \notin d.shown THEN d
    ELSE IF IsTiled(d, w)
    THEN LET e == Untile(d, w, ActiveKey(d, d.tile[w][1])) IN
         Retile(IF IsFull(d, w) THEN [e EXCEPT !.full[w].hasRect = TRUE] ELSE e)
    ELSE LET at == IF Rendered(d, w) # NoOutput THEN Rendered(d, w) ELSE o IN
         IF at = NoOutput THEN d ELSE Retile(Retiled(d, w, ActiveKey(d, at)))

\* float_hidden_tiled_window
FloatHidden(d, w, k) == IF IsTiled(d, w) THEN Untile(d, w, k) ELSE d

\* toggle_pin of a fullscreen window: the mode to come back to changes.
TogglePinFullscreen(d, w, o) ==
    LET wants == ~d.full[w].wasPinned
        floats == wants /\ IsTiled(d, w)
        undoes == ~wants /\ d.full[w].pinFloated
        e == IF floats \/ undoes THEN ToggleFloating(d, w, o) ELSE d
        entry == [e.full[w] EXCEPT !.wasPinned = wants, !.pinFloated = wants /\ (floats \/ @)]
    IN [e EXCEPT !.full[w] = entry]

\* toggle_pin: a pinned window is on every workspace of its output.
TogglePin(d, w, o) ==
    IF IsFull(d, w) THEN TogglePinFullscreen(d, w, o)
    ELSE IF w \in d.pinned
    THEN LET e == [d EXCEPT !.pinned = @ \ {w}] IN
         IF Rendered(d, w) # NoOutput /\ IsTagged(d, w)
         THEN Tagged(e, w, ActiveKey(d, Rendered(d, w))) ELSE e
    ELSE LET e == IF IsTiled(d, w) THEN ToggleFloating(d, w, o) ELSE d IN
         [e EXCEPT !.pinned = @ \cup {w}]

\* toggle_pseudo_tile
TogglePseudo(d, w) ==
    IF ~IsTiled(d, w) THEN d
    ELSE Retile([d EXCEPT !.pseudo = IF w \in @ THEN @ \ {w} ELSE @ \cup {w}])

\* sync_visible_floating_window: ownership follows the rectangle.
SyncFloating(d, w) ==
    IF IsFull(d, w) \/ IsMaxi(d, w) \/ ~IsTagged(d, w) \/ w \notin d.shown THEN d
    ELSE LET at == IF Rendered(d, w) # NoOutput THEN Rendered(d, w)
                   ELSE Live(d, d.tag[w][1])
             o == IF at # NoOutput \/ d.live = {} THEN at ELSE CHOOSE x \in d.live : TRUE
         IN IF o = NoOutput THEN d ELSE Tagged(d, w, ActiveKey(d, o))

\* toggle_output_pin: the monitor a window returns to.
ToggleOutputPin(d, w) ==
    IF w \in DOMAIN d.pin THEN [d EXCEPT !.pin = Drop(@, {w})]
    ELSE IF Rendered(d, w) = NoOutput THEN d
    ELSE [d EXCEPT !.pin = Put(@, w, Rendered(d, w))]

\* keyboard_move_floating, a nudge: only the rectangle moves.
Nudge(d, w, o) == [d EXCEPT !.over = Put(@, w, o)]

-----------------------------------------------------------------------------
(* Workspaces of one output *)

TilesOf(d, k) == {w \in DOMAIN d.tile : d.tile[w] = k}
\* The floaters a workspace owns; pinned ones keep only a nominal tag.
FloatersOf(d, k) == {w \in DOMAIN d.tag \ d.pinned : d.tag[w] = k}
ParkedOf(d, k) == UNION {ParkedIn(g) : g \in {h \in d.groups : h.home = k}}
Residents(d, k) == TilesOf(d, k) \cup FloatersOf(d, k) \cup ParkedOf(d, k)

\* Mutant of Switch: pinned windows leave with their workspace.
SwitchHidesPinned(d, o, n) ==
    LET gone == {w \in DOMAIN d.tag : d.tag[w] = ActiveKey(d, o)} IN
    IF n = d.active[o] THEN d
    ELSE Retile([Hidden(d, TilesOf(d, ActiveKey(d, o)) \cup gone) EXCEPT
                   !.active[o] = n,
                   !.shown = @ \cup FloatersOf(d, <<o, n>>)])

\* apply_workspace_switch
Switch(d, o, n) ==
    LET k == ActiveKey(d, o) IN
    IF n = d.active[o] THEN d
    ELSE Retile([Hidden(d, TilesOf(d, k) \cup FloatersOf(d, k)) EXCEPT
                   !.active[o] = n,
                   !.shown = @ \cup FloatersOf(d, <<o, n>>)])

\* move_to_workspace: hiding and showing go by the workspace of the window,
\* which need not be the active one.
MoveToWorkspace(d, w, n) ==
    IF IsTiled(d, w)
    THEN LET k == d.tile[w]
             e == Tiled(d, w, <<k[1], n>>)
         IN IF n = k[2] THEN d
            ELSE Retile(IF IsActive(d, k) THEN Hidden(e, {w}) ELSE e)
    ELSE IF ~IsTagged(d, w) \/ d.tag[w][2] = n THEN d
    ELSE LET k == d.tag[w]
             e == Tagged(d, w, <<k[1], n>>)
         IN IF w \in d.pinned THEN e
            ELSE IF IsActive(d, k) THEN Hidden(e, {w})
            ELSE IF n # d.active[k[1]] THEN e
            ELSE IF IsFull(d, w) \/ IsMaxi(d, w) THEN Retile(Shown(e, {w}))
            ELSE Shown(e, {w})

-----------------------------------------------------------------------------
(* Between outputs *)

\* A floater at its destination: the rectangle comes along.
Landed(d, S, key) ==
    [d EXCEPT !.tag = [w \in DOMAIN @ |-> IF w \in S THEN key[w] ELSE @[w]],
              !.over = [w \in DOMAIN @ |-> IF w \in S THEN key[w][1] ELSE @[w]]]

\* The output-owned modes of the windows S move to output o.
FullTo(d, S, o) ==
    [d EXCEPT !.full = [w \in DOMAIN @ |-> IF w \in S THEN [@[w] EXCEPT !.output = o] ELSE @[w]]]
MaxiTo(d, S, o) == [d EXCEPT !.maxi = [w \in DOMAIN @ |-> IF w \in S THEN o ELSE @[w]]]
Modes(d, S, o) == MaxiTo(FullTo(d, S, o), S, o)

Repinned(d, S, o) == [d EXCEPT !.pin = [w \in DOMAIN @ |-> IF w \in S THEN o ELSE @[w]]]

Rehomed(d, home) ==
    [d EXCEPT !.groups = {[g EXCEPT !.home = home[g.home]] : g \in @}]

\* transfer_tiled_window_to_output: the tabs of a group travel together.
TransferTiled(d, w, to) ==
    LET tabs == IF IsGrouped(d, w) THEN Members(GroupOf(d, w)) ELSE {w} IN
    [Repinned(Tiled(d, w, ActiveKey(d, to)), tabs, to) EXCEPT
        !.groups = {IF w \in Members(g) THEN [g EXCEPT !.home = ActiveKey(d, to)] ELSE g :
                      g \in @}]

\* window_monitor
Monitor(d, w) ==
    IF IsFull(d, w) THEN d.full[w].output
    ELSE IF IsTiled(d, w) THEN d.tile[w][1]
    ELSE IF IsTagged(d, w) THEN d.tag[w][1]
    ELSE Preferred(d, w)

\* move_focused_window_to_monitor
MoveWindowToMonitor(d, w, to) ==
    LET e == Modes(Demoted(d, {w}, to), {w}, to)
        key == [x \in {w} |-> ActiveKey(d, to)]
    IN IF Monitor(d, w) \notin d.live \ {to} \/ ~(IsTiled(d, w) \/ IsTagged(d, w)) THEN d
       ELSE IF IsTiled(d, w) THEN Retile(TransferTiled(e, w, to))
       ELSE Retile(Shown(Repinned(Landed(e, {w}, key), {w}, to), {w}))

\* A tile dragged to another output and dropped there.
DropTile(d, w, to) ==
    IF w \notin d.shown \/ IsFull(d, w) \/ IsMaxi(d, w) \/ ~IsTiled(d, w) THEN d
    ELSE Retile(TransferTiled(d, w, to))

\* Mutant of Occupied: parked tabs are forgotten.
OccupiedByLeaves(d, o) ==
    {d.tile[w][2] : w \in {x \in DOMAIN d.tile : d.tile[x][1] = o}}

Occupied(d, o) ==
    {k[2] : k \in {j \in {d.tile[w] : w \in DOMAIN d.tile}
                     \cup {d.tag[w] : w \in DOMAIN d.tag \ d.pinned}
                     \cup {g.home : g \in d.groups} : j[1] = o}} \ Scratch

\* workspace_transfer_slot: the same number if it is vacant there, else the
\* lowest vacant one.
Vacant(d, to) == Normal \ Occupied(d, to)
TransferSlot(d, n, to) == IF n \in Vacant(d, to) THEN n ELSE Min(Vacant(d, to))

\* The windows in leave key k with their workspace.
Moved(d, in, k, to) ==
    [Landed(Repinned(Modes(d, in, to[1]), in, to[1]), FloatersOf(d, k),
            [w \in FloatersOf(d, k) |-> to]) EXCEPT
        !.tile = [w \in DOMAIN @ |-> IF @[w] = k THEN to ELSE @[w]],
        !.groups = {IF g.home = k THEN [g EXCEPT !.home = to] ELSE g : g \in @},
        !.shown = @ \cup FloatersOf(d, k)]

\* move_workspace_to_monitor: the active workspace of from, as one transfer.
MoveWorkspace(d, from, to) ==
    LET k == ActiveKey(d, from)
        slot == <<to, TransferSlot(d, k[2], to)>>
        e == IF \E w \in Residents(d, k) : IsFull(d, w) THEN Demoted(d, {}, to) ELSE d
        left == (IF slot = ActiveKey(d, to) THEN {} ELSE TilesOf(e, ActiveKey(d, to)))
                  \cup FloatersOf(e, ActiveKey(d, to))
    IN IF \/ from = to \/ {from, to} \cap d.live # {from, to}
          \/ k[2] \in Scratch \/ Vacant(d, to) = {}
       THEN d
       ELSE Retile([Moved(Hidden(e, left), Residents(d, k), k, slot) EXCEPT !.active[to] = slot[2]])

MovingFull(d, k) == {w \in TilesOf(d, k) \cup FloatersOf(d, k) : IsFull(d, w)}

\* swap_workspaces: the active workspaces of two outputs change places.  The
\* outputs keep their active numbers, and the output pins stay.
Swap(d, a, b) ==
    LET ka == ActiveKey(d, a)
        kb == ActiveKey(d, b)
        fa == MovingFull(d, ka)
        fb == MovingFull(d, kb)
        d1 == IF fa = {} THEN d ELSE Demoted(d, fb, b)
        e == IF fb = {} THEN d1 ELSE Demoted(d1, fa, a)
        other == [k \in Key |-> IF k = ka THEN kb ELSE IF k = kb THEN ka ELSE k]
        toB == FullTo(Modes(e, FloatersOf(e, ka), b), TilesOf(e, ka), b)
        toA == FullTo(Modes(toB, FloatersOf(e, kb), a), TilesOf(e, kb), a)
        floats == FloatersOf(e, ka) \cup FloatersOf(e, kb)
    IN IF a = b THEN d
       ELSE Retile(Shown(Landed(
              Rehomed([toA EXCEPT !.tile = [w \in DOMAIN @ |-> other[@[w]]]], other),
              floats, [w \in floats |-> other[e.tag[w]]]), floats))

-----------------------------------------------------------------------------
(* Outputs come and go *)

Owned(d) ==
    {d.tile[w][1] : w \in DOMAIN d.tile} \cup {d.tag[w][1] : w \in DOMAIN d.tag}
      \cup {d.full[w].output : w \in DOMAIN d.full} \cup {d.maxi[w] : w \in DOMAIN d.maxi}
      \cup {g.home[1] : g \in d.groups}

\* A window that moves with its output keeps its workspace number; it is
\* hidden unless that workspace is the active one there, or it is pinned.
Resettled(d, S, to) ==
    LET key == [w \in S |-> <<to, IF IsTiled(d, w) THEN d.tile[w][2] ELSE d.tag[w][2]>>]
        floats == S \cap DOMAIN d.tag
        open == {w \in floats : w \in d.pinned \/ IsActive(d, key[w])}
    IN [Landed(d, floats, key) EXCEPT
          !.tile = [w \in DOMAIN @ |-> IF w \in S THEN key[w] ELSE @[w]],
          !.shown = (@ \ {w \in S : ~IsActive(d, key[w])}) \cup open]

\* Mutant of Migrate: the modes stay with the output that left.
MigrateForgetsModes(d, from, to) ==
    LET home == [k \in Key |-> IF k[1] = from THEN <<to, k[2]>> ELSE k]
        in == {w \in DOMAIN d.tile : d.tile[w][1] = from}
                \cup {w \in DOMAIN d.tag : d.tag[w][1] = from}
    IN Rehomed(Resettled(d, in, to), home)

\* Mutant of Migrate: the groups stay with the output that left.
MigrateForgetsTabs(d, from, to) ==
    LET in == {w \in DOMAIN d.tile : d.tile[w][1] = from}
                \cup {w \in DOMAIN d.tag : d.tag[w][1] = from}
    IN Resettled(d, in, to)

\* migrate_output_windows
Migrate(d, from, to) ==
    LET home == [k \in Key |-> IF k[1] = from THEN <<to, k[2]>> ELSE k]
        full == {w \in DOMAIN d.full : d.full[w].output = from}
        mover == IF full = {} THEN {} ELSE {CHOOSE w \in full : TRUE}
        e == IF full = {} THEN d ELSE FullTo(Demoted(d, mover, to), mover, to)
        f == MaxiTo(e, {w \in DOMAIN e.maxi : e.maxi[w] = from}, to)
        in == {w \in DOMAIN f.tile : f.tile[w][1] = from}
                \cup {w \in DOMAIN f.tag : f.tag[w][1] = from}
    IN Rehomed(Resettled(f, in, to), home)

\* Mutant of Adopt: nothing is orphaned.
AdoptNothing(d, o, orphaned) == d

\* adopt_orphaned_output_windows: what the outputs that are gone still own, one
\* output after the other.
Adopt(d, o, orphaned) ==
    LET after[i \in 0 .. Len(orphaned)] ==
          IF i = 0 THEN d ELSE Migrate(after[i - 1], orphaned[i], o)
    IN after[Len(orphaned)]

\* move_window_to_output: one window goes home; its parked tabs stay behind.
Recalled(d, w, to) ==
    LET e == IF IsFull(d, w) THEN Demoted(d, {w}, to) ELSE d
    IN Resettled(Modes(e, {w}, to), {w}, to)

\* The windows that belong on output o and are owned by another.
Displaced(d, o) ==
    {w \in DOMAIN d.pin : d.pin[w] = o
       /\ (IF IsTiled(d, w) THEN d.tile[w][1] # o ELSE IsTagged(d, w) /\ d.tag[w][1] # o)}

\* recall_pinned_windows_to, in the order of a hash map
Recall(d, o, displaced) ==
    LET after[i \in 0 .. Len(displaced)] ==
          IF i = 0 THEN d ELSE Recalled(after[i - 1], displaced[i], o)
    IN Retile(after[Len(displaced)])

\* handle_connector_change for a display that was unplugged
Disconnect(d, o, fallback) ==
    LET e == IF fallback = NoOutput THEN d ELSE Migrate(d, o, fallback)
    IN Retile([e EXCEPT !.live = @ \ {o}])

-----------------------------------------------------------------------------
(* Groups of tabs *)

\* leave_group has nothing to hand to the group if its visible tab is no tile.
MayLeave(d, w) == LET g == GroupOf(d, w) IN ActiveTab(g) # w \/ IsTiled(d, w)

\* group_removal_outcome: the tab after the removed one, around the end.
NextActive(g, pos) ==
    LET len == Len(g.members) - 1
        a == IF pos < g.active THEN g.active - 1 ELSE g.active
    IN IF a > len THEN 1 ELSE a

\* leave_group: the leaf of a visible tab goes to the next one.
LeaveGroup(d, w) ==
    LET g == GroupOf(d, w)
        pos == CHOOSE i \in DOMAIN g.members : g.members[i] = w
        rest == RemoveAt(g.members, pos)
        heir == rest[NextActive(g, pos)]
        e == [d EXCEPT !.groups = (@ \ {g}) \cup
                (IF Len(rest) = 1 THEN {}
                 ELSE {[g EXCEPT !.members = rest, !.active = NextActive(g, pos)]})]
    IN Retile(IF ActiveTab(g) = w
              THEN [e EXCEPT !.tile = Drop(Put(@, heir, @[w]), {w})] ELSE e)

\* ungroup: the window becomes a tile of the group's home.
Ungroup(d, w) ==
    IF ~IsGrouped(d, w) \/ ~MayLeave(d, w) THEN d
    ELSE Retile(Tiled(LeaveGroup(d, w), w, GroupOf(d, w).home))

\* group_direction and group_with: b joins the group of a.
GroupWith(d, a, b) ==
    LET g == GroupOf(d, a)
        anchor == IF IsGrouped(d, a) THEN ActiveTab(g) ELSE a
        plain(w) == IsTiled(d, w) /\ ~IsFull(d, w) /\ w \notin d.pseudo
        joined == IF IsGrouped(d, a) THEN [g EXCEPT !.members = Append(@, b)]
                  ELSE [members |-> <<a, b>>, active |-> 1, home |-> d.tile[a]]
        old == IF IsGrouped(d, a) THEN {g} ELSE {}
    IN IF \/ a = b \/ {a, b} \ d.shown # {} \/ ~plain(a) \/ ~plain(b) \/ IsGrouped(d, b)
          \/ ~IsTiled(d, anchor) \/ d.tile[anchor] # d.tile[b]
       THEN d
       ELSE Retile([d EXCEPT !.groups = (@ \ old) \cup {joined},
                             !.tile = Drop(@, {b}),
                             !.shown = @ \ {b}])

\* group_activate_tab: the tab takes over the leaf of the visible one.
ActivateTab(d, g, tab) ==
    LET old == ActiveTab(g)
        new == g.members[tab]
    IN IF tab = g.active \/ ~IsTiled(d, old) THEN d
       ELSE Retile([Hidden(d, {old}) EXCEPT
                      !.groups = (@ \ {g}) \cup {[g EXCEPT !.active = tab]},
                      !.tile = Drop(Put(@, new, @[old]), {old})])

\* cycle_tab
CycleTab(d, w, forward) ==
    LET g == GroupOf(d, w)
        len == Len(g.members)
        next == IF forward THEN (g.active % len) + 1 ELSE ((g.active + len - 2) % len) + 1
    IN IF ~IsGrouped(d, w) THEN d ELSE ActivateTab(d, g, next)

\* activate_toplevel: the workspace of the window opens, then its tab.
Activate(d, w) ==
    LET key == IF IsGrouped(d, w) THEN GroupOf(d, w).home
               ELSE IF IsTiled(d, w) THEN d.tile[w] ELSE d.tag[w]
        e == IF ~IsActive(d, key) /\ w \notin d.pinned /\ key[1] \in d.live
             THEN Switch(d, key[1], key[2]) ELSE d
    IN IF ~IsGrouped(e, w) THEN e
       ELSE LET g == GroupOf(e, w)
            IN ActivateTab(e, g, CHOOSE i \in DOMAIN g.members : g.members[i] = w)

-----------------------------------------------------------------------------
(* Mapping and unmapping *)

\* Every map forgets the window.
Forgotten(d, w) ==
    [d EXCEPT !.tile = Drop(@, {w}), !.tag = Drop(@, {w}), !.over = Drop(@, {w}),
              !.maxi = Drop(@, {w}), !.pin = Drop(@, {w}), !.full = Drop(@, {w}),
              !.pinned = @ \ {w}, !.pseudo = @ \ {w}, !.mapped = @ \ {w}]

\* detach_mapped_toplevel: an unmap, a close, or a swallowed parent.
Unmap(d, w) ==
    LET e == Hidden(d, {w}) IN
    Retile(Forgotten(IF IsGrouped(e, w) /\ MayLeave(e, w) THEN LeaveGroup(e, w) ELSE e, w))

\* What the rules for a window ask for at its first map.
Rule == [placed : {"tile", "float", "pin"}, maximize : BOOLEAN, fullscreen : BOOLEAN,
         pseudo : BOOLEAN]

\* The conversion of a window just inserted as a tile of key k.
Converted(d, w, k, rule) ==
    LET hidden == ~IsActive(d, k)
        e == IF hidden THEN FloatHidden(d, w, k) ELSE ToggleFloating(d, w, k[1])
        f == IF IsTagged(e, w) THEN [e EXCEPT !.over = Put(@, w, k[1])] ELSE e
    IN IF rule.placed = "tile" /\ ~rule.maximize
       THEN IF rule.pseudo THEN TogglePseudo(d, w) ELSE d
       ELSE IF rule.placed # "pin" THEN f
       ELSE [f EXCEPT !.pinned = @ \cup {w},
                      !.shown = IF hidden THEN @ \cup {w} ELSE @]

\* map_toplevel on workspace n of output o
Map(d, w, o, n, rule) ==
    LET k == <<o, n>>
        e == Converted(Retile(Tiled([d EXCEPT !.mapped = @ \cup {w}], w, k)), w, k, rule)
        at(f) == IF Live(f, Preferred(f, w)) # NoOutput THEN Preferred(f, w) ELSE o
        m == IF rule.maximize THEN Maximize(e, w, at(e)) ELSE e
    IN IF rule.fullscreen THEN Fullscreen(m, w, at(m)) ELSE m
=============================================================================
