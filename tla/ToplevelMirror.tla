-------------------------- MODULE ToplevelMirror --------------------------
(***************************************************************************)
(* wlr-foreign-toplevel (handlers/wlr_foreign_toplevel.rs): what a bar's   *)
(* manager has been told of every window, next to what the compositor      *)
(* holds (keyboard focus, FullscreenEntry, MaximizedEntry, titles).  One   *)
(* output; a window that maps again gets a fresh handle.                   *)
(***************************************************************************)
EXTENDS Integers, FiniteSets, Tables

CONSTANTS
  Toplevels,    \* xdg toplevels
  Bars,         \* zwlr_foreign_toplevel_manager_v1 objects
  Titles,       \* title and app_id, as one value
  NoToplevel

ASSUME ToplevelMirrorAssumption == NoToplevel \notin Toplevels

VARIABLES
  tracked,    \* wlr_foreign_toplevels: the mapped windows
  caption,    \* their title
  active,     \* keyboard_focus, when it is a window
  fulls,      \* keys of `fullscreen`
  maxed,      \* keys of `maximized` (kept as restore-intent under fullscreen)
  tiledWin,   \* windows the layout owns
  lastSent,   \* last_sent_state of the tracked handles: a set of flags, or Unsent
  bound,      \* managers in `instances`
  entries,    \* manager -> the handle objects it holds -> what they were told
  late,       \* history: <<manager, window>> bound after the window's last broadcast
  unsaid      \* history: windows whose flags changed since without a refresh

tmVars == <<tracked, caption, active, fulls, maxed, tiledWin, lastSent, bound, entries, late, unsaid>>
tmHistory == <<late, unsaid>>
Unsent == {"unsent"}
Entry(title, flags) == [title |-> title, flags |-> flags]

\* state_bytes over is_window_activated, `fullscreen` and the masked `maximized`.
Flags(w) ==
  (IF active = w THEN {"activated"} ELSE {}) \cup (IF w \in fulls THEN {"fullscreen"} ELSE {})
    \cup (IF w \in maxed \ fulls THEN {"maximized"} ELSE {})

TmInit ==
  /\ tracked = {} /\ caption = <<>> /\ active = NoToplevel /\ fulls = {} /\ maxed = {}
  /\ tiledWin = {} /\ lastSent = <<>> /\ bound = {} /\ entries = [m \in Bars |-> <<>>]
  /\ late = {} /\ unsaid = {}

\* Mutant of Refreshed: a stopped manager's objects are not told any more.
RefreshedBound(R, objects, sent) ==
  LET new == {w \in R \cap DOMAIN sent : sent[w] /= Flags(w)'}
  IN /\ late' = {p \in late : p[2] \in DOMAIN sent \ new} /\ unsaid' = (unsaid \cap DOMAIN sent) \ R
     /\ lastSent' = [w \in DOMAIN sent |-> IF w \in new THEN Flags(w)' ELSE sent[w]]
     /\ entries' = [m \in Bars |-> [w \in DOMAIN objects[m] |->
                      IF w \in new /\ m \in bound
                      THEN [objects[m][w] EXCEPT !.flags = Flags(w)'] ELSE objects[m][w]]]

\* refresh_wlr_toplevel_state of the windows in R: send_state broadcasts what
\* differs from the last broadcast, and nothing otherwise.
Refreshed(R, objects, sent) ==
  LET new == {w \in R \cap DOMAIN sent : sent[w] /= Flags(w)'}
  IN /\ late' = {p \in late : p[2] \in DOMAIN sent \ new} /\ unsaid' = (unsaid \cap DOMAIN sent) \ R
     /\ lastSent' = [w \in DOMAIN sent |-> IF w \in new THEN Flags(w)' ELSE sent[w]]
     /\ entries' = [m \in Bars |-> [w \in DOMAIN objects[m] |->
                      IF w \in new THEN [objects[m][w] EXCEPT !.flags = Flags(w)'] ELSE objects[m][w]]]

-----------------------------------------------------------------------------
\* reconcile_keyboard_focus: both ends of a handoff are refreshed.
Refocus(w) ==
  /\ w \in (tracked \cup {NoToplevel}) \ {active} /\ active' = w
  /\ UNCHANGED <<tracked, caption, fulls, maxed, tiledWin, bound>>
  /\ Refreshed({active, w}, entries, lastSent)

\* map_toplevel: the focus moves first, then announce_foreign_toplevel tracks
\* the window, telling every bound manager an empty state, and refreshes it.
MapToplevel(w, title, tiled, focused, full) ==
  /\ w \notin tracked /\ tracked' = tracked \cup {w}
  /\ caption' = Entered(caption, w, title)
  /\ active' = IF focused THEN w ELSE active
  /\ fulls' = IF full THEN {w} ELSE fulls
  /\ tiledWin' = IF tiled THEN tiledWin \cup {w} ELSE tiledWin
  /\ UNCHANGED <<maxed, bound>>
  /\ Refreshed({active, w} \cup fulls,
       [m \in Bars |-> IF m \in bound THEN Entered(entries[m], w, Entry(title, {})) ELSE entries[m]],
       Entered(lastSent, w, Unsent))

\* detach_mapped_toplevel: `closed` to every object; the focus goes elsewhere.
UnmapToplevel(w, next) ==
  /\ w \in tracked /\ tracked' = tracked \ {w} /\ next \in tracked' \cup {NoToplevel}
  /\ active' = IF active = w THEN next ELSE active
  /\ fulls' = fulls \ {w} /\ maxed' = maxed \ {w} /\ tiledWin' = tiledWin \ {w}
  /\ caption' = Restrict(caption, tracked')
  /\ UNCHANGED bound
  /\ Refreshed({active'}, [m \in Bars |-> Without(entries[m], {w})],
               Restrict(lastSent, tracked'))

\* handle_toplevel_identity_changed: send_title / send_app_id.
Rename(w, title) ==
  /\ w \in tracked /\ caption' = [caption EXCEPT ![w] = title]
  /\ entries' = [m \in Bars |-> [v \in DOMAIN entries[m] |->
                   IF v = w THEN [entries[m][v] EXCEPT !.title = title] ELSE entries[m][v]]]
  /\ UNCHANGED <<tracked, active, fulls, maxed, tiledWin, lastSent, bound, tmHistory>>

\* fullscreen_request pre-empts the output's owner through do_unfullscreen,
\* which drops a tiled window's restore-intent; both are refreshed.
LeaveFull(w) == maxed \ (IF w \in fulls THEN {w} \cap tiledWin ELSE {})
Fullscreen(w) ==
  /\ w \in tracked /\ fulls' = {w}
  /\ maxed' = maxed \ (tiledWin \cap (fulls \ {w}))
  /\ UNCHANGED <<tracked, caption, active, tiledWin, bound>>
  /\ Refreshed({w} \cup fulls, entries, lastSent)
Unfullscreen(w) ==
  /\ w \in tracked \cap fulls /\ fulls' = fulls \ {w} /\ maxed' = LeaveFull(w)
  /\ UNCHANGED <<tracked, caption, active, tiledWin, bound>>
  /\ Refreshed({w}, entries, lastSent)

\* maximize_request: meaningless for a tiled window, intent under fullscreen.
Maximize(w) ==
  /\ w \in tracked
  /\ maxed' = IF w \in tiledWin THEN maxed \ {w} ELSE maxed \cup {w}
  /\ UNCHANGED <<tracked, caption, active, fulls, tiledWin, bound>>
  /\ Refreshed({w}, entries, lastSent)
Unmaximize(w) ==
  /\ w \in tracked /\ maxed' = maxed \ {w}
  /\ UNCHANGED <<tracked, caption, active, fulls, tiledWin, bound>>
  /\ Refreshed({w}, entries, lastSent)

\* toggle_floating drops the maximized entry of a window it tiles, and tells
\* no one.
ToggleFloatingTop(w) ==
  /\ w \in tracked
  /\ tiledWin' = IF w \in tiledWin THEN tiledWin \ {w} ELSE tiledWin \cup {w}
  /\ maxed' = maxed \ {w}
  /\ UNCHANGED <<tracked, caption, active, fulls, lastSent, bound, entries, late>>
  /\ unsaid' = IF Flags(w)' = Flags(w) THEN unsaid ELSE unsaid \cup {w}

-----------------------------------------------------------------------------
\* bind: every live toplevel is replayed, with an empty state.
BindBar(m) ==
  /\ m \notin bound /\ entries[m] = <<>> /\ bound' = bound \cup {m}
  /\ entries' = [entries EXCEPT ![m] = [w \in tracked |-> Entry(caption[w], {})]]
  /\ late' = late \cup ({m} \X tracked)
  /\ UNCHANGED <<tracked, caption, active, fulls, maxed, tiledWin, lastSent, unsaid>>

\* Stop: no new toplevels; the objects the client holds keep being told.
StopBar(m) ==
  /\ m \in bound /\ bound' = bound \ {m}
  /\ UNCHANGED <<tracked, caption, active, fulls, maxed, tiledWin, lastSent, entries, tmHistory>>

\* A handle's destroy; or the client leaves, and all its objects with it.
DestroyEntry(m, w) ==
  /\ w \in DOMAIN entries[m]
  /\ entries' = [entries EXCEPT ![m] = Without(@, {w})] /\ late' = late \ {<<m, w>>}
  /\ UNCHANGED <<tracked, caption, active, fulls, maxed, tiledWin, lastSent, bound, unsaid>>
BarLeaves(m) ==
  /\ bound' = bound \ {m} /\ entries' = [entries EXCEPT ![m] = <<>>]
  /\ late' = {p \in late : p[1] /= m}
  /\ UNCHANGED <<tracked, caption, active, fulls, maxed, tiledWin, lastSent, unsaid>>

TmNext ==
  \/ \E w \in Toplevels \cup {NoToplevel} : Refocus(w)
  \/ \E w \in Toplevels, t \in Titles, b, f, g \in BOOLEAN : MapToplevel(w, t, b, f, g)
  \/ \E w \in Toplevels, v \in Toplevels \cup {NoToplevel} : UnmapToplevel(w, v)
  \/ \E w \in Toplevels, t \in Titles : Rename(w, t)
  \/ \E w \in Toplevels : Fullscreen(w) \/ Unfullscreen(w) \/ Maximize(w) \/ Unmaximize(w)
                            \/ ToggleFloatingTop(w)
  \/ \E m \in Bars : BindBar(m) \/ StopBar(m) \/ BarLeaves(m)
  \/ \E m \in Bars, w \in Toplevels : DestroyEntry(m, w)
TmSpec == TmInit /\ [][TmNext]_tmVars

-----------------------------------------------------------------------------
\* A bar lists only live windows, under their current title.  Every change of a
\* window's state that is refreshed reaches every object there is, whenever its
\* bar bound and whether or not it listens for new windows: an object shows the
\* last broadcast, and one that is younger than it the empty state.  What was
\* broadcast is the truth, but for a window toggle_floating changed silently.
TaskbarEntries ==
  /\ \A m \in Bars : \A w \in DOMAIN entries[m] :
       /\ w \in tracked /\ entries[m][w].title = caption[w]
       /\ entries[m][w].flags = IF <<m, w>> \in late THEN {} ELSE lastSent[w]
  /\ \A w \in tracked \ unsaid : lastSent[w] = Flags(w)
=============================================================================
