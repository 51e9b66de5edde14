# TideWM in TLA+

TideWM (`src/src`, Rust on Smithay) is a Wayland compositor: one calloop event
loop owns nearly all state, every handler runs to completion, and what makes it
hard is the order in which clients, keys, timers, the kernel, other threads and
config reloads call those handlers.  This directory models the parts of it whose
correctness is a matter of such orders, checks them with TLC on small instances
and proves what matters most with TLAPS.

## 1. Inventory

| component | state | operations | hard behaviour |
| --- | --- | --- | --- |
| Depth Deck (`tide_core/classic_depth.rs`, `state/groups_depth.rs`) | ordered entries (window, output, workspace), the open picker's view, the drawn overlay | sink, dive, cycle, select, depth-down/up, cancel; retag on hotplug and workspace moves; drain on hot-disable | windows change owner between trees and deck in any order; the picker's index outlives removals |
| Layout registry (`tide_core/layout.rs`) | one BSP tree per (output, workspace), owner index, active workspaces, per-workspace settings, topology revision | insert, remove, swap, replace a leaf, swap and move workspaces, drain for migration, split hit testing | a pointer grab keeps a tree path across any number of topology changes |
| Scroll engine (`tide_core/scroll.rs`, `layout_scroll.rs`) | stacked windows, widths and cameras keyed by window or slot; columns are read off the trees | consume, expel, move, resize, swipe, page flip, drop | a column is implied by three tables edited in different places |
| Ocean engine (`tide_core/ocean.rs`, `state/ocean.rs`), swallowing (`handlers/xdg_shell.rs`) | reefs, floating windows, screen pins, cameras; hidden parents | map, unmap, swallow, restore, engine switch in both directions | an engine switch empties one owner and fills another while children live and die |
| Workspaces and window state (`state/workspace.rs`, `state/spatial.rs`), window groups | floating tags, pins, pseudo-tiles, fullscreen and maximized entries, pinned outputs, groups, the Space mapping | switch, move, swap workspaces, scratchpads, pin, float, fullscreen, tabs, output hotplug | eight registries hold a window's output and must agree after every handler |
| Focus, layer shell (`state/focus.rs`, `handlers/layer_shell.rs`) | intent, keyboard focus, history, urgency, menu grab | reconcile after everything that maps, hides, closes, locks or clicks; Alt-Tab | some thirty callers; a popup grab ends in an idle callback |
| Keyboard (`tide_core/input.rs`, `accessibility.rs`) | keys told to clients, suppressed keys, helpers, the reader's grabs, the minimap's chord | press, release, rescue, reload, host focus, reader calls | what a press decided must hold at its release |
| Pointer and its grabs (`tide_core/input.rs`, `grabs/*`) | buttons held, the seat's grab, previews, resize state | press, release, drag, swipe, menu, picker, lock | any of a dozen callers replaces a drag's grab |
| DRM frame scheduling, session lock, DPMS (`backend/udev.rs`, `tide_core/redraw.rs`, `state/session.rs`) | per-output dirty, pending flip, retry generation; redraw requests; lock phase | request, render, queue, vblank, retry timer, VT pause and resume, power, lock | damage between render and flip; timers of an older generation; "locked" only when every output hides the desktop |
| Surface commits (`handlers/compositor.rs`, `explicit_sync.rs`) | blocked transactions, watchers and their counters, release points | commit, fence, destroy, client gone | a blocker must be cleared and counted down exactly once |
| Protocol mirrors (`handlers/wlr_*`, `ext_workspace.rs`) | what each client was told; serials, power, ramps | bind, refresh, request, stop | requests against an older serial or a vanished output |
| Capture and screencast (`capture.rs`, `screencast/*`) | the queue of captures; sessions, streams and workers on three threads | queue, draw, fence, clean up; start, stop, close, pick | the session locks, an output goes or a client vanishes while a frame or a worker is under way |
| IPC, configuration reload (`tide_core/ipc.rs`, `state/ipc.rs`, `config/files.rs`, `state/config_reload.rs`) | connections and bounded backlogs; watches, debounce, active graph | accept, subscribe, flush, broadcast; watch, read, swap, hand over | a reader that never reads; saves during the reload that reads them |
| Rendering, effects, physics, geometry, parsing, Ebb, start-up | pixels, springs, text, pressure | | not modelled (section 7) |

### How the parts interact

All state hangs off one `TideState`; a handler is a plain method call and nothing
else runs on the event loop until it returns.  So a handler is one atomic action,
and the interleavings worth modelling are those of *whole handlers*: a key binding
after a hotplug, a client's activation request while a picker is open, a page-flip
event after a power-off, a timer armed for a monitor that was unplugged meanwhile.
The exceptions are the PipeWire threads, the D-Bus executor and the file watcher's
thread: where they meet the loop, an action is one atomic load or store
(`CastFrames`), or the code between two awaits (`Screencast`, `CastPortal`), or the
reading of one file (`ConfigReload`).

* **Calls down.** Handlers of `state/*.rs` change the layout registry, the Depth
  Deck and the window-state maps and end in `retile` and `request_redraw`.
* **Callbacks up.** The DRM backend hangs closures on `TideState` (power, output
  configuration) and is woken by an eventfd that `request_redraw` writes.
* **Shared facts.** A window's output and workspace are recorded by its owner
  (tree, deck, floating tag, pin, group, fullscreen entry, reef), and every
  workspace move, engine switch or hotplug rewrites all of them by hand.
* **Time.** Page flips, empty-frame timers, debounce timers, fences, awaits and
  protocol transactions come back later, with the state of *then* in hand.

What makes each component correct, in one line each:

| component | correct when |
| --- | --- |
| Depth Deck | a window is a tile or parked, never both nor neither; the picker names what recall brings up |
| Layout registry | trees and owner index agree; a captured split is acted on only while it exists |
| Scroll | an operation edits the columns it is about and no other; a view stays where its windows are |
| Ocean, swallowing | every live window has one owner in either engine, and an engine switch keeps places |
| Workspaces, groups | one owner per window; retagging never forgets one; visible iff its workspace is |
| Focus | the keyboard's owner is the one the priorities give now; Alt-Tab visits every window |
| Keyboard, pointer | a press is undone at its release; a drop is meant |
| Frame scheduling, lock | damage has a wake-up under way; one flip at a time; nothing on a dark output; no desktop after "locked", which is eventually said |
| Surface commits | every watcher and every release point is accounted for once |
| Protocol mirrors | a client was told the present state, and a request against an old one is refused |
| Capture, screencast | every accepted request is answered once; every worker is somebody's to stop |
| IPC, reload | a subscriber hears every change in order or is dropped; a save that was seen takes effect |

## 2. Plan

Done: `DeckOps`, `DepthDeck`; `BspTree`, `Layouts`, `Places`; `Frames`;
`WorkspaceOps`, `Workspaces`; `OutputManagement`, `OutputControls`,
`ToplevelMirror`, `WorkspaceMirror`, `Ipc`, `BufferCommits`; `Capture`,
`Screencast`, `CastFrames`, `CastPortal`, `ConfigReload`; `Focus`, `EngineSwitch`,
`ScrollColumns`, `Keys`, `Pointer`; and the eight proof modules of section 6.

Left, in this order:

1. Proofs: `ColumnsAreKept` and `ViewIsKept`, with the folds they go through
   written as recursive functions.
2. Models: animated (deferred) switches and the way back from a scratchpad in
   `Workspaces`; what happens to a surface whose timer, queue or render fails
   (`udev.rs:1853`, modelled in `Frames` under `failure` and `refuse`, but no
   property says when it recovers); the Ebb trim pass; the restart of the XWayland
   satellite; window rules re-evaluated on hidden workspaces.

## 3. Modules

Every variable is a field of the code and every action a whole handler with the
calls it makes.  Choices the code takes from outside (the output under the pointer,
the order of a hash map, the topmost window) are quantified over.  History
variables, marked so where they are declared, are read by no guard.

### DeckOps and DepthDeck

A deck is a record of `entries` (newest first) and `view`, the open picker.
`DeckOps` has one operator per method of `ClassicDepthDeck`; a surface and its
`Window` are one value.  `DepthDeck` is the compositor around it: `deck`, `overlay`
(titles and highlight as drawn), `tiles`, `active`, `live` (the layout registry
reduced to its sets of tiles, the active workspaces, the outputs in the Space),
`exempt` (grouped, fullscreen or pseudo-tiled windows, which `sink_window` and the swap
of `select_depth_deck` refuse to park; a window that is parked already may become one
by its own fullscreen request), `focus`, `enabled`.  Actions: `SinkWindow`, `Dive`,
`CycleDepthDeck`, `DepthCancel`, `SwitchDepth`, `SelectDepthDeck`, and everything
else that changes a deck, a tile or an exemption: map, close, activation by another
client, fullscreen requests and their end, what sets another fullscreen window aside,
workspace switch and move, output loss and reconnection with adoption of orphans,
and the reload that turns the deck off.

### BspTree, Layouts and Places

A tree is the sequence of its leaves, each with its window and its path from the
root.  That is all focus, grabs and the leaf-order layouts look at; split ratios and
rectangles are left out.  `Layouts` is the registry: `trees` and `owners` are the two
representations of membership, `algorithms`, `master` and `inherited` the settings,
`grab` the `SplitHit` a pointer grab keeps (with a history copy of the tree it was
taken from), `reefs` the trees while Ocean owns them.  `topology_revision` is not a
counter: only a grab compares it, for equality, so it is enough to know whether it
has moved since the hit (`StaleGrab`).  `InsertWindow` asks nothing about the engine, as in the
code: `restore_swallowed` puts a window into a numbered slot while Ocean runs.
`Places` is the abstract specification: each window has at most one place, and every
call is one of put, take, substitute, exchange two places, clear, refill; a refill
takes the place of what it finds, so what was put into a slot under Ocean loses it.
`KeepsPromise` is `Places!Spec` with the owner index as refinement mapping.

### ScrollColumns

One record `scroll`: leaf order per strip, `stacked`, `width` per window, `offset` and
`camera` per slot, a swipe under way, and the mode of the `scroll { }` block.
`Columns` reads the columns off leaf order and `stacked`, as the code does.  Actions:
every column command, keyboard and pointer resizing, drop, swipe, page flip, opening,
closing, moves of windows and workspaces between strips and outputs, and reloads.
Lengths are fractions of the viewport.  The instance starts from three windows in any
shape and takes `StepBound` steps: widths and cameras have no natural bound.

### EngineSwitch

Who owns a window from its first commit to its destruction: the `classic` tables
(trees, tags, pins, active workspaces), the `ocean` tables (reefs, loose windows,
pins, cameras) and `eaten`, the parents that `swallow` hides.  `Commit` with and
without a buffer, `Destroyed`, `ToggleFloat`, `TogglePin`, `SendTo`, `SwitchSpace`,
`Travel`, and `SwitchEngine` with both translations and their numbering of reefs.
`strays` is history: windows put back into the engine that is not running, which is
what the finding `EveryLiveWindowIsOwned` is about and what the other properties
except.

### WorkspaceOps and Workspaces

A *desk* is a record of every map that says where a window is or how it is shown;
the head of `WorkspaceOps` names the code's map behind each field.  Rectangles are
reduced to the output most of them lies on (`over`), because that is what
`rendered_output_for_surface` returns and what ownership follows.  `shown` is
membership in Smithay's `Space`: as in the code, `Retile` only ever adds to it, and
whatever hides a window must remove it.  Each handler is one operator from desk to
desk, with its nested calls and its final `retile`; an early return gives the same
desk.  `Preferred` and `Rendered` are the code's own look-ups, so an operation that
consults the wrong one shows.

`Workspaces` calls them.  `wantsPin` is history, the windows the user wants pinned;
`stray` holds hidden windows that may still have the keyboard focus.  `Features`
selects optional actions:

| feature | enables |
| --- | --- |
| `floats`, `pins`, `modes`, `outputPins` | toggling floating; pins; pseudo-tiles and maximizing; pinning to a monitor |
| `tabs` | joining, leaving and cycling groups |
| `hotplug` | monitors that come and go, the last one too |
| `tabModes` | float, pin, pseudo-tile, maximize, fullscreen and send-to-workspace on a *grouped* window |
| `nudges` | moving a floater by keyboard, over the edge of its monitor |
| `earlyFullscreen` | a fullscreen request before the first map |
| `staleFocus` | key bindings on the window a recall just hid |

The last four, and `outputPins` with groups, make the code fail its own debug
assertions (section 5); `workspaces_everything` enables all of them but `staleFocus`
to show that no window is lost all the same, and `WorkspacesProofs` proves it with
`staleFocus` too.

### Focus

`intent`, `onDemand`, `focus`, `seat`, `activated`, `history`, `urgent`, the mapped
windows and layers, `lock`, and the popup menu with its pointer half.  `Reconcile` is
`reconcile_keyboard_focus`, the only writer of the seat's focus; every action is a
caller that states an intent and ends in it.  `walk` is history: the windows an
uninterrupted Alt-Tab has gone through.  One output with numbered workspaces; a
fallback to the topmost window is a fallback to any visible one.

### Keys and Pointer

`Keys`: four keys stand for all (a modifier, the minimap's trigger, the helper of an
arbitrary chord, a letter bound with either and alone in a mode).  `PressKey` and
`ReleaseKey` pass the reader's keyboard monitor (`block`), the seat's XKB state and
the filter; `RescueChord`, `ReloadKeys`, `Captures` (lock, picker), `HostTakesFocus`
and `ReaderCalls` come in between.  `astray` is history: keys whose release never came.
`Pointer`: `pressed` and `held` are the physical buttons and the seat's, `seatGrab`
is its grab with what started it, `preview` and `resize` what a drag leaves in the
state, `modal` the screen that swallows buttons.  Smithay's seat is modelled as the
compositor relies on it.

### Frames

One chain per output: damage marks it and pings the loop, the loop renders it, the
kernel answers a queued frame with a page-flip event, and a frame without changes
arms a timer instead.  `dirty`, `pending`, `retry`, `poweredOff` are fields of
`SurfaceData`, `timers` the calloop timers armed (cancelled ones included: the code
cannot disarm them), `flips` the events the kernel has still to deliver, `requests`
and `ping` `RedrawRequests` and its eventfd.  `Draw` is `render_surface` with the
caller's reaction to its three outcomes.  `Redraw`, `VBlank`, `TimerFires`,
`PauseSession`, `ActivateSession` are the event sources, `Damage`, `PowerOn`,
`PowerOff`, `Connect`, `Disconnect` and the session-lock actions what the rest does
to it.  `shown` and `behind` are history.  `Environment` names what happens:
`animation`, `failure` (a render, a queue or the renderer fails), `hotplug`, `lock`,
`power`, `refuse` (calloop takes no timer), `vt`.

### The protocol modules

* `OutputManagement`: `rects` is the live desktop (one axis), `view` and `seen` what
  each manager was told and with which serial, `configs` the configuration objects.
  `Connect` places an output as `resolve_output_position` does; `FinishConfiguration`
  validates and applies in one step.
* `OutputControls`: power objects with what they were `told`, the CRTC (`dark`),
  gamma controls with owner, validity and ramp; hardware may refuse.
* `ToplevelMirror`: windows tracked, `lastSent`, and each taskbar's handles.  History:
  `late`, the handles younger than the last broadcast of their window; `unsaid`, the
  windows whose state changed without `send_state`.
* `WorkspaceMirror`: `groups` as announced, with the manager each handle was
  announced through and the one whose group it entered; a client may bind several
  (`stripsPast` gives each manager's client); `silent` is history.
* `Ipc`: connections, backlog and kernel buffer of each subscriber, the facts of one
  dispatch and what each subscriber has heard of them; `flushToken` is armed, or
  refused by calloop until something is emitted again.
* `BufferCommits`: Smithay's transaction `queue` (external), `sources` and
  `sourceCount`, fences, release points.  History: `rejected` and `unlisted`, the
  explicit commits that cost their client the connection, with a pending release and
  without one.

`Tables` holds the three ways these modules change a map: `Entered`, `Overlaid`,
`Without`.

### The service modules

* `Capture`: the queue with its limits, merging and deferral, fences, clean-up.
* `Screencast`: the Mutter D-Bus service, one action per stretch between awaits, its
  workers and the watcher of vanished clients.
* `CastFrames`: one stream's three atomics, one action per load or store.
* `CastPortal`: the portal's Start over its two awaits, the source picker, Close.
* `ConfigReload`: the editor, the watcher thread with its filter and flag, the
  debounce, the reload file by file, the hand-over of watches, `load-config-file`.
  History: `unread`, the changes let through and not read since; `early`, the files
  saved while the watcher did not filter by them and not read since.

### The MC modules

`MCLayouts`, `MCDesktop`, `MCDevices`, `MCProtocols` and `MCServices` put components
that share no state side by side: `part`, chosen initially, names the one that moves,
and the others keep their initial state.  The behaviours of each part are those of
the component's own specification, which is what the theorems speak of.  `MCWorkspaces`
runs `Workspaces` in one of two worlds, chosen the same way: two windows at a time
with rules, floats, pins and modes, or three tabs; `MaxOpen` bounds the windows of the
first.

## 4. Runs

| run | instance | shows |
| --- | --- | --- |
| `depth_deck` | 3 windows, 2 outputs, 2 workspaces, unbounded; windows symmetric | ownership, picker index, nothing parked but what the user sinks, rotation undone, conservation |
| `layouts` | registry: 5 windows, 2 outputs, workspace 1 and scratchpad 2, no per-slot choices (`TreesNext`), windows symmetric; strips: 3 windows on 2 outputs of 2 workspaces, four `scroll { }` modes, 2 steps from every shape | trees and index agree, grabs act on their own split, the registry implements `Places`; columns and views |
| `workspaces` | 2 outputs, 2 of 3 workspaces and a scratchpad; either 2 windows open at a time, rules and `floats hotplug pins modes tabs`, or 3 windows and `hotplug tabs`; windows symmetric | visible iff active, the debug assertions, workspaces move whole, a group keeps its index and follows its leaf |
| `workspaces_everything` | 2 windows, 2 outputs, also `tabModes nudges earlyFullscreen outputPins`; outputs symmetric | no window lost or doubled, nothing left on a dark monitor |
| `frames` | 2 outputs, 2 generations, all but failures and refused timers | no lost wake-up, one flip at a time, no desktop behind a confirmed lock |
| `devices` | faults: 1 output, 3 generations, everything fails; calm: the same with neither failure nor animation; keyboard: 2 keys at once, five worlds; pointer: 2 buttons | stale timers are inert and dark stays dark; in the calm world damage reaches a frame and a lock is confirmed; presses are settled; drops are meant |
| `protocols` | six components, two of each thing that competes (outputs, objects, bars, windows, connections for one slot, surfaces of one client) | configurations land whole, everybody agrees on outputs, bars and taskbars are right, subscribers are served, commits accounted |
| `services` | five components, two clients, captures, sessions, portals, files each | captures answered once and hidden by the lock, workers owned, one order per stream, what runs is what is watched and what is on disk, but for changes on their way and saves before the hand-over; liveness of all five |
| `services_handoff` | `reload` alone | finding: a save before the hand-over of the watches is lost |
| `desktop` | focus: 3 windows, a layer, 2 menus, 2 workspaces; engines: 2 applications, one swallowing the other, 1 monitor; settings: 2 windows, a layout choice in every slot, a master ratio in one at a time (`MaxRatios`), workspace rules | the keyboard's owner, cycling, one owner through swallowing and engine switches, a moved workspace keeps its layout |
| `frames_power_on` | 1 output | finding: dark until other damage |
| `desktop_strays` | `engines` alone | finding: a live window that nothing owns |

**Why the bounds are enough.**  Three windows in the deck: one to be selected, one
before and one after it, which is what clamping and rotation distinguish; two
outputs and two workspaces give a source, a target and a bystander slot.  Five
windows in the registry fill two trees so that a lifted sibling is a leaf or a
subtree, on either side, below the root or not.  On a desk, two windows are an owner
and its rival (for a slot, a leaf or a monitor), and every property of `Workspaces`
speaks of at most two windows; three tabs are needed for an index that is neither
first nor last; three windows on the desktop tell an Alt-Tab that walks the history
from one that rewrites it and swaps the same two for ever; one workspace number more than the user can reach keeps a vacant
slot for a transfer (the code has 2^32).  Two outputs are what the lock's "every
output" needs; three generations let a stale timer, a standing one and a new one
coexist on one output.  In the protocols a limit of one (`MaxConns`, `PendingCap`,
`KernelRoom`) or two (`PerClient`, `Total`, `MaxPending`) is reached and exceeded by
the second or third request; `MaxSerial` = 3 lets a configuration be one or two
serials old.  `MaxSaves` = 2 puts one save before and one during a reload.

**Bounds on what the code does not bound.**  `Generation` bounds how many timers are
armed at once: in an instance without a fresh generation the timer is not armed, and
the behaviours cut are those with more armed timers.  `MaxFlips` is two: the flip in
flight and a stale event behind it, and `TypeCorrect` shows that no third arises.
`StepBound` cuts the strips after two steps (three steps were explored once, 1.6
million transitions without a violation).  `MaxSerial`, `MaxSaves` and
`KeysHeld` (keys down at once) limit the environment only.  The engines were also
explored once with two monitors (521 thousand states, no violation).

**Fairness.**  calloop dispatches what is ready: the redraw eventfd, an expired
timer, a page-flip event, and the kernel delivers the flips of the VT in front
(`Frames`); the bus executor and the PipeWire loops run, a fence that is waited for
signals, the watcher's thread reads its events (`services`).  `ServicesSpec` folds
the components' fairness into four conditions, one process of each per condition,
which is the same because only one component moves in a behaviour.  Nothing is
assumed of users, monitors or clients, except that in the calm world a locker does
put its surface on every output (`RegisterLockSurface`): a session locked again
before its last blank was replaced renders an EmptyFrame, which the code does not
count as a locked frame, so the confirmation then waits for the locker.  The calm
world leaves animation out because an animation re-marks the output with each frame,
and the property would not distinguish that from a frame never drawn.
`CalmLockIsConfirmed` supposes monitors that finally stay on and plugged in: a
powered-off one is never drawn and holds the lock in "locking" for good.
`NoLostWakeup` exempts an output switched on and not drawn since, which is the finding
`PowerOnIsDrawn`.  `ServicesComplete` exempts a session that stays on another VT for
ever and a PipeWire loop that has returned.

Deadlock is checked for the desks, where some request is always possible.
Elsewhere it is not: a compositor without windows and keys may rest, bounds stop the
environment, and `LockClientDies` ends the compositor on purpose.

## 5. Findings

Three are runs:

* `frames_power_on`: powering an output on marks it dirty and wakes nobody
  (`udev.rs:702` against the comment at `udev.rs:202`).
* `desktop_strays`: `restore_swallowed` puts the parent into the Classic registry
  whatever engine runs; under Ocean it is not drawn, and the way back replaces the
  tree, so the live window has no owner (`xdg_shell.rs:1751` against
  `DOCUMENTATION.md:103`).
* `services_handoff`: a reload reads a file for the first time, and only when it has
  read them all does `update_paths` watch its directory and let its events pass; a
  save in between is lost (`files.rs:17` and `DOCUMENTATION.md:76` say otherwise).

The models contain further divergences that no run is spent on.  The passing runs
leave the named feature out where it would break what they check; enabling it, and
checking the named formula, shows the behaviour.  In `Workspaces` (two windows, two
monitors, rules `PlainRules`, but `SomeRules` for the pin by rule):

| enable | fails | behaviour |
| --- | --- | --- |
| `tabs`, `tabModes`, `modes` | `ModesAgree` | a pseudo-tiled tab that is cycled away keeps its flag without a tile |
| `tabs`, `tabModes` | `ModesAgree` | a parked tab becomes fullscreen on the primary output and then a tile of its group's, another one |
| `tabs`, `tabModes`, `floats` | `GroupAtLeaf` | floating the visible tab leaves the group without a leaf; leaving or activating a tab is refused from then on |
| `tabs`, `tabModes` | `VisibleIsActive` | a tab moved to another workspace leaves the group's home behind; `ungroup` inserts it there, hidden workspace or not, and leaves it mapped |
| `tabs`, `tabModes`, 3 monitors | `OneFullscreen`, with `hotplug` `ModesLive` | a parked tab fullscreen on one monitor and a window of the visible workspace fullscreen on another are sent to a third: both entries move there, and when it is unplugged `migrate_output_windows` takes one of them along |
| `nudges`, `floats`, 3 monitors | `OneFullscreen`, with `hotplug` `ModesLive` | the same with a floater that was nudged to a monitor its workspace is not on, and made fullscreen there |
| `nudges`, `modes`, `floats` | `ModesAgree` | a floater nudged over the edge of its monitor and maximized is owned by both |
| `earlyFullscreen`, `pins` | `ModesAgree` | a window that asked for fullscreen before its first map is pinned by a rule while fullscreen |
| `tabs`, `outputPins`, `hotplug` | `GroupAtLeaf`, `VisibleIsActive` | recalling the visible tab of a group leaves the other tabs, and the group's home, on the monitor it came from; `ungroup` inserts the tab there, hidden workspace or not |
| `staleFocus`, `outputPins`, `pins`, `hotplug` | `ModesAgree` | connecting a monitor recalls windows, and may hide the focused one, without repairing the focus as disconnecting does; the pin key then pins a tile |

All but the `GroupAtLeaf` and `VisibleIsActive` rows fail a `debug_assert` of
`assert_state_invariants`.  The rows with three monitors came out of the proof of
`WindowsAreHeld`: two monitors are too few for them, and an invariant that said that a
monitor has one fullscreen window at most was not inductive.

Elsewhere:

* Deck: `activate_toplevel` and `migrate_output_windows` change the deck under an open
  picker without redrawing it, so recall brings up another window than the
  highlighted one (`RecallsHighlighted`, `SPATIAL_MODEL.md:21`).  A fullscreen request
  of a parked window is granted though it is hidden, and sets aside the output's visible
  fullscreen window (`xdg_shell.rs:486`), where `sink_window`
  (`groups_depth.rs:1353`) and `DOCUMENTATION.md:824` keep such windows out of the deck.
* Layouts: `swap_active` empties a slot without pruning its settings, which the
  comment in `remove` says cannot happen; harmless by `MoveKeepsLayout`.  A window that
  `swap_active` takes from a scratchpad into a numbered slot under Ocean is replaced
  by the way back, like the one of `desktop_strays`.
* Frames: when calloop takes no timer (`refuse`) the surface stays dirty and nothing
  retries it, though a comment promises a poll.
* Scroll: keyboard `resize-*` on a window that is not its column's head writes a width
  that surfaces when the head closes (`DOCUMENTATION.md:2159`); `maximize-column` stays
  at full width when the maximized head leaves (`:1895`); a swipe end whose reveal does
  not move the view leaves half pages (`:2153`, `:2161`); the camera of a stack is keyed
  by its head and lost by moves within the column and between workspaces.
* Engines: a swallowed child with `no_focus` leaves the focus intent on the hidden
  parent (`DOCUMENTATION.md:1619`); a hidden parent that commits a null buffer comes
  back without content; Ocean's slots do not reach every window
  (`app_slot`'s doc in `ocean.rs`).
* Focus: a window opened by rule on a hidden workspace without `no_focus` clears the
  keyboard; an attention request under a layer is dropped; floats never focused can be
  skipped by cycling.
* Keyboard: a reader that grabs a modifier already held makes its release vanish before
  XKB; one that stops grabbing while a modifier is held leaves the peek open;
  `release_stuck_keys` does not tell the keyboard monitor; a reload in mid-hold leaks the
  helper's release (the doc of `helper_keys_down` says never).
* Pointer: a picker opened with a button down swallows its release; a drag started by a
  client or a gesture ends and commits on any other button's event (comment at
  `move_grab.rs:158`); a mouse press commits a finger drag; a second `resize_request`
  on one serial resets the resize state under the new grab.
* Outputs: an output switched off by protocol keeps its pending transition; a refused
  `SetGamma` releases the control without restoring the ramp.
* Bars: with two managers of one client the workspaces of both are announced through
  the first.  A taskbar that binds after the last broadcast keeps the empty state until
  the window's state next changes: `send_state` compares with what was last sent to
  anyone, where `wlr_foreign_toplevel.rs:91` says that the next refresh overwrites it.
  `toggle_floating` drops a maximized state without telling; `move_to_workspace`, maps
  and unmaps do not refresh ext-workspace.
* Commits: an explicit commit over the limit of pending releases is dropped without a
  pending release, so its point is never signalled (`explicit_sync.rs:84`), where the
  header promises that "cancellation releases a point that never reached rendering"; its
  client is disconnected by a protocol error.
* IPC: with handlers that themselves switch workspaces the events of one dispatch need
  not add up (`Handlers = {"next", "home"}`, `WAVE.md:201`).
* Capture and casts: neither the comment of `MAX_CAPTURE_RENDERS` nor that of
  `FrameRequested` holds for streams on dark outputs (`StreamsProgress`,
  `StreamOutlivesDark`); the portal's `create_session` does not check that its caller is
  still there.
* Reload: a file that is included for the first time is watched only after the reload
  that included it, so fixing it when that reload failed does not clear the panel
  (`DOCUMENTATION.md:26`); `load-config-file` of a broken file of the active graph
  leaves the override (`:1884`).

## 6. Proofs

Each theorem holds for all values of the constants, finite or infinite, under the
named `ASSUME`s of the modules, which TLC evaluates in every run (null values are
distinct, limits are natural numbers, the primary button is a button, layers are
finitely many and ranked apart, workspaces are numbered from 1, and the windows,
monitors and workspaces of a desk are finitely many: a hash map of them has an order).  A theorem that assumes more says so in its own
ASSUME.  Where two components are named the theorem is about their two
specifications side by side.

| module | theorem | states |
| --- | --- | --- |
| DepthDeckProofs | `WindowOwnedOnce`, `PickerPointsAtEntry`, `OnlyParkedOnPurpose` | `OwnedOnce`, `ViewSelectsEntry`, `ParkedOnPurpose` |
| | `WindowsAreConserved` | `Conserved` (action property) |
| LayoutsProofs | `TypeCorrect`, `IndexMatchesTrees`, `CurrentSplitIsCaptured` | types, `OwnersAgree`, `GrabKeepsItsSplit` |
| | `RegistryImplementsPlaces`, `MovedWorkspaceLooksTheSame` | `KeepsPromise` (refinement), `MoveKeepsLayout` (action property) |
| FramesProofs | `TypeCorrect`, `OnlyDueFramesAreQueued`, `LockHidesEveryOutput` | types, `OnlyDueFrames`, `LockedHidesDesktop`, whatever fails |
| | `OneFrame`, `NoWakeupIsLost` | `OneFrameInFlight`, `NoLostWakeup`, while calls succeed |
| DevicesProofs | `KeysAreSettled`, `PointerIsSettled`, `OnlyMeantDrops` | `KeysSettled`, `PointerSettled`, `DropsAreMeant` (action property) |
| DesktopProofs | `KeyboardIsSettled`, `CyclingVisitsAll` | `KeyboardSettled`, `CycleVisitsAll` |
| | `WindowsAreOwnedOnce` | `WindowsKeepTheirOwner`, with any number of monitors, on a shared canvas or not |
| | `NothingIsRearranged` | `PlacesAreKept` (action property) |
| ServicesProofs | `OneOrderAtATime`, `LockedCapturesHideTheDesktop` | `StreamOrders`, `LockHidesCaptures` (action properties) |
| | `CapturesAreKept` | `CapturesKept` |
| | `CastsAreSettled`, `ReloadsTrackTheDisk` | `CastsSettled`, `ReloadTracksDisk` |
| ProtocolsProofs | `ConfigurationsAreWhole` | `ConfigurationsLandWhole` (action property) |
| | `ClientsAgreeOnOutputs`, `BarsShowWhatThereIs` | `OutputsAgree`, `MirrorsAgree` |
| | `CommitsAreAccounted` | `CommitsAccounted` |
| | `SubscribersAreServed` | `SubscribersServed`, with no handler that switches workspaces |
| WorkspacesProofs | `WindowsAreHeld` | `WindowsHeld`, with every feature and any number of monitors |
| | `WorkspacesMoveWhole` | `WorkspaceMovesWhole` (action property) |
| | `TabsKeepTheirLeaf` | `GroupAtLeaf`, with every feature but `tabModes` and `outputPins`, which break it |
| | `WhatIsShown`, `ModesFollowPlaces` | `VisibleIsActive`, `ModesAgree`, without the five features that break one of them (section 5) |

The arguments, and why each needs its invariant:

* **DepthDeckProofs.**  `IInv`: deck entries are distinct and the picker points at one
  of them (`GoodDeck`), tiles of different slots and the parked windows are `Apart`, a
  disabled deck is empty.  One lemma per operation of the deck and per handler; each
  also says that tiled and parked windows together stay the same (`WindowsStay`), which
  with the lemmas for a map and a close gives `WindowsAreConserved`, and which windows it
  parks: `Purposely` says of every step that it is a focused tile that may be sunk.
  That no exempt window is parked would be false, so `ParkedOnPurpose` speaks of the
  step that parks and of the disabled deck.
* **LayoutsProofs.**  `Tiling` (index and trees agree, reefs are apart from trees)
  with typed settings and a grab that is stale or fresh: a fresh grab's tree *is* the
  tree of its slot, or the slot has been left.  A check that passes now does not say
  that it passed always, hence the strengthening.  The refinement uses
  that index and trees agree: its places are the index, while calls look into the trees.
  A moved workspace keeps its layout because the algorithm of the target slot is either pinned or the one inherited.
* **FramesProofs.**  The safety properties with `WaitsOnce` (a flip or a timer),
  `FlipBound`, `UnpluggedIsBlank` and `CountedOutputsHide` (an output counted for the
  lock shows no desktop *before* the lock is confirmed).  `OneFrame` and `NoWakeupIsLost`
  add `FlipsComing` and `AllWaking` and assume that calls succeed (no `failure`; for the
  wake-up no `refuse` either): a resume without a renderer loses flips, and a redraw
  without a renderer consumes the requests.
* **DevicesProofs.**  `KeysInv` adds `OneFate` to `KeysSettled`: a key is never both told
  to a client and kept as a helper or grabbed by the reader; without it a blocked
  release, which does not reach the filter, would leave one of the two behind.
  `PointerInv` counts the seat's buttons (`SeatCounts`) and says what a lock leaves.
* **DesktopProofs.**  One lemma about `Reconcile` carries the proof: whatever the
  step did before, seat, activation and menu grab come out right if the pointer's half of
  the grab is owed (`GrabAnswers`).  That a highest layer exists needs finiteness and a
  well-founded order.  `WalkInOrder` says that an Alt-Tab walk goes down a history nothing
  reorders.
  For the engines, `EsInv` says of each window that it is in at most one tree, tag, reef
  or loose list and has one exactly if it is live, not hidden and not a stray
  (`OwnedRightly`); that a hidden window is hidden by one live window and by no other
  (`Meals`), without which the second of two to close would bring it back twice; that
  the engine that runs owns it; and that an Ocean that does not run is empty
  (`Deserted`), or a migration would mix two generations.  Both translations are shown
  to carry owners one to one: workspaces in use go to reefs and back through a sort by
  rank (`Sorted`), the folds and sorts of the libraries being opaque to the prover.
  `RoundTripKeepsTheView` is geometry: islands are laid end to end, so no two workspaces
  share a place (a camera's nearest reef is its own workspace's), and a reef that goes
  to a monitor and lies left of its camera does so by less than an island, so the numbers
  given on the way back fit.
* **ServicesProofs.**  `CfInv` counts who holds a stream's order over every interleaving
  of the two threads; `ScInv` counts reservations and slots of a session and its workers;
  `CpoInv` says who has been asked and whose a thread is; `CrInv` what is watched in each
  phase of a reload: a file the watcher filters by has its directory watched at every
  step (`Heard`), so what was read is still on disk, on its way, or was saved too early
  (`Following`).  `ShotsKept` is all the lock needs: a picture is of what was drawn
  while it was drawn.  `CpInv` says of the capture queue that it is `Sound` (an entry is
  one shot, or streams that agree on the cursor, and nobody waits in two) and that who is
  asked is who waits (`CpAccounts`).  What the render loop puts back stands, entry by
  entry, for what it took out (`From`): merged streams only get fewer, so no limit is
  overrun.  What the recursive filter `Only` leaves is shown by its least counterexample
  (`Lowest`), the library's induction theorems being out of reach.
* **ProtocolsProofs.**  `OmInv` keeps what a configuration quotes (`Quoted`): with its
  serial still current, the desktop it was written against is the live one.  That the
  desktop stays in the coordinate domain needs `ResolvedFits`: the last resort of
  `resolve_output_position` is always valid.  `OcInv` ties tracked power to the CRTC.
  `TmInv` lists every handle and says which is `late` and what is `unsaid`; `WmInv` says
  of every handle through which manager it was announced (`Announced`), which the refresh
  by differences must keep, whether or not that is the manager it is listed under.
  `BcInv` follows each surface (`Traced`): its queue holds its own commits once, the
  explicit ones among them are listed and not finished, and a point is `Over` (signalled,
  or turned down with its client) exactly when its commit neither waits nor is kept;
  `TurnedDown` says what is left of those of a client that is gone.  With `Watched` (a held commit of a client
  that is up has a watcher, and so has a fence) that is inductive; `AppliedIs` says what
  reading a queue does, whichever way the client mixes buffers and sync points.
  `IpInv` follows each subscriber to the end of its backlog: what it will have been told
  once everything is sent (`Told`) is unbroken, ends where the desktop is and repeats the
  facts last reported (`InTune`).  Hearing some lines now and the rest later is hearing
  them all (`HearSplit`), so a flush changes nothing, and a stream that survives emitting
  lines was told each of them (`EmittedAllIs`); both recursions go by `Lowest`.
* **WorkspacesProofs.**  `Held` says of a desk that every mapped window is in exactly one
  of the trees, the tags and the parked tabs (`Once`), that groups have two tabs or more
  and share none (`Apart`), that only what has a tile or a tag is shown, and that every
  place is on one of the outputs `Reach`: the lit ones or, with the last one gone, any.
  What is shown belongs to it because floating or grouping a window asks whether it is
  shown and then takes its tile for granted.  One lemma per operation, of four kinds:
  the operation leaves the owners as they are (`Same`), moves places only (`Rearranged`),
  makes a tile of a floater or the reverse (`Traded`), or changes who owns what (tabs,
  map, unmap).  Connecting and disconnecting go from one set of outputs to another:
  adoption, recall and migration are folds whose invariant says what is still left on
  the outputs that are gone.  For `WorkspacesMoveWhole` a send and a swap are shown to
  rename the places of a desk (`Renamed`) and to keep apart those in use (`Distinct`):
  the slot of a send is vacant for tiles, floaters and parked tabs alike (`SlotVacant`).
  `TabsKeepTheirLeaf` adds `Leafed` (the visible tab of a group is a tile of the group's
  home) to `Held` and says of each operation what it does to the trees and the groups:
  nothing (`Still`), nothing but to one window that is no tab (`Loose`), or the same to a
  tile and to a home (`Relocated`, `Renamed`); the operations on tabs hand the leaf over.
  It also shows that `MayLeave` and the like never refuse: those guards matter only with
  the two features left out.
  `WhatIsShown` and `ModesFollowPlaces` share one more invariant, `Settled`, which says of
  a desk what assert_state_invariants asserts and what it does not.  `Moded` relates a
  mode to a place: pins to floaters out of fullscreen, a maximized window to the output
  of its tag, a fullscreen one to the output of its place, one to an output, and a tile's
  has no pin to come back to; a floater lies on the output that owns it (`OverAt`), and a
  tab has no mode (`Untabbed`).  The last three are asserted nowhere and the rest
  is not inductive without them: `rendered_output_for_surface` believes the rectangle,
  and what gives up a tab does not look at its modes.  `InView` says that no tile of a
  hidden workspace is shown and just the floaters that should be, `LitTiles` that every
  tile of an open one is.  Only `retile` establishes `LitTiles`, and handlers that call
  each other pass through states without it, so most lemmas show `Moded` and `InView`
  (`Agree`) of what is retiled.  Each operation is described by what it does to a window
  (`Floated`, `Sunken`, `Settling`), to an output and its fullscreen window (`RoomMade`,
  `Cleared`, `MadeWay`), or to windows on their way to another one (`Shifted`, `Carried`,
  `Arrived`, `ModesFled`), and `Pins`, the pins with those suspended in fullscreen
  entries, is followed through all of them, which gives `PinIntent`.

**Model-checked only.**

* Liveness (`CalmDamageIsDrawn`, `CalmLockIsConfirmed`, `ServicesComplete`): it needs
  ENABLED and fairness, which are beyond the prover.
* `ViewIsKept`, `ColumnsAreKept`: columns and views are read off leaf order by folding,
  flattening and filtering sequences, which takes induction over data.

## 7. Not modelled

`PROJECT.json` lists each part with its reason.  Rendering, effects, physics,
placements and Ebb's thresholds are real-valued; the Wave language, window rules and
the IPC queries are text; the nested back end, scene assembly, tearing hints and
start-up have no protocol of their own; the restart of the XWayland satellite and the
Ebb trim pass are in the plan.

In `Workspaces`: geometry beyond the output a rectangle lies on, and with it the
pointer's say over a window that straddles two monitors; animated switches, which are
deferred; the way back from a scratchpad; tags and rules beyond those that place a
window; the Scroll column moves (`ScrollColumns`), swallowing and Ocean
(`EngineSwitch`) in one state with the rest.  In `Focus`: activation tokens,
directional focus, pointer constraints.  In `Pointer`: touch, tablets, the wheel,
pinches, and where a drag goes.  In `ScrollColumns`: row weights, floaters anchored to
a strip, groups in columns, fullscreen extents.  In `ConfigReload`: cyclic includes
and directories that vanish.  In `Screencast` a PipeWire start that times out is
dropped at once, where the code hands it to a reaper thread.

Hazards known and not followed further: rules of hidden windows are re-evaluated only
by some callers (`swap_direction` across monitors, unpinning, an engine switch over
IPC); the Ebb audit can starve deep passes; `mark_urgent` and the deferred switch of an
animated workspace change race with hotplug.
