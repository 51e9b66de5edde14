--------------------------- MODULE EngineSwitch ---------------------------
(***************************************************************************)
(* Who owns a window while it maps, is swallowed, unmaps and dies, and     *)
(* while the spatial engine changes under it (the lifecycle half of        *)
(* src/src/handlers/xdg_shell.rs; migrate_spatial_engine in                *)
(* src/src/tide_core/state/spatial.rs; the two translations in             *)
(* src/src/tide_core/state/ocean.rs).                                      *)
(*                                                                         *)
(* The Classic engine keeps a tiling tree per monitor and workspace and a  *)
(* tag per floating window; the Ocean engine keeps reefs on one lateral    *)
(* line, floating windows beside them and a camera per monitor.  A tree is *)
(* its windows in leaf order.  Positions are counted in strides of one     *)
(* workspace, all monitors being of one size, and zoom stays at 1.  The    *)
(* Scroll engine shares Classic's membership and is the same here.  Depth  *)
(* deck, tab groups and fullscreen have modules of their own.              *)
(***************************************************************************)
EXTENDS Integers, FiniteSets, Sequences, SequencesExt

CONSTANTS Apps,          \* toplevel surfaces
          MonitorOrder,  \* the connected monitors, in Space order
          Numbered,      \* how many numbered workspaces are used
          Swallowers,    \* windows a `swallow = true` rule matches
          SpawnedBy,     \* pairs <<app, ancestor>> of client processes
          SharedCanvas   \* ocean.shared_canvas

Heads == Range(MonitorOrder)
Scratchpad == Numbered + 1
Spaces == 1 .. Scratchpad
Trees == Heads \X Spaces

ASSUME EsAssumption == /\ MonitorOrder \in Seq(Heads) /\ IsInjective(MonitorOrder)
                       /\ Heads # {} /\ Numbered \in Nat \ {0} /\ SharedCanvas \in BOOLEAN
                       /\ Swallowers \subseteq Apps /\ SpawnedBy \subseteq Apps \X Apps
                       /\ \A a \in Apps : <<a, a>> \notin SpawnedBy

VARIABLES surface,   \* each role: "none", "unmapped", "live" (mapped or hidden), "dead"
          attached,  \* surfaces with a buffer
          classic,   \* [tree, tag, pinned, active, before]: Layouts and the floating tags
          ocean,     \* [reefs, loose, entry, pins, camera]: OceanSpace
          eaten,     \* swallowed: child -> what it hides
          spatial,   \* the engine in force, "classic" or "ocean"
          strays     \* swallowed windows given back to Classic while Ocean ran

esVars == <<surface, attached, classic, ocean, eaten, spatial, strays>>

Nowhere == [x \in {} |-> x]
Lose(f, gone) == [x \in DOMAIN f \ gone |-> f[x]]
Bind(f, x, v) == [y \in DOMAIN f \cup {x} |-> IF y = x THEN v ELSE f[y]]
Less(s, a) == RemoveFirst(s, a)
Least(S) == CHOOSE x \in S : \A y \in S : x <= y
Nth(m) == CHOOSE i \in DOMAIN MonitorOrder : MonitorOrder[i] = m
Away(x, y) == IF x < y THEN y - x ELSE x - y

\* insert_into: beside the target, or beside the last leaf.
Beside(tree, a, target) ==
    IF target \in Range(tree) THEN InsertAt(tree, SelectInSeq(tree, LAMBDA x : x = target) + 1, a)
    ELSE Append(tree, a)

-----------------------------------------------------------------------------
\* Where a window is, read from the tables that own windows.

TileOf(c, a) == {t \in Trees : a \in Range(c.tree[t])}
Reefs(o) == DOMAIN o.reefs
ReefOf(o, a) == {r \in Reefs(o) : a \in Range(o.reefs[r].wins)}

\* mapped_toplevel_window(a).is_some(): any table of either engine.
Mapped(a) == \/ TileOf(classic, a) # {} \/ a \in DOMAIN classic.tag
             \/ ReefOf(ocean, a) # {} \/ a \in DOMAIN ocean.loose

Hidden == {eaten[c].of : c \in DOMAIN eaten}

\* The windows a monitor shows, as Space is rebuilt from the owner.
OnDesk(c, m) == Range(c.tree[<<m, c.active[m]>>])
                  \cup {a \in DOMAIN c.tag : /\ c.tag[a].out = m
                                             /\ a \in c.pinned \/ c.tag[a].desk = c.active[m]}
Seen(a) == IF spatial = "classic" THEN \E m \in Heads : a \in OnDesk(classic, m)
           ELSE ReefOf(ocean, a) # {} \/ a \in DOMAIN ocean.loose

-----------------------------------------------------------------------------
\* Ocean: inserting into a reef, and removing.

\* visible_on_output
SeenFrom(o, a, m) == IF a \in DOMAIN o.pins THEN o.pins[a] = m
                     ELSE SharedCanvas \/ a \notin DOMAIN o.entry \/ o.entry[a] = m

\* reef_accepts_output
Accepts(o, r, m) == SharedCanvas \/ \A a \in Range(o.reefs[r].wins) : SeenFrom(o, a, m)

\* anchor_empty_reef_to_camera: an implicit reef with no tile follows the camera.
Anchored(reef, at) == IF reef.auto /\ reef.wins = <<>> THEN [reef EXCEPT !.at = at] ELSE reef

Holding(reef, a, target) == [reef EXCEPT !.wins = Beside(@, a, target)]
Lacking(reef, a) == [reef EXCEPT !.wins = Less(@, a)]

ReefIn(o, r, a, target, m) ==
    [o EXCEPT !.reefs[r] = Holding(Anchored(@, o.camera[m]), a, target),
              !.entry = Bind(@, a, m)]

\* OceanSpace::insert: the reef of the target, or the nearest one that takes the
\* monitor's windows.  Where a nearer one is in view and keeps another monitor's
\* windows, a private reef of the same place opens; if none fits, one at the camera.
IntoReef(o, a, target, m) ==
    LET fits == {r \in Reefs(o) : Accepts(o, r, m)}
        far(r) == Away(o.reefs[r].at, o.camera[m])
        closest(S) == Least({r \in S : \A q \in S : far(r) <= far(q)})
        asked == {r \in fits : target \in Range(o.reefs[r].wins) /\ SeenFrom(o, target, m)}
        near == closest(Reefs(o))
        private == /\ Reefs(o) # {} /\ far(near) = 0
                   /\ \A r \in fits : far(r) # 0
        opened(auto) == [o EXCEPT !.reefs = Append(@, [at |-> o.camera[m], wins |-> <<>>, auto |-> auto])]
    IN IF asked # {} THEN ReefIn(o, Least(asked), a, target, m)
       ELSE IF private THEN ReefIn(opened(o.reefs[near].auto), Len(o.reefs) + 1, a, target, m)
       ELSE IF fits = {} THEN ReefIn(opened(TRUE), Len(o.reefs) + 1, a, target, m)
       ELSE ReefIn(o, closest(fits), a, target, m)

\* Mutant of Sunk: a window is removed from the reefs only.
SunkTilesOnly(o, a) ==
    [o EXCEPT !.reefs = [r \in DOMAIN @ |-> Lacking(@[r], a)]]

\* OceanSpace::remove
Sunk(o, a) == [o EXCEPT !.reefs = [r \in DOMAIN @ |-> Lacking(@[r], a)],
                        !.loose = Lose(@, {a}), !.entry = Lose(@, {a}),
                        !.pins = Lose(@, {a})]

\* make_floating: a tile of reef r floats where the reef is.
Unmoored(o, r, a) == [o EXCEPT !.reefs[r] = Lacking(@, a),
                               !.loose = Bind(@, a, o.reefs[r].at)]

\* The Classic half of detach_mapped_toplevel.
Untiled(c, a) == [c EXCEPT !.tree = [t \in Trees |-> Less(@[t], a)],
                           !.tag = Lose(@, {a}), !.pinned = @ \ {a}]

TiledIn(c, a, t, target) == [c EXCEPT !.tree[t] = Beside(@, a, target)]

-----------------------------------------------------------------------------
\* Engine migration.

\* The workspace a camera is pointed at: a shown scratchpad counts as the
\* workspace it was opened from.
Origin(c, m) == IF c.active[m] # Scratchpad THEN c.active[m]
                ELSE IF c.before[m] = 0 THEN 1 ELSE c.before[m]

\* Mutant of Leaving: a pinned window stays in the scratchpad it is tagged with.
LeavingShown(c) == {a \in DOMAIN c.tag : c.tag[a].desk # Scratchpad}

Leaving(c) == {a \in DOMAIN c.tag : c.tag[a].desk # Scratchpad \/ a \in c.pinned}
LeavingDesk(c, a) == IF c.tag[a].desk = Scratchpad THEN Origin(c, c.tag[a].out) ELSE c.tag[a].desk

\* ocean_island_origins: each monitor's island is as long as its highest
\* workspace in use, and begins behind the strides of the monitors before it.
Span(c, m) ==
    LET used == {d \in 1 .. Numbered : c.tree[<<m, d>>] # <<>>}
                  \cup {LeavingDesk(c, a) : a \in {b \in Leaving(c) : c.tag[b].out = m}}
                  \cup {Origin(c, m)}
    IN CHOOSE d \in used : \A e \in used : e <= d
Base(c, i) == Cardinality({stride \in (1 .. i - 1) \X (1 .. Numbered) :
                              stride[2] <= Span(c, MonitorOrder[stride[1]])})
Island(c, m) == Base(c, Nth(m))

\* The members of S, sorted by the pairs of `before`.
Sorted(S, before) ==
    [i \in 1 .. Cardinality(S) |->
        CHOOSE x \in S : Cardinality({y \in S : <<y, x>> \in before}) = i - 1]

InUse(c) == {t \in Trees : t[2] # Scratchpad /\ c.tree[t] # <<>>}

\* The populated workspaces from left to right.  The code takes those of one
\* monitor in the order of a hash map, which only says which of two equally
\* near reefs comes first: here the left one.
LeftOf(s, t) == Nth(s[1]) < Nth(t[1]) \/ (s[1] = t[1] /\ s[2] < t[2])
TreesInLine(c) == Sorted(InUse(c), {pair \in Trees \X Trees : LeftOf(pair[1], pair[2])})

\* migrate_classic_to_ocean: every populated workspace becomes a reef on its
\* monitor's island, floating windows go along, pins become screen pins, and
\* the scratchpads stay where they are.
ToOcean(c, o) ==
    LET line == TreesInLine(c)
        tiled == UNION {Range(c.tree[line[i]]) : i \in DOMAIN line}
        off == Leaving(c)
        home(a) == IF a \in off THEN c.tag[a].out
                   ELSE (CHOOSE t \in TileOf(c, a) : TRUE)[1]
    IN [ classic |-> [c EXCEPT !.tree = [t \in Trees |-> IF t[2] = Scratchpad THEN @[t] ELSE <<>>],
                               !.tag = Lose(@, off), !.pinned = {},
                               !.before = [m \in Heads |-> 0]],
         ocean |-> [ reefs |-> [i \in DOMAIN line |->
                        [at |-> Island(c, line[i][1]) + line[i][2] - 1,
                         wins |-> c.tree[line[i]], auto |-> FALSE]],
                     loose |-> [a \in off |-> Island(c, c.tag[a].out) + LeavingDesk(c, a) - 1],
                     entry |-> [a \in tiled \cup off |-> home(a)],
                     pins |-> [a \in off \cap c.pinned |-> c.tag[a].out],
                     camera |-> [m \in Heads |-> Island(c, m) + Origin(c, m) - 1] ] ]

\* The first monitor whose camera is nearest to x.
NearestHead(o, x) ==
    MonitorOrder[Least({i \in DOMAIN MonitorOrder :
        \A j \in DOMAIN MonitorOrder :
            Away(o.camera[MonitorOrder[i]], x) <= Away(o.camera[MonitorOrder[j]], x)})]

\* The monitor a reef goes to: that of its first window, and with a shared
\* canvas or no window the one looking at it.
ReefHead(o, reef) ==
    IF SharedCanvas \/ reef.wins = <<>> THEN NearestHead(o, reef.at) ELSE o.entry[Head(reef.wins)]

\* The first slot of monitor m whose reef is nearest to x.
NearestSlot(slots, m, x) ==
    LET mine == {i \in DOMAIN slots : slots[i].out = m} IN
    Least({i \in mine : \A j \in mine : Away(slots[i].at, x) <= Away(slots[j].at, x)})

\* The reefs from left to right, those of one place in the order of the list.
Ahead(o, p, q) == \/ o.reefs[p].at < o.reefs[q].at
                  \/ o.reefs[p].at = o.reefs[q].at /\ p < q
ReefsInLine(o) == Sorted(Reefs(o), {pair \in Reefs(o) \X Reefs(o) : Ahead(o, pair[1], pair[2])})

\* The workspaces the reefs become, numbered on each monitor.
Slots(o) ==
    LET line == ReefsInLine(o)
        owner(i) == ReefHead(o, o.reefs[line[i]])
    IN  [i \in DOMAIN line |->
            [out |-> owner(i), at |-> o.reefs[line[i]].at, wins |-> o.reefs[line[i]].wins,
             desk |-> Cardinality({j \in 1 .. i : owner(j) = owner(i)})]]

\* migrate_ocean_to_classic: reefs, empty ones too, become workspaces 1..N of
\* their monitor from left to right, each replacing the tree that held that
\* number; a camera selects the workspace nearest to it; a floating window
\* keeps its monitor and takes its nearest workspace there.
ToClassic(c, o) ==
    LET slots == Slots(o)
        taken(t) == {i \in DOMAIN slots : slots[i].out = t[1] /\ slots[i].desk = t[2]}
        has(m) == \E i \in DOMAIN slots : slots[i].out = m
        head(a) == IF a \in DOMAIN o.pins THEN o.pins[a] ELSE o.entry[a]
        desk(m, x) == IF has(m) THEN slots[NearestSlot(slots, m, x)].desk ELSE 1
    IN [ classic |->
           [c EXCEPT !.tree = [t \in Trees |-> IF taken(t) = {} THEN @[t]
                                               ELSE slots[CHOOSE i \in taken(t) : TRUE].wins],
                     !.active = [m \in Heads |-> desk(m, o.camera[m])],
                     !.tag = [a \in DOMAIN @ \cup DOMAIN o.loose |->
                                IF a \in DOMAIN o.loose
                                THEN [out |-> head(a), desk |-> desk(head(a), o.loose[a])]
                                ELSE @[a]],
                     !.pinned = @ \cup (DOMAIN o.pins \cap DOMAIN o.loose)],
         ocean |-> [reefs |-> <<>>, loose |-> Nowhere, entry |-> Nowhere, pins |-> Nowhere,
                    camera |-> [m \in Heads |-> 0]] ]

\* A workspace number past the ones in use cannot be told from the scratchpad
\* here, so a migration that would need one is left out.
Fits(r) == \A m \in Heads : Cardinality({i \in Reefs(r) : ReefHead(r, r.reefs[i]) = m}) <= Numbered

\* migrate_spatial_engine: a locked session, a grab or no monitor refuses it,
\* which changes nothing.
SwitchEngine ==
    LET moved == IF spatial = "classic" THEN ToOcean(classic, ocean) ELSE ToClassic(classic, ocean)
    IN /\ spatial = "ocean" => Fits(ocean)
       /\ classic' = moved.classic /\ ocean' = moved.ocean
       /\ spatial' = IF spatial = "classic" THEN "ocean" ELSE "classic"
       /\ UNCHANGED <<surface, attached, eaten, strays>>

-----------------------------------------------------------------------------
\* The life of a toplevel.

\* restore_swallowed's destination: the child's own tile, else the active
\* workspace of the primary monitor; Classic's, whichever engine runs.
GiveBack(a, m) ==
    LET own == TileOf(classic, a)
        t == IF own # {} THEN CHOOSE x \in own : TRUE ELSE <<m, classic.active[m]>>
    IN IF a \in DOMAIN eaten THEN TiledIn(classic, eaten[a].of, t, a) ELSE classic

\* detach_mapped_toplevel of a, after restore_swallowed(a).
Detach(a) ==
    /\ \E m \in Heads : classic' = Untiled(GiveBack(a, m), a)
    /\ ocean' = Sunk(ocean, a)
    /\ eaten' = Lose(eaten, {a} \cup {c \in DOMAIN eaten : eaten[c].of = a})
    /\ strays' = IF a \in DOMAIN eaten /\ spatial = "ocean"
                 THEN (strays \cup {eaten[a].of}) \ {a} ELSE strays \ {a}

\* swallow_candidate: the first tile there that a rule marks and that
\* belongs to an ancestor process.
Candidates(a, t) == LET s == classic.tree[t] IN
    {i \in DOMAIN s : s[i] \in Swallowers /\ <<a, s[i]>> \in SpawnedBy}

\* map_toplevel under Classic, on workspace d of monitor m, beside `target`.
MapTiled(a, m, d, target) ==
    LET t == <<m, d>>
        prey == Candidates(a, t)
        victim == classic.tree[t][Least(prey)]
    IN IF prey = {}
       THEN classic' = TiledIn(classic, a, t, target) /\ UNCHANGED eaten
       ELSE /\ classic' = Untiled(TiledIn(classic, a, t, victim), victim)
            /\ eaten' = Bind(eaten, a, [of |-> victim, out |-> m, desk |-> d])

MapClassic(a) == \E m \in Heads, d \in 1 .. Numbered :
    /\ \/ \E target \in Apps : MapTiled(a, m, d, target)
       \/ /\ \E pin \in BOOLEAN :
                classic' = [classic EXCEPT !.tag = Bind(@, a, [out |-> m, desk |-> d]),
                                           !.pinned = IF pin THEN @ \cup {a} ELSE @]
          /\ UNCHANGED eaten
    /\ UNCHANGED ocean

\* Under Ocean a float or pin rule takes the window out of its reef again.
MapOcean(a) ==
    /\ \E m \in Heads, target \in Apps :
          LET tiled == IntoReef(ocean, a, target, m)
              r == CHOOSE r \in ReefOf(tiled, a) : TRUE
              loose == Unmoored(tiled, r, a)
          IN ocean' \in {tiled, loose, [loose EXCEPT !.pins = Bind(@, a, m)]}
    /\ UNCHANGED <<classic, eaten>>

\* CompositorHandler::commit for a toplevel: handle_commit's transition from
\* how the compositor tracks it and whether a buffer is attached.
Commit(a, buffer) ==
    /\ surface[a] \in {"unmapped", "live"}
    /\ attached' = IF buffer THEN attached \cup {a} ELSE attached \ {a}
    /\ CASE surface[a] = "unmapped" /\ buffer ->
               /\ surface' = [surface EXCEPT ![a] = "live"]
               /\ IF spatial = "classic" THEN MapClassic(a) ELSE MapOcean(a)
               /\ UNCHANGED strays
         [] Mapped(a) /\ ~buffer -> Detach(a) /\ surface' = [surface EXCEPT ![a] = "unmapped"]
         [] OTHER -> UNCHANGED <<surface, classic, ocean, eaten, strays>>
    /\ UNCHANGED spatial

NewToplevel(a) ==
    /\ surface[a] = "none"
    /\ surface' = [surface EXCEPT ![a] = "unmapped"]
    /\ UNCHANGED <<attached, classic, ocean, eaten, spatial, strays>>

\* toplevel_destroyed
Destroyed(a) ==
    /\ surface[a] \in {"unmapped", "live"}
    /\ surface' = [surface EXCEPT ![a] = "dead"]
    /\ Detach(a)
    /\ attached' = attached \ {a}
    /\ UNCHANGED spatial

-----------------------------------------------------------------------------
\* What the user does to live windows.

Desktop(c, o) == classic' = c /\ ocean' = o /\ UNCHANGED <<surface, attached, eaten, spatial, strays>>

\* switch_workspace, and toggle_scratchpad, which remembers where it came from.
SwitchSpace(m, d) ==
    /\ spatial = "classic" /\ d # classic.active[m]
    /\ Desktop([classic EXCEPT !.active[m] = d,
                               !.before[m] = IF d = Scratchpad THEN classic.active[m] ELSE @], ocean)

\* move_to_workspace, the scratchpad included.
SendTo(a, d) ==
    /\ spatial = "classic"
    /\ \/ \E t \in TileOf(classic, a) : t[2] # d /\
            Desktop(TiledIn(Untiled(classic, a), a, <<t[1], d>>, a), ocean)
       \/ /\ a \in DOMAIN classic.tag /\ classic.tag[a].desk # d
          /\ Desktop([classic EXCEPT !.tag[a].desk = d], ocean)

\* toggle_floating: Classic acts on shown windows only.
ToggleFloat(a) ==
    \/ /\ spatial = "classic" /\ Seen(a)
       /\ \/ \E t \in TileOf(classic, a) :
                Desktop([Untiled(classic, a) EXCEPT
                           !.tag = Bind(@, a, [out |-> t[1], desk |-> classic.active[t[1]]])], ocean)
          \/ /\ a \in DOMAIN classic.tag
             /\ \E target \in Apps :
                  LET m == classic.tag[a].out IN
                  Desktop(TiledIn(Untiled(classic, a), a, <<m, classic.active[m]>>, target), ocean)
    \/ /\ spatial = "ocean"
       /\ \/ \E r \in ReefOf(ocean, a) : Desktop(classic, Unmoored(ocean, r, a))
          \/ /\ a \in DOMAIN ocean.loose
             /\ \E m \in Heads, target \in Apps :
                  Desktop(classic, IntoReef([ocean EXCEPT !.loose = Lose(@, {a}),
                                                          !.pins = Lose(@, {a})], a, target, m))

\* toggle_pin of a floating window; an unpinned Ocean window stays under the camera.
TogglePin(a) ==
    \/ /\ spatial = "classic" /\ Seen(a) /\ a \in DOMAIN classic.tag
       /\ Desktop([classic EXCEPT !.pinned = IF a \in @ THEN @ \ {a} ELSE @ \cup {a},
                                  !.tag[a].desk = IF a \in classic.pinned
                                                  THEN classic.active[classic.tag[a].out] ELSE @], ocean)
    \/ /\ spatial = "ocean" /\ a \in DOMAIN ocean.loose
       /\ Desktop(classic, IF a \in DOMAIN ocean.pins
                           THEN [ocean EXCEPT !.pins = Lose(@, {a}),
                                              !.loose[a] = ocean.camera[ocean.pins[a]]]
                           ELSE [ocean EXCEPT !.pins = Bind(@, a, ocean.entry[a])])

\* Camera motion, one stride at a time.
Travel(m, x) ==
    /\ spatial = "ocean" /\ x \in 0 .. Len(MonitorOrder) * Numbered - 1 /\ x # ocean.camera[m]
    /\ Desktop(classic, [ocean EXCEPT !.camera[m] = x])

-----------------------------------------------------------------------------
EsInit ==
    /\ surface = [a \in Apps |-> "none"] /\ attached = {}
    /\ classic = [tree |-> [t \in Trees |-> <<>>], tag |-> Nowhere, pinned |-> {},
                  active |-> [m \in Heads |-> 1], before |-> [m \in Heads |-> 0]]
    /\ ocean = [reefs |-> <<>>, loose |-> Nowhere, entry |-> Nowhere, pins |-> Nowhere,
                camera |-> [m \in Heads |-> 0]]
    /\ eaten = Nowhere /\ spatial = "classic" /\ strays = {}

EsNext ==
    \/ SwitchEngine
    \/ \E a \in Apps : \/ NewToplevel(a) \/ Destroyed(a)
                       \/ \E buffer \in BOOLEAN : Commit(a, buffer)
                       \/ ToggleFloat(a) \/ TogglePin(a)
                       \/ \E d \in Spaces : SendTo(a, d)
    \/ \E m \in Heads : \/ \E d \in Spaces : SwitchSpace(m, d)
                        \/ \E x \in 0 .. Len(MonitorOrder) * Numbered - 1 : Travel(m, x)

EsSpec == EsInit /\ [][EsNext]_esVars

-----------------------------------------------------------------------------
\* Type correctness of the tables both engines keep.
EsTypeOK ==
    /\ surface \in [Apps -> {"none", "unmapped", "live", "dead"}] /\ attached \subseteq Apps
    /\ \A t \in Trees : classic.tree[t] \in Seq(Apps)
    /\ DOMAIN classic.tag \subseteq Apps /\ classic.pinned \subseteq DOMAIN classic.tag
    /\ classic.active \in [Heads -> Spaces] /\ classic.before \in [Heads -> 0 .. Numbered]
    /\ \A r \in Reefs(ocean) : ocean.reefs[r].wins \in Seq(Apps)
    /\ DOMAIN ocean.pins \subseteq DOMAIN ocean.loose /\ ocean.camera \in [Heads -> Nat]
    /\ DOMAIN eaten \subseteq Apps /\ Hidden \subseteq Apps
    /\ spatial \in {"classic", "ocean"} /\ strays \subseteq Apps

Places(a) == Cardinality(TileOf(classic, a)) + Cardinality(ReefOf(ocean, a))
               + Cardinality({a} \cap DOMAIN classic.tag) + Cardinality({a} \cap DOMAIN ocean.loose)

\* No window has two owners, whatever maps, swallows, dies or migrates; one
\* that is unmapped, dead or hidden by a swallow has none; and one that is
\* live has one, unless it was given back to Classic while Ocean ran.
LiveWindowsOwnedOnce ==
    \A a \in Apps :
        /\ Places(a) <= 1
        /\ surface[a] # "live" \/ a \in Hidden => Places(a) = 0
        /\ surface[a] = "live" /\ a \notin Hidden /\ a \notin strays => Places(a) = 1

\* A live window is owned by the engine that runs, or waits in a scratchpad.
EngineOwnsItsWindows ==
    \A a \in Apps \ strays :
        spatial = "ocean" => /\ a \notin DOMAIN classic.tag \/ classic.tag[a].desk = Scratchpad
                            /\ \A t \in TileOf(classic, a) : t[2] = Scratchpad

\* Engine changes move every live window (docs); a swallowed one does not
\* come back if the window that hid it closed in Ocean.
EveryLiveWindowIsOwned ==
    \A a \in Apps : surface[a] = "live" /\ a \notin Hidden => Places(a) = 1

\* Changing the engine keeps the windows of a workspace together and in order,
\* leaves floating windows floating and pinned ones pinned, and shows nothing
\* that was put away in a scratchpad.
MigrationKeepsCompany ==
        spatial' # spatial =>
          LET kept == {s \in {classic.tree[t] : t \in Trees} \cup {ocean.reefs[r].wins : r \in Reefs(ocean)} :
                         s # <<>> /\ Range(s) \cap strays = {}}
          IN /\ \A s \in kept : \/ \E t \in Trees : classic'.tree[t] = s
                                \/ \E r \in DOMAIN ocean'.reefs : ocean'.reefs[r].wins = s
             /\ DOMAIN classic.tag \cup DOMAIN ocean.loose
                  = DOMAIN classic'.tag \cup DOMAIN ocean'.loose
             /\ classic.pinned \cup DOMAIN ocean.pins = classic'.pinned \cup DOMAIN ocean'.pins
             /\ \A m \in Heads : classic'.tree[<<m, Scratchpad>>] = classic.tree[<<m, Scratchpad>>]
             /\ \A a \in DOMAIN classic.tag \ classic.pinned :
                  classic.tag[a].desk = Scratchpad => a \in DOMAIN classic'.tag /\ classic'.tag[a] = classic.tag[a]

\* Classic to Ocean and back shows on each monitor the tiles it showed before.
RoundTripKeepsTheView ==
    spatial = "classic" =>
        LET there == ToOcean(classic, ocean)
            back == ToClassic(there.classic, there.ocean).classic
        IN \A m \in Heads : LET shown == classic.tree[<<m, Origin(classic, m)>>] IN
             shown # <<>> => back.tree[<<m, back.active[m]>>] = shown

\* A window that hid another in its tile, and closes or unmaps while Classic
\* runs, leaves it at its own place in the tree.
SwallowedComesBackInPlace ==
        \A c \in DOMAIN eaten : \A t \in TileOf(classic, c) :
          spatial = "classic" /\ c \notin DOMAIN eaten' /\ surface[eaten[c].of] = "live"
                /\ surface'[eaten[c].of] = "live" =>
            LET s == classic.tree[t] IN
            classic'.tree[t] = [i \in DOMAIN s |-> IF s[i] = c THEN eaten[c].of ELSE s[i]]

\* Ownership holds together (map, swallow, unmap, migrate_spatial_engine).
WindowsKeepTheirOwner ==
  EsTypeOK /\ LiveWindowsOwnedOnce /\ EngineOwnsItsWindows /\ RoundTripKeepsTheView

\* Nothing is rearranged behind the user's back, neither by a change of the
\* engine nor by a window that gives its place back.
PlacesAreKept == [][MigrationKeepsCompany /\ SwallowedComesBackInPlace]_esVars
=============================================================================
