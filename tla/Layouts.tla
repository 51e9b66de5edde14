------------------------------ MODULE Layouts ------------------------------
(***************************************************************************)
(* The layout registry (Layouts of src/src/tide_core/layout.rs): one BSP   *)
(* tree per (output, workspace), an index from window to tree, the active  *)
(* workspace of every output, per-workspace layout settings, and the       *)
(* revision by which a pointer grab learns that its split is gone.         *)
(*                                                                         *)
(* Each action is one call of the registry as the compositor's handlers    *)
(* make it; Workspaces-level sequences of calls are sequences of actions.  *)
(* A tree absent from the source's map and an empty tree are one value.    *)
(* Left out: split ratios and cascade partitions (geometry), the Scroll    *)
(* engine's columns.                                                       *)
(***************************************************************************)
EXTENDS BspTree, FiniteSets

CONSTANTS Output, Workspace,  \* Workspace is a set of numbers with 1 in it
          Kept,               \* scratchpad workspaces: they stay in an engine switch
          Settable,           \* bound: the slots whose layout the user changes
          Configs,            \* bound: the layouts workspaces inherit, over all configs
          NoWindow, NoGrab, StaleGrab

ASSUME KeptAssumption == Kept \subseteq Workspace /\ 1 \in Workspace \ Kept

Key == Output \X Workspace
Algorithm == {"bsp", "cascade"}  \* all but bsp refuse split grabs, as cascade does

ASSUME NoWindowAssumption == NoWindow \notin Key \cup Window
ASSUME BoundsAssumption == Settable \subseteq Key /\ Configs \subseteq [Workspace -> Algorithm]

VARIABLES
    trees,       \* [Key -> tree]
    owners,      \* the owner index: a function from the tiled windows to Key
    active,      \* [Output -> Workspace]
    algorithms,  \* explicit per-slot choices: a function from slots to Algorithm
    inherited,   \* what algorithm() falls back to: workspace_rule, else the default
    master,      \* the slots with an entry in master_ratio
    grab,        \* NoGrab, or the SplitHit a pointer grab holds with a copy of its
                 \* tree, or StaleGrab once topology_revision has moved on from the
                 \* hit's: the revision never comes back
    engine,      \* "classic" or "ocean"
    reefs        \* the trees Ocean owns

vars == <<trees, owners, active, algorithms, inherited, master, grab, engine, reefs>>
settings == <<algorithms, inherited, master>>
world == <<engine, reefs>>

Populated == {k \in Key : trees[k] # EmptyTree}
AlgorithmOf(k) == IF k \in DOMAIN algorithms THEN algorithms[k] ELSE inherited[k[2]]

Reefed == UNION {Tiles(t) : t \in reefs}
Unowned(w) == w \notin DOMAIN owners /\ w \notin Reefed

Hit == [key : Key, path : Seq(Side), tree : Seq(Leaf)]

TypeOK ==
    /\ trees \in [Key -> Seq(Leaf)]
    /\ DOMAIN owners \subseteq Window /\ \A w \in DOMAIN owners : owners[w] \in Key
    /\ active \in [Output -> Workspace]
    /\ DOMAIN algorithms \subseteq Key
    /\ \A k \in DOMAIN algorithms : algorithms[k] \in Algorithm
    /\ inherited \in [Workspace -> Algorithm]
    /\ master \subseteq Key
    /\ grab \in {NoGrab, StaleGrab} \cup Hit
    /\ engine \in {"classic", "ocean"}
    /\ reefs \subseteq Seq(Leaf)

Init ==
    /\ trees = [k \in Key |-> EmptyTree]
    /\ owners = [w \in {} |-> <<>>]
    /\ active = [o \in Output |-> 1]
    /\ algorithms = [k \in {} |-> "bsp"]
    /\ inherited \in Configs
    /\ master = {}
    /\ grab = NoGrab
    /\ engine = "classic"
    /\ reefs = {}

\* bump_topology_revision: only a held grab can tell.
Bump == grab' = IF grab = NoGrab THEN NoGrab ELSE StaleGrab

Without(f, S) == [x \in DOMAIN f \ S |-> f[x]]
With(f, S, v) == [x \in DOMAIN f \cup S |-> IF x \in S THEN v ELSE f[x]]

\* The settings of a slot go with its last tile.
Pruned(k, t) ==
    IF t = EmptyTree
    THEN algorithms' = Without(algorithms, {k}) /\ master' = master \ {k}
    ELSE UNCHANGED <<algorithms, master>>

-----------------------------------------------------------------------------
(* Windows *)

\* A new window, or one a swallowed child gives back: in any slot, also while
\* Ocean runs (restore_swallowed).
InsertWindow(k, w, target) ==
    /\ Unowned(w)
    /\ target # w
    /\ trees' = [trees EXCEPT ![k] = Insert(@, w, target)]
    /\ owners' = With(owners, {w}, k)
    /\ Bump
    /\ UNCHANGED <<active, settings, world>>

RemoveWindow(w) ==
    /\ w \in DOMAIN owners
    /\ LET k == owners[w] IN
         /\ trees' = [trees EXCEPT ![k] = RemoveFrom(@, w)]
         /\ Pruned(k, trees'[k])
    /\ owners' = Without(owners, {w})
    /\ Bump
    /\ UNCHANGED <<active, inherited, world>>

\* Mutant of Trade: a swap keeps the revision.
TradeUnseen(k, a, b) ==
    /\ trees' = [trees EXCEPT ![k] = Swap(@, a, b)]
    /\ UNCHANGED grab

Trade(k, a, b) ==
    /\ trees' = [trees EXCEPT ![k] = Swap(@, a, b)]
    /\ Bump

\* Only windows of one tree trade places.
SwapWindows(a, b) ==
    /\ a # b
    /\ {a, b} \subseteq DOMAIN owners
    /\ owners[a] = owners[b]
    /\ Trade(owners[a], a, b)
    /\ UNCHANGED <<owners, active, settings, world>>

\* Mutant of Reowned: the window that left keeps its index entry.
ReownedStale(old, new) == With(owners, {new}, owners[old])

Reowned(old, new) == With(Without(owners, {old}), {new}, owners[old])

\* A group's tab or a recalled deck window takes over a leaf.
ReplaceWindow(old, new) ==
    /\ engine = "classic"
    /\ old \in DOMAIN owners
    /\ Unowned(new)
    /\ trees' = [trees EXCEPT ![owners[old]] = ReplaceLeaf(@, old, new)]
    /\ owners' = Reowned(old, new)
    /\ Bump
    /\ UNCHANGED <<active, settings, world>>

-----------------------------------------------------------------------------
(* Workspaces *)

SetActive(o, s) ==
    /\ active' = [active EXCEPT ![o] = s]
    /\ UNCHANGED <<trees, owners, settings, grab, world>>

\* Mutant of Reindexed: only the first of two swapped trees is indexed.
ReindexedOnce(k, l) ==
    [w \in DOMAIN owners |-> IF owners[w] = k THEN l ELSE owners[w]]

\* index_tree_owners for both trees of an exchange.
Reindexed(k, l) ==
    [w \in DOMAIN owners |-> IF owners[w] = k THEN l
                             ELSE IF owners[w] = l THEN k ELSE owners[w]]

\* swap_active: the trees of two active workspaces change places; numbers
\* and settings stay with the slots.
SwapActive(a, b) ==
    LET k == <<a, active[a]>>
        l == <<b, active[b]>>
    IN /\ a # b
       /\ trees' = [trees EXCEPT ![k] = trees[l], ![l] = trees[k]]
       /\ owners' = Reindexed(k, l)
       /\ IF {k, l} \cap Populated # {} THEN Bump ELSE UNCHANGED grab
       /\ UNCHANGED <<active, settings, world>>

\* Mutant of MustPin: only an explicit choice is carried along.
MustPinExplicit(k, t) == k \in DOMAIN algorithms

\* The moved tree needs an explicit algorithm to look the same in slot t.
MustPin(k, t) == k \in DOMAIN algorithms \/ AlgorithmOf(k) # inherited[t]

\* move_workspace_to, then set_active_workspace: a tree moves with its
\* effective algorithm into an empty slot, which becomes the visible one.
MoveWorkspaceTo(from, to, t) ==
    LET k == <<from, active[from]>>
        l == <<to, t>>
    IN /\ engine = "classic"
       /\ from # to
       /\ trees[l] = EmptyTree
       /\ trees' = [trees EXCEPT ![k] = EmptyTree, ![l] = trees[k]]
       /\ owners' = Reindexed(k, l)
       /\ algorithms' = IF MustPin(k, t)
                        THEN With(Without(algorithms, {k}), {l}, AlgorithmOf(k))
                        ELSE Without(algorithms, {k, l})
       /\ master' = (master \ {k, l}) \cup (IF k \in master THEN {l} ELSE {})
       /\ active' = [active EXCEPT ![to] = t]
       /\ Bump
       /\ UNCHANGED <<inherited, world>>

-----------------------------------------------------------------------------
(* Settings *)

SetAlgorithm(o, alg) ==
    LET k == <<o, active[o]>> IN
    /\ k \in Settable
    /\ trees[k] # EmptyTree
    /\ algorithms' = With(algorithms, {k}, alg)
    /\ IF algorithms' # algorithms THEN Bump ELSE UNCHANGED grab
    /\ UNCHANGED <<trees, owners, active, inherited, master, world>>

AdjustMasterRatio(o) ==
    LET k == <<o, active[o]>> IN
    /\ k \in Settable
    /\ trees[k] # EmptyTree
    /\ master' = master \cup {k}
    /\ UNCHANGED <<trees, owners, active, algorithms, inherited, grab, world>>

\* A reload that changes the default layout, a workspace_rule or the split
\* bias; the last leaves `inherited` as it is.
ReloadConfig(f) ==
    /\ inherited' = f
    /\ Bump
    /\ UNCHANGED <<trees, owners, active, algorithms, master, world>>

\* resize_target_by: a client's minimum size moves a split.
ResizeTargetBy(w) ==
    /\ w \in DOMAIN owners
    /\ AlgorithmOf(owners[w]) = "bsp"
    /\ trees[owners[w]][Slot(trees[owners[w]], w)].path # <<>>
    /\ Bump
    /\ UNCHANGED <<trees, owners, active, settings, world>>

-----------------------------------------------------------------------------
(* Pointer grabs of splits *)

\* A drag of a border or of a tile's body captures a split of the visible tree.
StartGrab(o) ==
    LET k == <<o, active[o]>> IN
    /\ engine = "classic"
    /\ grab = NoGrab
    /\ AlgorithmOf(k) = "bsp"
    /\ \E i \in DOMAIN trees[k] : \E n \in 1 .. Len(trees[k][i].path) :
         grab' = [key |-> k, path |-> SubSeq(trees[k][i].path, 1, n - 1), tree |-> trees[k]]
    /\ UNCHANGED <<trees, owners, active, settings, world>>

EndGrab ==
    /\ grab # NoGrab
    /\ grab' = NoGrab
    /\ UNCHANGED <<trees, owners, active, settings, world>>

\* Asked before every motion of the pointer moves the captured ratios.
SplitIsCurrent(hit) ==
    /\ hit # StaleGrab
    /\ active[hit.key[1]] = hit.key[2]
    /\ AlgorithmOf(hit.key) = "bsp"
    /\ IsSplit(trees[hit.key], hit.path)

-----------------------------------------------------------------------------
(* Engine switches; refused while the pointer is grabbed *)

DrainForMigration ==
    LET gone == {k \in Populated : k[2] \notin Kept} IN
    /\ engine = "classic"
    /\ grab = NoGrab
    /\ engine' = "ocean"
    /\ reefs' = {trees[k] : k \in gone}
    /\ trees' = [k \in Key |-> IF k \in gone THEN EmptyTree ELSE trees[k]]
    /\ owners' = Without(owners, {w \in DOMAIN owners : owners[w] \in gone})
    /\ algorithms' = Without(algorithms, gone)
    /\ master' = master \ gone
    /\ UNCHANGED <<active, inherited, grab>>

\* Meanwhile a reef, or a new one, takes a tile.
OceanInsert(t, w, target) ==
    /\ engine = "ocean"
    /\ Unowned(w)
    /\ reefs' = (reefs \ {t}) \cup {Insert(t, w, target)}
    /\ UNCHANGED <<trees, owners, active, settings, grab, engine>>

\* A reef loses a tile.
OceanClose(w) ==
    /\ \E t \in reefs :
         /\ w \in Tiles(t)
         /\ reefs' = ((reefs \ {t}) \cup {RemoveFrom(t, w)}) \ {EmptyTree}
    /\ UNCHANGED <<trees, owners, active, settings, grab, engine>>

\* insert_migrated_tree for every reef: each becomes a workspace of the output
\* nearest to it, in place of whatever tree the slot had.  The reefs without
\* tiles take slots too (`dry`), and a camera may look at one of them.
InsertMigratedTrees(slot, dry) ==
    LET used == {slot[t] : t \in reefs} IN
    /\ engine = "ocean"
    /\ grab = NoGrab
    /\ \A t, u \in reefs : slot[t] = slot[u] => t = u
    /\ used \cap dry = {}
    /\ \A k \in used \cup dry : k[2] \notin Kept
    /\ trees' = [k \in Key |-> IF k \in used THEN CHOOSE t \in reefs : slot[t] = k
                              ELSE IF k \in dry THEN EmptyTree ELSE trees[k]]
    /\ owners' = [w \in {v \in DOMAIN owners : owners[v] \notin used \cup dry} \cup Reefed |->
                    IF w \in Reefed THEN slot[CHOOSE t \in reefs : w \in Tiles(t)] ELSE owners[w]]
    /\ active' \in [Output -> Workspace \ Kept]
    /\ engine' = "classic"
    /\ reefs' = {}
    /\ Bump
    /\ UNCHANGED settings

\* Everything but the choices of a layout.
TreesNext ==
    \/ \E k \in Key, w \in Window, target \in Window \cup {NoWindow} : InsertWindow(k, w, target)
    \/ \E w \in Window : RemoveWindow(w)
    \/ \E a, b \in Window : SwapWindows(a, b)
    \/ \E old, new \in Window : ReplaceWindow(old, new)
    \/ \E o \in Output, s \in Workspace : SetActive(o, s)
    \/ \E a, b \in Output : SwapActive(a, b)
    \/ \E from, to \in Output, t \in Workspace : MoveWorkspaceTo(from, to, t)
    \/ \E f \in Configs : ReloadConfig(f)
    \/ \E w \in Window : ResizeTargetBy(w)
    \/ \E o \in Output : StartGrab(o)
    \/ EndGrab
    \/ DrainForMigration
    \/ \E t \in reefs \cup {EmptyTree}, w \in Window : \E target \in Tiles(t) \cup {NoWindow} :
          OceanInsert(t, w, target)
    \/ \E w \in Window : OceanClose(w)
    \/ \E slot \in [reefs -> Key], dry \in SUBSET Key : InsertMigratedTrees(slot, dry)

Next ==
    \/ TreesNext
    \/ \E o \in Output, alg \in Algorithm : SetAlgorithm(o, alg)
    \/ \E o \in Output : AdjustMasterRatio(o)

Spec == Init /\ [][Next]_vars

-----------------------------------------------------------------------------
(* What must hold *)

\* The owner index and the trees say the same, and no window has two leaves:
\* every query of the compositor (contains, output_of, workspace_of, remove,
\* swap) goes through the index, every pixel through the trees.
OwnersAgree ==
    /\ \A k \in Key : NoTwins(trees[k])
    /\ \A k \in Key, w \in Window :
         w \in Tiles(trees[k]) <=> (w \in DOMAIN owners /\ owners[w] = k)

\* A drag acts on the tree it started on, or on nothing: while a captured
\* split passes for current, no window came, went or moved in that tree, so
\* the stored path still addresses the split the user took hold of.
GrabKeepsItsSplit ==
    grab # NoGrab /\ SplitIsCurrent(grab) => trees[grab.key] = grab.tree

\* The registry implements what Places promises: the place of a window as the
\* index gives it.
PlaceOf(w) == IF w \in DOMAIN owners THEN owners[w] ELSE NoWindow
Placement == [w \in Window |-> PlaceOf(w)]
Promise == INSTANCE Places WITH Place <- Key, Nowhere <- NoWindow, place <- Placement
KeepsPromise == Promise!Spec

\* A workspace keeps the layout the user sees when it moves to another output,
\* whatever that slot would inherit from the config and whatever a swap left
\* behind there.
MoveKeepsLayout ==
    [][ \A from, to \in Output, t \in Workspace :
          MoveWorkspaceTo(from, to, t)
            => AlgorithmOf(<<to, t>>)' = AlgorithmOf(<<from, active[from]>>) ]_vars
=============================================================================
