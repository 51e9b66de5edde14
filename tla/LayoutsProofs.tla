--------------------------- MODULE LayoutsProofs ---------------------------
(***************************************************************************)
(* Proofs about the layout registry, for any windows, outputs, workspaces  *)
(* and configs: its types, the agreement of trees and owner index, and the *)
(* staleness check of pointer grabs.                                       *)
(*                                                                         *)
(* The trees and the index agree only because a window is never tiled and  *)
(* in a reef at once and no two reefs share one; the inductive invariant   *)
(* adds that (ReefsApart) and, for grabs, that a hit which is not stale    *)
(* holds the tree that is there (GrabFresh).                               *)
(***************************************************************************)
EXTENDS Layouts, TLAPS

-----------------------------------------------------------------------------
(* The tree operations *)

\* A nonempty tree has a leaf at its insertion slot.
LEMMA InsertSlotExists ==
    ASSUME NEW t \in Seq(Leaf), t # EmptyTree, NEW target
    PROVE  InsertSlot(t, target) \in DOMAIN t
<1>1. Len(t) \in DOMAIN t
  BY DEF EmptyTree
<1>2. CASE target \in Tiles(t)
  <2>1. PICK i \in DOMAIN t : t[i].win = target
    BY <1>2 DEF Tiles
  <2> QED
    BY <1>2, <2>1 DEF InsertSlot, Slot
<1> QED
  BY <1>1, <1>2 DEF InsertSlot

\* The leaf of a tiled window.
LEMMA SlotFinds ==
    ASSUME NEW t \in Seq(Leaf), NEW w \in Tiles(t)
    PROVE  Slot(t, w) \in DOMAIN t /\ t[Slot(t, w)].win = w
<1>1. PICK i \in DOMAIN t : t[i].win = w
  BY DEF Tiles
<1> QED
  BY <1>1 DEF Slot

LEMMA TilesAreWindows ==
    ASSUME NEW t \in Seq(Leaf), NEW w \in Tiles(t)
    PROVE  w \in Window
<1>1. PICK i \in DOMAIN t : t[i].win = w
  BY DEF Tiles
<1>2. t[i] \in Leaf
  OBVIOUS
<1> QED
  BY <1>1, <1>2 DEF Leaf

LEMMA FunctionIsSequence ==
    ASSUME NEW S, NEW n \in Nat, NEW f \in [1 .. n -> S]
    PROVE  f \in Seq(S)
OBVIOUS

\* Splitting a leaf gives a tree.
LEMMA InsertType ==
    ASSUME NEW t \in Seq(Leaf), NEW w \in Window, NEW target
    PROVE  Insert(t, w, target) \in Seq(Leaf)
<1>1. CASE t = EmptyTree
  <2>1. [win |-> w, path |-> <<>>] \in Leaf
    BY DEF Leaf
  <2> QED
    BY <1>1, <2>1 DEF Insert
<1>2. CASE t # EmptyTree
  <2> DEFINE i == InsertSlot(t, target)
  <2>1. i \in DOMAIN t
    BY <1>2, InsertSlotExists
  <2>2. t[i] \in Leaf
    BY <2>1
  <2> HIDE DEF i
  <2>3. \A s \in Side : Append(t[i].path, s) \in Seq(Side)
    BY <2>2 DEF Leaf
  <2>4. /\ [win |-> t[i].win, path |-> Append(t[i].path, 1)] \in Leaf
        /\ [win |-> w, path |-> Append(t[i].path, 2)] \in Leaf
    BY <2>2, <2>3 DEF Leaf, Side
  <2> DEFINE f == [j \in 1 .. Len(t) + 1 |->
                     IF j < i THEN t[j]
                     ELSE IF j = i THEN [win |-> t[i].win, path |-> Append(t[i].path, 1)]
                     ELSE IF j = i + 1 THEN [win |-> w, path |-> Append(t[i].path, 2)]
                     ELSE t[j - 1]]
  <2>5. i \in 1 .. Len(t)
    BY <2>1
  <2>6. ASSUME NEW j \in 1 .. Len(t) + 1 PROVE f[j] \in Leaf
    <3>1. CASE j < i
      <4>1. j \in DOMAIN t
        BY <3>1, <2>5
      <4> QED
        BY <3>1, <4>1
    <3>2. CASE j > i + 1
      <4>1. j - 1 \in DOMAIN t
        BY <3>2, <2>5
      <4>2. f[j] = t[j - 1]
        BY <3>2, <2>5
      <4> QED
        BY <4>1, <4>2
    <3> QED
      BY <3>1, <3>2, <2>4, <2>5
  <2>7. f \in [1 .. Len(t) + 1 -> Leaf]
    BY <2>6
  <2>8. f \in Seq(Leaf)
    BY <2>7, FunctionIsSequence, Len(t) + 1 \in Nat
  <2> QED
    BY <1>2, <2>8 DEF Insert, i
<1> QED
  BY <1>1, <1>2

\* The leaves of a grown tree, one by one.
LEMMA InsertLeaves ==
    ASSUME NEW t \in Seq(Leaf), t # EmptyTree, NEW w \in Window, NEW target,
           NEW i, i = InsertSlot(t, target)
    PROVE  /\ i \in 1 .. Len(t)
           /\ DOMAIN Insert(t, w, target) = 1 .. Len(t) + 1
           /\ \A j \in 1 .. Len(t) + 1 :
                Insert(t, w, target)[j].win =
                  IF j <= i THEN t[j].win ELSE IF j = i + 1 THEN w ELSE t[j - 1].win
<1>1. i \in 1 .. Len(t)
  BY InsertSlotExists
<1> QED
  BY <1>1 DEF Insert

\* A grown tree has one more window.
LEMMA InsertTiles ==
    ASSUME NEW t \in Seq(Leaf), NEW w \in Window, NEW target
    PROVE  Tiles(Insert(t, w, target)) = Tiles(t) \cup {w}
<1>1. CASE t = EmptyTree
  BY <1>1 DEF Insert, Tiles, EmptyTree
<1>2. CASE t # EmptyTree
  <2> DEFINE i == InsertSlot(t, target)
             u == Insert(t, w, target)
  <2>1. /\ i \in 1 .. Len(t)
        /\ DOMAIN u = 1 .. Len(t) + 1
        /\ \A j \in 1 .. Len(t) + 1 :
             u[j].win = IF j <= i THEN t[j].win ELSE IF j = i + 1 THEN w ELSE t[j - 1].win
    BY <1>2, InsertLeaves
  <2> HIDE DEF i, u
  <2>2. ASSUME NEW j \in DOMAIN t PROVE \E m \in DOMAIN u : u[m].win = t[j].win
    <3>1. CASE j <= i
      BY <3>1, <2>1
    <3>2. CASE j > i
      <4>1. j + 1 \in DOMAIN u /\ u[j + 1].win = t[j].win
        BY <3>2, <2>1
      <4> QED
        BY <4>1
    <3> QED
      BY <3>1, <3>2, <2>1
  <2>3. i + 1 \in DOMAIN u /\ u[i + 1].win = w
    BY <2>1
  <2>4. ASSUME NEW m \in DOMAIN u PROVE u[m].win \in Tiles(t) \cup {w}
    <3>1. CASE m <= i
      BY <3>1, <2>1 DEF Tiles
    <3>2. CASE m = i + 1
      BY <3>2, <2>1
    <3>3. CASE m > i + 1
      <4>1. m - 1 \in DOMAIN t /\ u[m].win = t[m - 1].win
        BY <3>3, <2>1
      <4> QED
        BY <4>1 DEF Tiles
    <3> QED
      BY <3>1, <3>2, <3>3, <2>1
  <2>5. Tiles(u) = Tiles(t) \cup {w}
    BY <2>2, <2>3, <2>4 DEF Tiles
  <2> QED
    BY <2>5 DEF u
<1> QED
  BY <1>1, <1>2

\* A window that was not there has one leaf once inserted.
LEMMA InsertNoTwins ==
    ASSUME NEW t \in Seq(Leaf), NEW w \in Window, NEW target, NoTwins(t), w \notin Tiles(t)
    PROVE  NoTwins(Insert(t, w, target))
<1>1. CASE t = EmptyTree
  BY <1>1 DEF Insert, NoTwins
<1>2. CASE t # EmptyTree
  <2> DEFINE i == InsertSlot(t, target)
             u == Insert(t, w, target)
  <2>1. /\ i \in 1 .. Len(t)
        /\ DOMAIN u = 1 .. Len(t) + 1
        /\ \A j \in 1 .. Len(t) + 1 :
             u[j].win = IF j <= i THEN t[j].win ELSE IF j = i + 1 THEN w ELSE t[j - 1].win
    BY <1>2, InsertLeaves
  <2> HIDE DEF i, u
  <2> DEFINE old(j) == IF j <= i THEN j ELSE j - 1
  <2>2. ASSUME NEW j \in DOMAIN u, j # i + 1
        PROVE  old(j) \in DOMAIN t /\ u[j].win = t[old(j)].win
    BY <2>1, <2>2
  <2>3. \A j \in DOMAIN t : t[j].win # w
    BY DEF Tiles
  <2>4. ASSUME NEW j \in DOMAIN u, NEW m \in DOMAIN u, u[j].win = u[m].win
        PROVE  j = m
    <3>1. CASE j = i + 1
      BY <3>1, <2>1, <2>2, <2>3, <2>4
    <3>2. CASE m = i + 1
      BY <3>2, <2>1, <2>2, <2>3, <2>4
    <3>3. CASE j # i + 1 /\ m # i + 1
      <4>1. old(j) = old(m)
        BY <3>3, <2>2, <2>4 DEF NoTwins
      <4> QED
        BY <3>3, <4>1, <2>1
    <3> QED
      BY <3>1, <3>2, <3>3
  <2>5. NoTwins(u)
    BY <2>4 DEF NoTwins
  <2> QED
    BY <2>5 DEF u
<1> QED
  BY <1>1, <1>2

\* Lifting a leaf keeps its window.
LEMMA LiftedKeeps ==
    ASSUME NEW leaf \in Leaf, NEW gone \in Seq(Side)
    PROVE  Lifted(leaf, gone) \in Leaf /\ Lifted(leaf, gone).win = leaf.win
<1> DEFINE parent == SubSeq(gone, 1, Len(gone) - 1)
           rest == SubSeq(leaf.path, Len(gone) + 1, Len(leaf.path))
<1>1. leaf.path \in Seq(Side)
  BY DEF Leaf
<1>2. CASE gone = <<>>
  BY <1>2 DEF Lifted
<1>3. CASE gone # <<>>
  <2>1. Len(gone) \in Nat /\ Len(gone) >= 1
    BY <1>3
  <2>2. parent \in Seq(Side)
    BY <2>1
  <2>3. rest \in Seq(Side)
    BY <1>1, <2>1
  <2>4. parent \o rest \in Seq(Side)
    BY <2>2, <2>3
  <2> HIDE DEF parent, rest
  <2>5. [leaf EXCEPT !.path = parent \o rest] \in Leaf
    BY <2>4 DEF Leaf
  <2>6. [leaf EXCEPT !.path = parent \o rest].win = leaf.win
    BY DEF Leaf
  <2>7. Lifted(leaf, gone) \in {leaf, [leaf EXCEPT !.path = parent \o rest]}
    BY DEF Lifted, parent, rest
  <2> QED
    BY <2>5, <2>6, <2>7
<1> QED
  BY <1>2, <1>3

\* What is left of a tree: its leaves but one, with their windows.
LEMMA RemoveLeaves ==
    ASSUME NEW t \in Seq(Leaf), NEW w \in Tiles(t), NEW i, i = Slot(t, w)
    PROVE  /\ i \in DOMAIN t /\ t[i].win = w
           /\ RemoveFrom(t, w) \in Seq(Leaf)
           /\ DOMAIN RemoveFrom(t, w) = 1 .. Len(t) - 1
           /\ \A j \in 1 .. Len(t) - 1 :
                RemoveFrom(t, w)[j].win = t[IF j < i THEN j ELSE j + 1].win
<1>1. i \in 1 .. Len(t) /\ t[i].win = w
  BY SlotFinds
<1>2. t[i] \in Leaf /\ t[i].path \in Seq(Side)
  <2>1. t[i] \in Leaf
    BY <1>1
  <2> QED
    BY <2>1 DEF Leaf
<1> DEFINE from(j) == IF j < i THEN j ELSE j + 1
           u == [j \in 1 .. Len(t) - 1 |-> Lifted(t[from(j)], t[i].path)]
<1>3. ASSUME NEW j \in 1 .. Len(t) - 1
      PROVE  u[j] \in Leaf /\ u[j].win = t[from(j)].win
  <2>1. t[from(j)] \in Leaf
    BY <1>1
  <2>2. u[j] = Lifted(t[from(j)], t[i].path)
    OBVIOUS
  <2> HIDE DEF u, from
  <2> QED
    BY <1>2, <2>1, <2>2, LiftedKeeps
<1>4. RemoveFrom(t, w) = u
  BY DEF RemoveFrom
<1> HIDE DEF u
<1>5. DOMAIN u = 1 .. Len(t) - 1
  BY DEF u
<1>6. u \in [1 .. Len(t) - 1 -> Leaf]
  BY <1>3, <1>5 DEF u
<1>7. u \in Seq(Leaf)
  BY <1>1, <1>6, FunctionIsSequence, Len(t) - 1 \in Nat
<1> QED
  BY <1>1, <1>3, <1>4, <1>5, <1>7

\* Removing a window leaves the others, each with one leaf.
LEMMA RemoveTiles ==
    ASSUME NEW t \in Seq(Leaf), NEW w \in Tiles(t), NoTwins(t)
    PROVE  Tiles(RemoveFrom(t, w)) = Tiles(t) \ {w}
<1> DEFINE i == Slot(t, w)
           u == RemoveFrom(t, w)
<1>1. /\ i \in 1 .. Len(t) /\ t[i].win = w
      /\ DOMAIN u = 1 .. Len(t) - 1
      /\ \A j \in 1 .. Len(t) - 1 : u[j].win = t[IF j < i THEN j ELSE j + 1].win
  BY RemoveLeaves
<1> HIDE DEF i, u
<1>2. ASSUME NEW j \in DOMAIN u PROVE u[j].win \in Tiles(t) \ {w}
  <2>1. PICK m \in DOMAIN t : m # i /\ u[j].win = t[m].win
    BY <1>1
  <2> QED
    BY <1>1, <2>1 DEF Tiles, NoTwins
<1>3. ASSUME NEW m \in DOMAIN t, t[m].win # w PROVE \E j \in DOMAIN u : u[j].win = t[m].win
  <2>1. CASE m < i
    BY <2>1, <1>1
  <2>2. CASE m > i
    <3>1. m - 1 \in DOMAIN u /\ u[m - 1].win = t[m].win
      BY <2>2, <1>1
    <3> QED
      BY <3>1
  <2> QED
    BY <1>1, <1>3, <2>1, <2>2
<1>4. Tiles(u) = Tiles(t) \ {w}
  BY <1>2, <1>3 DEF Tiles
<1> QED
  BY <1>4 DEF u

LEMMA RemoveNoTwins ==
    ASSUME NEW t \in Seq(Leaf), NEW w \in Tiles(t), NoTwins(t)
    PROVE  NoTwins(RemoveFrom(t, w))
<1> DEFINE i == Slot(t, w)
           u == RemoveFrom(t, w)
<1>1. /\ i \in 1 .. Len(t)
      /\ DOMAIN u = 1 .. Len(t) - 1
      /\ \A j \in 1 .. Len(t) - 1 : u[j].win = t[IF j < i THEN j ELSE j + 1].win
  BY RemoveLeaves
<1> HIDE DEF i, u
<1>2. NoTwins(u)
  BY <1>1 DEF NoTwins
<1> QED
  BY <1>2 DEF u

\* Two windows of a tree trade leaves: the same windows, one leaf each.
LEMMA SwapKeeps ==
    ASSUME NEW t \in Seq(Leaf), NEW a \in Tiles(t), NEW b \in Tiles(t)
    PROVE  Swap(t, a, b) \in Seq(Leaf) /\ Tiles(Swap(t, a, b)) = Tiles(t)
<1> DEFINE u == Swap(t, a, b)
<1>1. a \in Window /\ b \in Window
  BY TilesAreWindows
<1>2. DOMAIN u = DOMAIN t
  BY DEF Swap
<1>3. ASSUME NEW i \in DOMAIN t
      PROVE  /\ u[i] \in Leaf
             /\ u[i].win = IF t[i].win = a THEN b ELSE IF t[i].win = b THEN a ELSE t[i].win
  <2>1. t[i] \in Leaf
    OBVIOUS
  <2> QED
    BY <1>1, <2>1 DEF Swap, Leaf
<1> HIDE DEF u
<1>4. DOMAIN t = 1 .. Len(t) /\ Len(t) \in Nat
  OBVIOUS
<1>5. u \in [1 .. Len(t) -> Leaf]
  BY <1>2, <1>3, <1>4 DEF u, Swap
<1>6. u \in Seq(Leaf)
  BY <1>4, <1>5, FunctionIsSequence
<1>7. Tiles(u) = Tiles(t)
  BY <1>2, <1>3 DEF Tiles
<1> QED
  BY <1>6, <1>7 DEF u

LEMMA SwapNoTwins ==
    ASSUME NEW t \in Seq(Leaf), NEW a, NEW b, NoTwins(t)
    PROVE  NoTwins(Swap(t, a, b))
<1>1. ASSUME NEW i \in DOMAIN t
      PROVE  Swap(t, a, b)[i].win = IF t[i].win = a THEN b ELSE IF t[i].win = b THEN a ELSE t[i].win
  <2>1. t[i] \in Leaf
    OBVIOUS
  <2> QED
    BY <2>1 DEF Swap, Leaf
<1>2. DOMAIN Swap(t, a, b) = DOMAIN t
  BY DEF Swap
<1> QED
  BY <1>1, <1>2 DEF NoTwins

\* A window takes over a leaf.
LEMMA ReplaceKeeps ==
    ASSUME NEW t \in Seq(Leaf), NEW old \in Tiles(t), NEW new \in Window,
           NoTwins(t), new \notin Tiles(t)
    PROVE  /\ ReplaceLeaf(t, old, new) \in Seq(Leaf)
           /\ NoTwins(ReplaceLeaf(t, old, new))
           /\ Tiles(ReplaceLeaf(t, old, new)) = (Tiles(t) \ {old}) \cup {new}
<1> DEFINE i == Slot(t, old)
           u == ReplaceLeaf(t, old, new)
<1>1. i \in DOMAIN t /\ t[i].win = old
  BY SlotFinds
<1>2. DOMAIN u = DOMAIN t /\ \A j \in DOMAIN t : j # i => u[j] = t[j]
  BY DEF ReplaceLeaf
<1>3. u[i] \in Leaf /\ u[i].win = new
  <2>1. t[i] \in Leaf
    BY <1>1
  <2> QED
    BY <1>1, <2>1 DEF ReplaceLeaf, Leaf
<1> HIDE DEF i, u
<1>4. DOMAIN t = 1 .. Len(t) /\ Len(t) \in Nat /\ \A j \in DOMAIN t : t[j] \in Leaf
  OBVIOUS
<1>5. u \in [1 .. Len(t) -> Leaf]
  BY <1>2, <1>3, <1>4 DEF u, ReplaceLeaf
<1>6. u \in Seq(Leaf)
  BY <1>4, <1>5, FunctionIsSequence
<1>7. NoTwins(u)
  BY <1>1, <1>2, <1>3 DEF NoTwins, Tiles
<1>8. Tiles(u) = (Tiles(t) \ {old}) \cup {new}
  BY <1>1, <1>2, <1>3 DEF NoTwins, Tiles
<1> QED
  BY <1>6, <1>7, <1>8 DEF u

-----------------------------------------------------------------------------
(* The inductive invariant *)

\* No window is in two reefs, or in a reef and in a workspace.
ReefsApart ==
    /\ \A t \in reefs : NoTwins(t)
    /\ \A t \in reefs : \A w \in Tiles(t) : w \notin DOMAIN owners
    /\ \A t, u \in reefs : t # u => Tiles(t) \cap Tiles(u) = {}

Tiling ==
    /\ trees \in [Key -> Seq(Leaf)]
    /\ DOMAIN owners \subseteq Window
    /\ \A w \in DOMAIN owners : owners[w] \in Key
    /\ reefs \subseteq Seq(Leaf)
    /\ OwnersAgree
    /\ ReefsApart

SettingsOK ==
    /\ active \in [Output -> Workspace]
    /\ DOMAIN algorithms \subseteq Key
    /\ \A k \in DOMAIN algorithms : algorithms[k] \in Algorithm
    /\ inherited \in [Workspace -> Algorithm]
    /\ master \subseteq Key
    /\ engine \in {"classic", "ocean"}

\* While the revision has not moved on, the tree under a grab is as it was.
GrabFresh == grab \notin {NoGrab, StaleGrab} => trees[grab.key] = grab.tree

GrabOK == grab \in {NoGrab, StaleGrab} \cup Hit /\ GrabFresh

IInv == Tiling /\ SettingsOK /\ GrabOK

LEMMA InitIInv == Init => IInv
<1> SUFFICES ASSUME Init PROVE IInv
  OBVIOUS
<1>1. Tiling
  BY DEF Init, Tiling, OwnersAgree, ReefsApart, EmptyTree, Tiles, NoTwins
<1>2. SettingsOK
  BY KeptAssumption, BoundsAssumption DEF Init, SettingsOK, Algorithm
<1>3. GrabOK
  BY DEF Init, GrabOK, GrabFresh
<1> QED
  BY <1>1, <1>2, <1>3 DEF IInv

LEMMA BumpSafe == ASSUME Bump PROVE GrabOK'
BY DEF Bump, GrabOK, GrabFresh

LEMMA GrabSafe == ASSUME GrabOK, UNCHANGED <<trees, grab>> PROVE GrabOK'
BY DEF GrabOK, GrabFresh

LEMMA TilingSafe == ASSUME Tiling, UNCHANGED <<trees, owners, reefs>> PROVE Tiling'
BY DEF Tiling, OwnersAgree, ReefsApart

LEMMA SettingsSafe ==
    ASSUME SettingsOK, UNCHANGED <<active, algorithms, inherited, master, engine>>
    PROVE  SettingsOK'
BY DEF SettingsOK

\* Pruning a slot keeps the settings well typed.
LEMMA PrunedSafe ==
    ASSUME SettingsOK, NEW k, NEW t, Pruned(k, t), UNCHANGED <<active, inherited, engine>>
    PROVE  SettingsOK'
BY DEF SettingsOK, Pruned, Without

\* One tree changes and the index follows it.
LEMMA OneTree ==
    ASSUME Tiling, NEW k \in Key, NEW u \in Seq(Leaf), NoTwins(u),
           trees' = [trees EXCEPT ![k] = u],
           reefs' = reefs,
           DOMAIN owners' \subseteq Window,
           \A w \in DOMAIN owners' : owners'[w] \in Key /\ w \notin Reefed,
           \A w \in Window : w \in Tiles(u) <=> (w \in DOMAIN owners' /\ owners'[w] = k),
           \A w \in Window, l \in Key \ {k} :
              (w \in DOMAIN owners /\ owners[w] = l) <=> (w \in DOMAIN owners' /\ owners'[w] = l)
    PROVE  Tiling'
<1>1. trees' \in [Key -> Seq(Leaf)] /\ trees'[k] = u /\ \A l \in Key \ {k} : trees'[l] = trees[l]
  BY DEF Tiling
<1>2. OwnersAgree'
  BY <1>1 DEF Tiling, OwnersAgree
<1>3. ReefsApart'
  BY DEF Tiling, ReefsApart, Reefed
<1> QED
  BY <1>1, <1>2, <1>3 DEF Tiling

\* The window of an index entry is in that tree, and in no other.
LEMMA OwnerTile ==
    ASSUME Tiling, NEW w \in DOMAIN owners
    PROVE  /\ w \in Window /\ owners[w] \in Key /\ w \in Tiles(trees[owners[w]])
           /\ trees[owners[w]] \in Seq(Leaf) /\ NoTwins(trees[owners[w]]) /\ w \notin Reefed
<1>1. w \in Window /\ owners[w] \in Key /\ trees[owners[w]] \in Seq(Leaf)
  BY DEF Tiling
<1>2. w \in Tiles(trees[owners[w]]) /\ NoTwins(trees[owners[w]])
  BY <1>1 DEF Tiling, OwnersAgree
<1>3. w \notin Reefed
  BY DEF Tiling, ReefsApart, Reefed
<1> QED
  BY <1>1, <1>2, <1>3

LEMMA InsertWindowTiling ==
    ASSUME Tiling, NEW k \in Key, NEW w \in Window, NEW target, InsertWindow(k, w, target)
    PROVE  Tiling'
<1> DEFINE u == Insert(trees[k], w, target)
<1>1. trees[k] \in Seq(Leaf) /\ NoTwins(trees[k]) /\ w \notin Tiles(trees[k])
  BY DEF Tiling, OwnersAgree, InsertWindow, Unowned
<1>2. u \in Seq(Leaf) /\ NoTwins(u) /\ Tiles(u) = Tiles(trees[k]) \cup {w}
  BY <1>1, InsertType, InsertNoTwins, InsertTiles
<1>3. trees' = [trees EXCEPT ![k] = u] /\ reefs' = reefs /\ w \notin DOMAIN owners /\ w \notin Reefed
  BY DEF InsertWindow, world, Unowned, Tiling
<1> HIDE DEF u
<1>4. /\ DOMAIN owners' = DOMAIN owners \cup {w} /\ owners'[w] = k
      /\ \A v \in DOMAIN owners : v # w => owners'[v] = owners[v]
  BY DEF InsertWindow, With
<1>5. \A v \in DOMAIN owners : owners[v] \in Key /\ v \notin Reefed
  BY OwnerTile
<1>6. \A v \in Window : v \in Tiles(trees[k]) <=> (v \in DOMAIN owners /\ owners[v] = k)
  BY DEF Tiling, OwnersAgree
<1>7. DOMAIN owners' \subseteq Window
  BY <1>4 DEF Tiling
<1>8. \A v \in DOMAIN owners' : owners'[v] \in Key /\ v \notin Reefed
  BY <1>3, <1>4, <1>5
<1>9. \A v \in Window : v \in Tiles(u) <=> (v \in DOMAIN owners' /\ owners'[v] = k)
  BY <1>2, <1>3, <1>4, <1>6
<1>10. \A v \in Window, l \in Key \ {k} :
         (v \in DOMAIN owners /\ owners[v] = l) <=> (v \in DOMAIN owners' /\ owners'[v] = l)
  BY <1>3, <1>4
<1> QED
  BY <1>2, <1>3, <1>7, <1>8, <1>9, <1>10, OneTree

LEMMA RemoveWindowTiling ==
    ASSUME Tiling, NEW w, RemoveWindow(w)
    PROVE  Tiling'
<1> DEFINE k == owners[w]
           u == RemoveFrom(trees[k], w)
<1>1. w \in DOMAIN owners
  BY DEF RemoveWindow
<1>2. /\ w \in Window /\ k \in Key /\ w \in Tiles(trees[k])
      /\ trees[k] \in Seq(Leaf) /\ NoTwins(trees[k])
  BY <1>1, OwnerTile
<1>3. trees' = [trees EXCEPT ![k] = u] /\ reefs' = reefs
  BY DEF RemoveWindow, world
<1> HIDE DEF k
<1>4. u \in Seq(Leaf) /\ NoTwins(u) /\ Tiles(u) = Tiles(trees[k]) \ {w}
  BY <1>2, RemoveLeaves, RemoveNoTwins, RemoveTiles
<1> HIDE DEF u
<1>5. DOMAIN owners' = DOMAIN owners \ {w} /\ \A v \in DOMAIN owners' : owners'[v] = owners[v]
  BY DEF RemoveWindow, Without
<1>6. \A v \in DOMAIN owners : owners[v] \in Key /\ v \notin Reefed
  BY OwnerTile
<1>7. \A v \in Window : v \in Tiles(trees[k]) <=> (v \in DOMAIN owners /\ owners[v] = k)
  BY <1>2 DEF Tiling, OwnersAgree
<1>8. DOMAIN owners' \subseteq Window
  BY <1>5 DEF Tiling
<1>9. \A v \in DOMAIN owners' : owners'[v] \in Key /\ v \notin Reefed
  BY <1>5, <1>6
<1>10. \A v \in Window : v \in Tiles(u) <=> (v \in DOMAIN owners' /\ owners'[v] = k)
  BY <1>4, <1>5, <1>7
<1>11. \A v \in Window, l \in Key \ {k} :
         (v \in DOMAIN owners /\ owners[v] = l) <=> (v \in DOMAIN owners' /\ owners'[v] = l)
  BY <1>5 DEF k
<1> QED
  BY <1>2, <1>3, <1>4, <1>8, <1>9, <1>10, <1>11, OneTree

LEMMA SwapWindowsTiling ==
    ASSUME Tiling, NEW a \in Window, NEW b \in Window, SwapWindows(a, b)
    PROVE  Tiling'
<1> DEFINE k == owners[a]
           u == Swap(trees[k], a, b)
<1>1. a \in DOMAIN owners /\ b \in DOMAIN owners /\ owners[b] = k
  BY DEF SwapWindows
<1>2. /\ k \in Key /\ a \in Tiles(trees[k]) /\ b \in Tiles(trees[k])
      /\ trees[k] \in Seq(Leaf) /\ NoTwins(trees[k])
  BY <1>1, OwnerTile
<1>3. trees' = [trees EXCEPT ![k] = u] /\ reefs' = reefs /\ owners' = owners
  BY DEF SwapWindows, Trade, world
<1> HIDE DEF k
<1>4. u \in Seq(Leaf) /\ NoTwins(u) /\ Tiles(u) = Tiles(trees[k])
  BY <1>2, SwapKeeps, SwapNoTwins
<1> HIDE DEF u
<1>5. \A v \in DOMAIN owners' : owners'[v] \in Key /\ v \notin Reefed
  BY <1>3, OwnerTile
<1>6. \A v \in Window : v \in Tiles(u) <=> (v \in DOMAIN owners' /\ owners'[v] = k)
  BY <1>2, <1>3, <1>4 DEF Tiling, OwnersAgree
<1>7. DOMAIN owners' \subseteq Window
  BY <1>3 DEF Tiling
<1> QED
  BY <1>2, <1>3, <1>4, <1>5, <1>6, <1>7, OneTree

LEMMA ReplaceWindowTiling ==
    ASSUME Tiling, NEW old \in Window, NEW new \in Window, ReplaceWindow(old, new)
    PROVE  Tiling'
<1> DEFINE k == owners[old]
           u == ReplaceLeaf(trees[k], old, new)
<1>1. old \in DOMAIN owners /\ new \notin DOMAIN owners /\ new \notin Reefed
  BY DEF ReplaceWindow, Unowned
<1>2. k \in Key /\ old \in Tiles(trees[k]) /\ trees[k] \in Seq(Leaf) /\ NoTwins(trees[k])
  BY <1>1, OwnerTile
<1>3. trees' = [trees EXCEPT ![k] = u] /\ reefs' = reefs
  BY DEF ReplaceWindow, world
<1>4. /\ DOMAIN owners' = (DOMAIN owners \ {old}) \cup {new} /\ owners'[new] = k
      /\ \A v \in DOMAIN owners : v \notin {old, new} => owners'[v] = owners[v]
  BY DEF ReplaceWindow, Reowned, With, Without
<1>5. owners[old] = k
  OBVIOUS
<1> HIDE DEF k
<1>6. \A v \in Window : v \in Tiles(trees[k]) <=> (v \in DOMAIN owners /\ owners[v] = k)
  BY <1>2 DEF Tiling, OwnersAgree
<1>7. new \notin Tiles(trees[k])
  BY <1>1, <1>6
<1>8. u \in Seq(Leaf) /\ NoTwins(u) /\ Tiles(u) = (Tiles(trees[k]) \ {old}) \cup {new}
  BY <1>2, <1>7, ReplaceKeeps
<1> HIDE DEF u
<1>9. \A v \in DOMAIN owners : owners[v] \in Key /\ v \notin Reefed
  BY OwnerTile
<1>10. DOMAIN owners' \subseteq Window
  BY <1>4 DEF Tiling
<1>11. \A v \in DOMAIN owners' : owners'[v] \in Key /\ v \notin Reefed
  BY <1>1, <1>2, <1>4, <1>9
<1>12. \A v \in Window : v \in Tiles(u) <=> (v \in DOMAIN owners' /\ owners'[v] = k)
  BY <1>1, <1>4, <1>6, <1>8
<1>13. \A v \in Window, l \in Key \ {k} :
         (v \in DOMAIN owners /\ owners[v] = l) <=> (v \in DOMAIN owners' /\ owners'[v] = l)
  BY <1>1, <1>4, <1>5
<1> QED
  BY <1>2, <1>3, <1>8, <1>10, <1>11, <1>12, <1>13, OneTree

\* Two trees change places and are indexed again.
LEMMA ExchangeTiling ==
    ASSUME Tiling, NEW k \in Key, NEW l \in Key, k # l,
           trees' = [trees EXCEPT ![k] = trees[l], ![l] = trees[k]],
           owners' = Reindexed(k, l), reefs' = reefs
    PROVE  Tiling'
<1>1. /\ trees' \in [Key -> Seq(Leaf)] /\ trees'[k] = trees[l] /\ trees'[l] = trees[k]
      /\ \A m \in Key : m \notin {k, l} => trees'[m] = trees[m]
  BY DEF Tiling
<1>2. /\ DOMAIN owners' = DOMAIN owners
      /\ \A w \in DOMAIN owners :
           owners'[w] = IF owners[w] = k THEN l ELSE IF owners[w] = l THEN k ELSE owners[w]
  BY DEF Reindexed
<1>3. \A m \in Key : NoTwins(trees'[m])
  BY <1>1 DEF Tiling, OwnersAgree
<1>4. ASSUME NEW m \in Key, NEW w \in Window
      PROVE  w \in Tiles(trees'[m]) <=> (w \in DOMAIN owners' /\ owners'[w] = m)
  <2>1. \A n \in Key : w \in Tiles(trees[n]) <=> (w \in DOMAIN owners /\ owners[w] = n)
    BY DEF Tiling, OwnersAgree
  <2> QED
    BY <1>1, <1>2, <2>1
<1>5. OwnersAgree'
  BY <1>3, <1>4 DEF OwnersAgree
<1>6. ReefsApart'
  BY <1>2 DEF Tiling, ReefsApart
<1>7. DOMAIN owners' \subseteq Window /\ \A w \in DOMAIN owners' : owners'[w] \in Key
  BY <1>2 DEF Tiling
<1> QED
  BY <1>1, <1>5, <1>6, <1>7 DEF Tiling

\* The trees that leave for Ocean are those of different slots.
LEMMA DrainTiling ==
    ASSUME Tiling, DrainForMigration
    PROVE  Tiling'
<1> DEFINE gone == {k \in Populated : k[2] \notin Kept}
<1>1. /\ reefs' = {trees[k] : k \in gone}
      /\ trees' = [k \in Key |-> IF k \in gone THEN EmptyTree ELSE trees[k]]
      /\ owners' = Without(owners, {w \in DOMAIN owners : owners[w] \in gone})
  BY DEF DrainForMigration
<1>2. gone \subseteq Key
  BY DEF Populated
<1> HIDE DEF gone
<1>3. /\ trees' \in [Key -> Seq(Leaf)]
      /\ \A k \in Key : trees'[k] = IF k \in gone THEN EmptyTree ELSE trees[k]
  BY <1>1 DEF Tiling, EmptyTree
<1>4. /\ DOMAIN owners' = {w \in DOMAIN owners : owners[w] \notin gone}
      /\ \A w \in DOMAIN owners' : owners'[w] = owners[w]
  BY <1>1 DEF Without
<1>5. reefs' \subseteq Seq(Leaf)
  BY <1>1, <1>2 DEF Tiling
<1>6. NoTwins(EmptyTree) /\ Tiles(EmptyTree) = {}
  BY DEF NoTwins, Tiles, EmptyTree
<1>7. \A k \in Key : NoTwins(trees'[k])
  BY <1>3, <1>6 DEF Tiling, OwnersAgree
<1>8. \A k \in Key, w \in Window : w \in Tiles(trees[k]) <=> (w \in DOMAIN owners /\ owners[w] = k)
  BY DEF Tiling, OwnersAgree
<1>9. ASSUME NEW k \in Key, NEW w \in Window
      PROVE  w \in Tiles(trees'[k]) <=> (w \in DOMAIN owners' /\ owners'[w] = k)
  BY <1>3, <1>4, <1>6, <1>8
<1>10. OwnersAgree'
  BY <1>7, <1>9 DEF OwnersAgree
<1>11. \A t \in reefs' : NoTwins(t)
  BY <1>1, <1>2 DEF Tiling, OwnersAgree
<1>12. ASSUME NEW k \in gone, NEW w \in Tiles(trees[k])
       PROVE  w \in DOMAIN owners /\ owners[w] = k
  <2>1. k \in Key /\ trees[k] \in Seq(Leaf)
    BY <1>2 DEF Tiling
  <2>2. w \in Window
    BY <2>1, TilesAreWindows
  <2> QED
    BY <1>8, <2>1, <2>2
<1>13. \A t \in reefs' : \A w \in Tiles(t) : w \notin DOMAIN owners'
  BY <1>1, <1>4, <1>12
<1>14. \A t, u \in reefs' : t # u => Tiles(t) \cap Tiles(u) = {}
  BY <1>1, <1>12
<1>15. ReefsApart'
  BY <1>11, <1>13, <1>14 DEF ReefsApart
<1>16. DOMAIN owners' \subseteq Window /\ \A w \in DOMAIN owners' : owners'[w] \in Key
  BY <1>4 DEF Tiling
<1> QED
  BY <1>3, <1>5, <1>10, <1>15, <1>16 DEF Tiling

LEMMA OceanInsertTiling ==
    ASSUME Tiling, NEW t \in reefs \cup {EmptyTree}, NEW w \in Window, NEW target,
           OceanInsert(t, w, target)
    PROVE  Tiling'
<1> DEFINE u == Insert(t, w, target)
<1>1. /\ w \notin DOMAIN owners /\ w \notin Reefed
      /\ reefs' = (reefs \ {t}) \cup {u}
      /\ UNCHANGED <<trees, owners>>
  BY DEF OceanInsert, Unowned
<1>2. t \in Seq(Leaf) /\ NoTwins(t) /\ w \notin Tiles(t) /\ Tiles(t) \cap DOMAIN owners = {}
  <2>1. CASE t = EmptyTree
    BY <2>1 DEF EmptyTree, NoTwins, Tiles
  <2>2. CASE t \in reefs
    BY <2>2, <1>1 DEF Tiling, ReefsApart, Reefed
  <2> QED
    BY <2>1, <2>2
<1>3. u \in Seq(Leaf) /\ NoTwins(u) /\ Tiles(u) = Tiles(t) \cup {w}
  BY <1>2, InsertType, InsertNoTwins, InsertTiles
<1> HIDE DEF u
<1>4. \A v \in Tiles(u) : v \notin DOMAIN owners
  BY <1>1, <1>2, <1>3
<1>5. \A r \in reefs \ {t} : w \notin Tiles(r)
  BY <1>1 DEF Reefed
<1>6. \A r \in reefs \ {t} : Tiles(r) \cap Tiles(t) = {}
  BY DEF Tiling, ReefsApart, EmptyTree, Tiles
<1>7. \A r \in reefs \ {t} : Tiles(r) \cap Tiles(u) = {}
  BY <1>3, <1>5, <1>6
<1>8. ReefsApart'
  BY <1>1, <1>3, <1>4, <1>7 DEF Tiling, ReefsApart
<1>9. OwnersAgree'
  BY <1>1 DEF Tiling, OwnersAgree
<1> QED
  BY <1>1, <1>3, <1>8, <1>9 DEF Tiling

LEMMA OceanCloseTiling ==
    ASSUME Tiling, NEW w, OceanClose(w)
    PROVE  Tiling'
<1>1. PICK t \in reefs : w \in Tiles(t) /\ reefs' = ((reefs \ {t}) \cup {RemoveFrom(t, w)}) \ {EmptyTree}
  BY DEF OceanClose
<1> DEFINE u == RemoveFrom(t, w)
<1>2. t \in Seq(Leaf) /\ NoTwins(t)
  BY DEF Tiling, ReefsApart
<1>3. u \in Seq(Leaf) /\ NoTwins(u) /\ Tiles(u) = Tiles(t) \ {w}
  BY <1>1, <1>2, RemoveLeaves, RemoveNoTwins, RemoveTiles
<1>4. reefs' \subseteq (reefs \ {t}) \cup {u} /\ UNCHANGED <<trees, owners>>
  BY <1>1 DEF OceanClose
<1> HIDE DEF u
<1>5. \A v \in Tiles(u) : v \notin DOMAIN owners
  BY <1>3 DEF Tiling, ReefsApart
<1>6. \A r \in reefs \ {t} : Tiles(r) \cap Tiles(u) = {}
  BY <1>3 DEF Tiling, ReefsApart
<1>7. ReefsApart'
  BY <1>3, <1>4, <1>5, <1>6 DEF Tiling, ReefsApart
<1>8. OwnersAgree'
  BY <1>4 DEF Tiling, OwnersAgree
<1> QED
  BY <1>3, <1>4, <1>7, <1>8 DEF Tiling

LEMMA MigrateTiling ==
    ASSUME Tiling, NEW slot \in [reefs -> Key], NEW dry \in SUBSET Key,
           InsertMigratedTrees(slot, dry)
    PROVE  Tiling'
<1> DEFINE used == {slot[t] : t \in reefs}
           home(w) == CHOOSE t \in reefs : w \in Tiles(t)
           tree(k) == CHOOSE t \in reefs : slot[t] = k
<1>1. /\ \A t, u \in reefs : slot[t] = slot[u] => t = u
      /\ used \cap dry = {}
      /\ trees' = [k \in Key |-> IF k \in used THEN tree(k)
                                ELSE IF k \in dry THEN EmptyTree ELSE trees[k]]
      /\ owners' = [w \in {v \in DOMAIN owners : owners[v] \notin used \cup dry} \cup Reefed |->
                      IF w \in Reefed THEN slot[home(w)] ELSE owners[w]]
      /\ reefs' = {}
  BY DEF InsertMigratedTrees
<1>2. used \subseteq Key
  OBVIOUS
<1>3. ASSUME NEW t \in reefs PROVE slot[t] \in used /\ tree(slot[t]) = t
  BY <1>1
<1>4. ASSUME NEW k \in used PROVE tree(k) \in reefs /\ slot[tree(k)] = k
  OBVIOUS
<1>5. ASSUME NEW t \in reefs, NEW w \in Tiles(t)
      PROVE  w \in Reefed /\ home(w) = t /\ w \in Window /\ w \notin DOMAIN owners
  <2>1. w \in Reefed
    BY DEF Reefed
  <2>2. home(w) \in reefs /\ w \in Tiles(home(w))
    OBVIOUS
  <2>3. home(w) = t
    BY <2>2 DEF Tiling, ReefsApart
  <2>4. t \in Seq(Leaf)
    BY DEF Tiling
  <2> QED
    BY <2>1, <2>3, <2>4, TilesAreWindows DEF Tiling, ReefsApart
<1>6. ASSUME NEW w \in Reefed
      PROVE  home(w) \in reefs /\ w \in Tiles(home(w)) /\ w \in Window
  <2>1. PICK t \in reefs : w \in Tiles(t)
    BY DEF Reefed
  <2> QED
    BY <2>1, <1>5
<1> HIDE DEF used, home, tree
<1>7. /\ trees' \in [Key -> Seq(Leaf)]
      /\ \A k \in Key : trees'[k] = IF k \in used THEN tree(k)
                                    ELSE IF k \in dry THEN EmptyTree ELSE trees[k]
  BY <1>1, <1>4 DEF Tiling, EmptyTree
<1>8. /\ DOMAIN owners' = {v \in DOMAIN owners : owners[v] \notin used \cup dry} \cup Reefed
      /\ \A w \in DOMAIN owners' : owners'[w] = IF w \in Reefed THEN slot[home(w)] ELSE owners[w]
  BY <1>1
<1>9. DOMAIN owners' \subseteq Window /\ \A w \in DOMAIN owners' : owners'[w] \in Key
  BY <1>2, <1>3, <1>6, <1>8 DEF Tiling
<1>10. \A k \in Key : NoTwins(trees'[k])
  BY <1>4, <1>7 DEF Tiling, OwnersAgree, ReefsApart, NoTwins, EmptyTree
<1>11. ASSUME NEW k \in Key, NEW w \in Window
       PROVE  w \in Tiles(trees'[k]) <=> (w \in DOMAIN owners' /\ owners'[w] = k)
  <2>1. w \in Tiles(trees[k]) <=> (w \in DOMAIN owners /\ owners[w] = k)
    BY DEF Tiling, OwnersAgree
  <2>2. CASE k \in used
    <3>1. w \in Tiles(tree(k)) => w \in Reefed /\ slot[home(w)] = k
      BY <2>2, <1>4, <1>5
    <3>2. w \in Reefed /\ slot[home(w)] = k => w \in Tiles(tree(k))
      BY <1>3, <1>6
    <3> QED
      BY <2>2, <3>1, <3>2, <1>7, <1>8
  <2>3. CASE k \notin used
    <3>1. w \in Reefed => slot[home(w)] # k /\ w \notin DOMAIN owners
      BY <2>3, <1>3, <1>5, <1>6
    <3>2. CASE k \in dry
      BY <2>3, <3>1, <3>2, <1>7, <1>8 DEF Tiles, EmptyTree
    <3>3. CASE k \notin dry
      BY <2>1, <2>3, <3>1, <3>3, <1>7, <1>8
    <3> QED
      BY <3>2, <3>3
  <2> QED
    BY <2>2, <2>3
<1>12. OwnersAgree'
  BY <1>10, <1>11 DEF OwnersAgree
<1>13. ReefsApart' /\ reefs' \subseteq Seq(Leaf)
  BY <1>1 DEF ReefsApart
<1> QED
  BY <1>7, <1>9, <1>12, <1>13 DEF Tiling

\* What the two actions on active workspaces name are slots.
LEMMA ActiveSlot == ASSUME SettingsOK, NEW o \in Output PROVE <<o, active[o]>> \in Key
BY DEF SettingsOK, Key

LEMMA SwapActiveStep ==
    ASSUME IInv, NEW a \in Output, NEW b \in Output, SwapActive(a, b)
    PROVE  IInv'
<1> DEFINE k == <<a, active[a]>>
           l == <<b, active[b]>>
<1>1. Tiling /\ SettingsOK /\ GrabOK /\ k \in Key /\ l \in Key
  BY ActiveSlot DEF IInv
<1>2. /\ k # l
      /\ trees' = [trees EXCEPT ![k] = trees[l], ![l] = trees[k]]
      /\ owners' = Reindexed(k, l) /\ reefs' = reefs
      /\ IF {k, l} \cap Populated # {} THEN Bump ELSE UNCHANGED grab
      /\ UNCHANGED <<active, algorithms, inherited, master, engine>>
  BY DEF SwapActive, world, settings
<1> HIDE DEF k, l
<1>3. Tiling'
  BY <1>1, <1>2, ExchangeTiling
<1>4. SettingsOK'
  BY <1>1, <1>2, SettingsSafe
<1>5. GrabOK'
  <2>1. CASE Bump
    BY <2>1, BumpSafe
  <2>2. CASE {k, l} \cap Populated = {}
    <3>1. trees[k] = EmptyTree /\ trees[l] = EmptyTree
      BY <1>1, <2>2 DEF Populated
    <3>2. \A m \in Key : trees'[m] = trees[m]
      BY <1>1, <1>2, <3>1 DEF Tiling
    <3>3. UNCHANGED <<trees, grab>>
      BY <1>1, <1>2, <1>3, <2>2, <3>2 DEF Tiling
    <3> QED
      BY <1>1, <3>3, GrabSafe
  <2> QED
    BY <1>2, <2>1, <2>2
<1> QED
  BY <1>3, <1>4, <1>5 DEF IInv

LEMMA MoveWorkspaceStep ==
    ASSUME IInv, NEW from \in Output, NEW to \in Output, NEW t \in Workspace,
           MoveWorkspaceTo(from, to, t)
    PROVE  IInv'
<1> DEFINE k == <<from, active[from]>>
           l == <<to, t>>
<1>1. Tiling /\ SettingsOK /\ k \in Key /\ l \in Key
  BY ActiveSlot DEF IInv, Key
<1>2. k # l /\ trees[l] = EmptyTree
  BY DEF MoveWorkspaceTo
<1>3. /\ trees' = [trees EXCEPT ![k] = trees[l], ![l] = trees[k]]
      /\ owners' = Reindexed(k, l) /\ reefs' = reefs /\ Bump
      /\ UNCHANGED <<inherited, engine>>
  BY <1>2 DEF MoveWorkspaceTo, world
<1>4. /\ algorithms' \in {With(Without(algorithms, {k}), {l}, AlgorithmOf(k)),
                          Without(algorithms, {k, l})}
      /\ master' \subseteq master \cup {l}
      /\ active' = [active EXCEPT ![to] = t]
  BY DEF MoveWorkspaceTo
<1>5. AlgorithmOf(k) \in Algorithm
  BY <1>1 DEF AlgorithmOf, SettingsOK, Key
<1> HIDE DEF k, l
<1>6. Tiling'
  BY <1>1, <1>2, <1>3, ExchangeTiling
<1>7. DOMAIN algorithms' \subseteq Key /\ \A m \in DOMAIN algorithms' : algorithms'[m] \in Algorithm
  BY <1>1, <1>4, <1>5 DEF With, Without, SettingsOK
<1>8. SettingsOK'
  BY <1>1, <1>3, <1>4, <1>7 DEF SettingsOK
<1>9. GrabOK'
  BY <1>3, BumpSafe
<1> QED
  BY <1>6, <1>8, <1>9 DEF IInv

LEMMA StartGrabStep ==
    ASSUME IInv, NEW o \in Output, StartGrab(o)
    PROVE  IInv'
<1> DEFINE k == <<o, active[o]>>
<1>1. Tiling /\ SettingsOK /\ k \in Key /\ trees[k] \in Seq(Leaf)
  BY ActiveSlot DEF IInv, Tiling
<1>2. UNCHANGED <<trees, owners, reefs, active, algorithms, inherited, master, engine>>
  BY DEF StartGrab, settings, world
<1>3. PICK i \in DOMAIN trees[k] : \E n \in 1 .. Len(trees[k][i].path) :
        grab' = [key |-> k, path |-> SubSeq(trees[k][i].path, 1, n - 1), tree |-> trees[k]]
  BY DEF StartGrab
<1> HIDE DEF k
<1>4. trees[k][i] \in Leaf
  BY <1>1
<1>5. trees[k][i].path \in Seq(Side)
  BY <1>4 DEF Leaf
<1>6. PICK n \in 1 .. Len(trees[k][i].path) :
        grab' = [key |-> k, path |-> SubSeq(trees[k][i].path, 1, n - 1), tree |-> trees[k]]
  BY <1>3
<1>7. SubSeq(trees[k][i].path, 1, n - 1) \in Seq(Side)
  BY <1>5
<1>8. grab' \in Hit /\ trees'[grab'.key] = grab'.tree
  BY <1>1, <1>2, <1>6, <1>7 DEF Hit
<1>9. GrabOK'
  BY <1>8 DEF GrabOK, GrabFresh
<1> QED
  BY <1>1, <1>2, <1>9, TilingSafe, SettingsSafe DEF IInv

\* An engine switch: no grab is held.
LEMMA DrainStep == ASSUME IInv, DrainForMigration PROVE IInv'
<1>1. Tiling'
  BY DrainTiling DEF IInv
<1>2. SettingsOK'
  BY DEF IInv, SettingsOK, DrainForMigration, Without
<1>3. GrabOK'
  BY DEF DrainForMigration, GrabOK, GrabFresh
<1> QED
  BY <1>1, <1>2, <1>3 DEF IInv

LEMMA MigrateStep ==
    ASSUME IInv, NEW slot \in [reefs -> Key], NEW dry \in SUBSET Key,
           InsertMigratedTrees(slot, dry)
    PROVE  IInv'
<1>1. Tiling'
  BY MigrateTiling DEF IInv
<1>2. active' \in [Output -> Workspace \ Kept] /\ engine' = "classic" /\ Bump
      /\ UNCHANGED <<algorithms, inherited, master>>
  BY DEF InsertMigratedTrees, settings
<1>3. SettingsOK'
  BY <1>2 DEF IInv, SettingsOK
<1> QED
  BY <1>1, <1>2, <1>3, BumpSafe DEF IInv

LEMMA StepIInv == IInv /\ [Next]_vars => IInv'
<1> SUFFICES ASSUME IInv, [Next]_vars PROVE IInv'
  OBVIOUS
<1> USE DEF IInv
<1>1. ASSUME NEW k \in Key, NEW w \in Window, NEW target, InsertWindow(k, w, target) PROVE IInv'
  <2>1. Bump /\ UNCHANGED <<active, algorithms, inherited, master, engine>>
    BY <1>1 DEF InsertWindow, settings, world
  <2> QED
    BY <1>1, <2>1, InsertWindowTiling, SettingsSafe, BumpSafe
<1>2. ASSUME NEW w \in Window, RemoveWindow(w) PROVE IInv'
  <2>1. Bump /\ UNCHANGED <<active, inherited, engine>> /\ Pruned(owners[w], trees'[owners[w]])
    BY <1>2 DEF RemoveWindow, world
  <2> QED
    BY <1>2, <2>1, RemoveWindowTiling, PrunedSafe, BumpSafe
<1>3. ASSUME NEW a \in Window, NEW b \in Window, SwapWindows(a, b) PROVE IInv'
  <2>1. Bump /\ UNCHANGED <<active, algorithms, inherited, master, engine>>
    BY <1>3 DEF SwapWindows, Trade, settings, world
  <2> QED
    BY <1>3, <2>1, SwapWindowsTiling, SettingsSafe, BumpSafe
<1>4. ASSUME NEW old \in Window, NEW new \in Window, ReplaceWindow(old, new) PROVE IInv'
  <2>1. Bump /\ UNCHANGED <<active, algorithms, inherited, master, engine>>
    BY <1>4 DEF ReplaceWindow, settings, world
  <2> QED
    BY <1>4, <2>1, ReplaceWindowTiling, SettingsSafe, BumpSafe
<1>5. ASSUME NEW o \in Output, NEW s \in Workspace, SetActive(o, s) PROVE IInv'
  <2>1. UNCHANGED <<trees, owners, reefs, grab>> /\ SettingsOK'
    BY <1>5 DEF SetActive, settings, world, SettingsOK
  <2> QED
    BY <2>1, TilingSafe, GrabSafe
<1>6. ASSUME NEW o \in Output, NEW alg \in Algorithm, SetAlgorithm(o, alg) PROVE IInv'
  <2>1. /\ UNCHANGED <<trees, owners, reefs, active, inherited, master, engine>>
        /\ algorithms' = With(algorithms, {<<o, active[o]>>}, alg)
        /\ Bump \/ UNCHANGED grab
    BY <1>6 DEF SetAlgorithm, world
  <2>2. SettingsOK'
    BY <2>1, ActiveSlot DEF SettingsOK, With
  <2> QED
    BY <2>1, <2>2, TilingSafe, GrabSafe, BumpSafe
<1>7. ASSUME NEW o \in Output, AdjustMasterRatio(o) PROVE IInv'
  <2>1. /\ UNCHANGED <<trees, owners, reefs, active, algorithms, inherited, engine, grab>>
        /\ master' = master \cup {<<o, active[o]>>}
    BY <1>7 DEF AdjustMasterRatio, world
  <2>2. SettingsOK'
    BY <2>1, ActiveSlot DEF SettingsOK
  <2> QED
    BY <2>1, <2>2, TilingSafe, GrabSafe
<1>8. ASSUME NEW f \in Configs, ReloadConfig(f) PROVE IInv'
  <2>1. /\ UNCHANGED <<trees, owners, reefs, active, algorithms, master, engine>>
        /\ inherited' = f /\ Bump
    BY <1>8 DEF ReloadConfig, world
  <2>2. SettingsOK'
    BY <2>1, BoundsAssumption DEF SettingsOK
  <2> QED
    BY <2>1, <2>2, TilingSafe, BumpSafe
<1>9. ASSUME NEW w \in Window, ResizeTargetBy(w) PROVE IInv'
  <2>1. Bump /\ UNCHANGED <<trees, owners, reefs, active, algorithms, inherited, master, engine>>
    BY <1>9 DEF ResizeTargetBy, settings, world
  <2> QED
    BY <2>1, TilingSafe, SettingsSafe, BumpSafe
<1>10. ASSUME EndGrab PROVE IInv'
  <2>1. UNCHANGED <<trees, owners, reefs, active, algorithms, inherited, master, engine>> /\ GrabOK'
    BY <1>10 DEF EndGrab, settings, world, GrabOK, GrabFresh
  <2> QED
    BY <2>1, TilingSafe, SettingsSafe
<1>11. ASSUME NEW t \in reefs \cup {EmptyTree}, NEW w \in Window, NEW target, OceanInsert(t, w, target)
       PROVE  IInv'
  <2>1. UNCHANGED <<trees, grab, active, algorithms, inherited, master, engine>>
    BY <1>11 DEF OceanInsert, settings
  <2> QED
    BY <1>11, <2>1, OceanInsertTiling, SettingsSafe, GrabSafe
<1>12. ASSUME NEW w \in Window, OceanClose(w) PROVE IInv'
  <2>1. UNCHANGED <<trees, grab, active, algorithms, inherited, master, engine>>
    BY <1>12 DEF OceanClose, settings
  <2> QED
    BY <1>12, <2>1, OceanCloseTiling, SettingsSafe, GrabSafe
<1>13. CASE UNCHANGED vars
  <2>1. UNCHANGED <<trees, owners, reefs, grab, active, algorithms, inherited, master, engine>>
    BY <1>13 DEF vars
  <2> QED
    BY <2>1, TilingSafe, SettingsSafe, GrabSafe
<1> QED
  BY <1>1, <1>2, <1>3, <1>4, <1>5, <1>6, <1>7, <1>8, <1>9, <1>10, <1>11, <1>12, <1>13,
     SwapActiveStep, MoveWorkspaceStep, StartGrabStep, DrainStep, MigrateStep DEF Next, TreesNext

LEMMA Invariance == Spec => []IInv
BY InitIInv, StepIInv, PTL DEF Spec

-----------------------------------------------------------------------------
(* The theorems *)

\* Every reachable state of the registry is well typed.
THEOREM TypeCorrect == Spec => []TypeOK
<1>1. IInv => TypeOK
  BY DEF IInv, Tiling, SettingsOK, GrabOK, TypeOK
<1> QED
  BY <1>1, Invariance, PTL

\* Trees and owner index (Layouts::trees, Layouts::owners) always agree, and
\* no window has two leaves, through every insertion, removal, swap, move,
\* replacement and engine switch.
THEOREM IndexMatchesTrees == Spec => []OwnersAgree
<1>1. IInv => OwnersAgree
  BY DEF IInv, Tiling
<1> QED
  BY <1>1, Invariance, PTL

\* A split that split_is_current lets a pointer grab resize is the split the
\* grab captured, in the tree it captured it from.
THEOREM CurrentSplitIsCaptured == Spec => []GrabKeepsItsSplit
<1>1. IInv => GrabKeepsItsSplit
  BY DEF IInv, GrabOK, GrabFresh, GrabKeepsItsSplit, SplitIsCurrent
<1> QED
  BY <1>1, Invariance, PTL

-----------------------------------------------------------------------------
(* The registry implements Places *)

\* Where each window is, by the index.
LEMMA PlacementOf ==
    ASSUME NEW w \in Window
    PROVE  Placement[w] = IF w \in DOMAIN owners THEN owners[w] ELSE NoWindow
BY DEF Placement, PlaceOf

LEMMA PlacementNext ==
    ASSUME NEW w \in Window
    PROVE  Placement'[w] = IF w \in DOMAIN owners' THEN owners'[w] ELSE NoWindow
BY DEF Placement, PlaceOf

LEMMA IndexUntouched == ASSUME UNCHANGED owners PROVE UNCHANGED Placement
BY DEF Placement, PlaceOf

\* Two index entries that trade places, seen from Places.
LEMMA ReindexedExchanges ==
    ASSUME Tiling, NEW k \in Key, NEW l \in Key, owners' = Reindexed(k, l)
    PROVE  Promise!Next
<1>1. DOMAIN owners' = DOMAIN owners
      /\ \A w \in DOMAIN owners :
           owners'[w] = IF owners[w] = k THEN l ELSE IF owners[w] = l THEN k ELSE owners[w]
  BY DEF Reindexed
<1>2. ASSUME NEW w \in Window
      PROVE  Placement'[w] = IF Placement[w] = k THEN l
                             ELSE IF Placement[w] = l THEN k ELSE Placement[w]
  BY <1>1, PlacementOf, PlacementNext, NoWindowAssumption
<1>3. Promise!Exchange(k, l)
  BY <1>2 DEF Promise!Exchange, Placement
<1> QED
  BY <1>3 DEF Promise!Next

LEMMA StepKeepsPromise == IInv /\ [Next]_vars => [Promise!Next]_Placement
<1> SUFFICES ASSUME IInv, [Next]_vars PROVE Promise!Next \/ UNCHANGED Placement
  OBVIOUS
<1> DEFINE Goal == Promise!Next \/ UNCHANGED Placement
<1>0. Tiling /\ SettingsOK
  BY DEF IInv
<1>1. ASSUME NEW k \in Key, NEW w \in Window, NEW target, InsertWindow(k, w, target) PROVE Goal
  <2>1. w \notin DOMAIN owners /\ owners' = With(owners, {w}, k)
    BY <1>1 DEF InsertWindow, Unowned
  <2>2. ASSUME NEW v \in Window PROVE Placement'[v] = IF v = w THEN k ELSE Placement[v]
    BY <2>1, PlacementOf, PlacementNext DEF With
  <2>3. Placement' = [Placement EXCEPT ![w] = k]
    BY <2>2 DEF Placement
  <2>4. Promise!Put(w, k)
    BY <2>1, <2>3, PlacementOf DEF Promise!Put
  <2> QED
    BY <2>4 DEF Promise!Next
<1>2. ASSUME NEW w \in Window, RemoveWindow(w) PROVE Goal
  <2>1. w \in DOMAIN owners /\ owners' = Without(owners, {w})
    BY <1>2 DEF RemoveWindow
  <2>2. ASSUME NEW v \in Window PROVE Placement'[v] = IF v = w THEN NoWindow ELSE Placement[v]
    BY <2>1, PlacementOf, PlacementNext DEF Without
  <2>3. Placement' = [Placement EXCEPT ![w] = NoWindow]
    BY <2>2 DEF Placement
  <2>4. Placement[w] # NoWindow
    BY <1>0, <2>1, PlacementOf, NoWindowAssumption DEF Tiling
  <2>5. Promise!Take(w)
    BY <2>3, <2>4 DEF Promise!Take
  <2> QED
    BY <2>5 DEF Promise!Next
<1>3. ASSUME NEW old \in Window, NEW new \in Window, ReplaceWindow(old, new) PROVE Goal
  <2>1. old \in DOMAIN owners /\ new \notin DOMAIN owners /\ owners' = Reowned(old, new)
    BY <1>3 DEF ReplaceWindow, Unowned
  <2>2. ASSUME NEW v \in Window
        PROVE  Placement'[v] = IF v = new THEN Placement[old]
                               ELSE IF v = old THEN NoWindow ELSE Placement[v]
    BY <2>1, PlacementOf, PlacementNext DEF Reowned, With, Without
  <2>3. Placement' = [Placement EXCEPT ![old] = NoWindow, ![new] = Placement[old]]
    BY <2>2 DEF Placement
  <2>4. Placement[old] # NoWindow /\ Placement[new] = NoWindow
    BY <1>0, <2>1, PlacementOf, NoWindowAssumption DEF Tiling
  <2>5. Promise!Substitute(old, new)
    BY <2>3, <2>4 DEF Promise!Substitute
  <2> QED
    BY <2>5 DEF Promise!Next
<1>4. ASSUME NEW a \in Output, NEW b \in Output, SwapActive(a, b) PROVE Goal
  <2>1. owners' = Reindexed(<<a, active[a]>>, <<b, active[b]>>)
    BY <1>4 DEF SwapActive
  <2> QED
    BY <1>0, <2>1, ActiveSlot, ReindexedExchanges
<1>5. ASSUME NEW from \in Output, NEW to \in Output, NEW t \in Workspace, MoveWorkspaceTo(from, to, t)
      PROVE  Goal
  <2>1. owners' = Reindexed(<<from, active[from]>>, <<to, t>>)
    BY <1>5 DEF MoveWorkspaceTo
  <2>2. <<to, t>> \in Key
    BY DEF Key
  <2> QED
    BY <1>0, <2>1, <2>2, ActiveSlot, ReindexedExchanges
<1>6. CASE DrainForMigration
  <2> DEFINE gone == {k \in Populated : k[2] \notin Kept}
  <2>1. owners' = Without(owners, {w \in DOMAIN owners : owners[w] \in gone}) /\ gone \in SUBSET Key
    BY <1>6 DEF DrainForMigration, Populated
  <2> HIDE DEF gone
  <2>2. ASSUME NEW v \in Window
        PROVE  Placement'[v] = IF Placement[v] \in gone THEN NoWindow ELSE Placement[v]
    BY <2>1, PlacementOf, PlacementNext, NoWindowAssumption DEF Without
  <2>3. Promise!Clear(gone)
    BY <2>2 DEF Promise!Clear, Placement
  <2> QED
    BY <2>1, <2>3 DEF Promise!Next
<1>7. ASSUME NEW slot \in [reefs -> Key], NEW dry \in SUBSET Key, InsertMigratedTrees(slot, dry)
      PROVE  Goal
  <2> DEFINE used == {slot[t] : t \in reefs}
             taken == used \cup dry
             home(w) == CHOOSE t \in reefs : w \in Tiles(t)
  <2>1. owners' = [w \in {v \in DOMAIN owners : owners[v] \notin taken} \cup Reefed |->
                     IF w \in Reefed THEN slot[home(w)] ELSE owners[w]]
    BY <1>7 DEF InsertMigratedTrees
  <2>2. taken \subseteq Key /\ \A w \in Reefed : slot[home(w)] \in taken
    BY DEF Reefed
  <2> HIDE DEF taken, home
  <2>3. \A w \in DOMAIN owners : w \notin Reefed /\ owners[w] \in Key
    BY <1>0, OwnerTile
  <2>4. ASSUME NEW w \in Window
        PROVE  \/ Placement[w] \notin taken /\ Placement'[w] = Placement[w]
               \/ Placement[w] \in taken /\ Placement'[w] = NoWindow
               \/ Placement[w] = NoWindow /\ Placement'[w] \in taken
    <3>1. CASE w \in DOMAIN owners
      BY <2>1, <2>3, <3>1, PlacementOf, PlacementNext
    <3>2. CASE w \in Reefed
      BY <2>1, <2>2, <2>3, <3>2, PlacementOf, PlacementNext
    <3>3. CASE w \notin DOMAIN owners /\ w \notin Reefed
      BY <2>1, <2>2, <3>3, PlacementOf, PlacementNext, NoWindowAssumption
    <3> QED
      BY <3>1, <3>2, <3>3
  <2>5. Placement' \in [Window -> Key \cup {NoWindow}]
    <3>1. \A w \in Window : Placement[w] \in Key \cup {NoWindow}
      BY <2>3, PlacementOf
    <3>2. \A w \in Window : Placement'[w] \in Key \cup {NoWindow}
      BY <2>2, <2>4, <3>1
    <3> QED
      BY <3>2 DEF Placement
  <2>6. Promise!Refill(taken)
    BY <2>4 DEF Promise!Refill
  <2> QED
    BY <2>2, <2>5, <2>6 DEF Promise!Next
<1>8. CASE UNCHANGED owners
  BY <1>8, IndexUntouched
<1> QED
  BY <1>1, <1>2, <1>3, <1>4, <1>5, <1>6, <1>7, <1>8
     DEF Next, TreesNext, vars, SwapWindows, SetActive, SetAlgorithm, AdjustMasterRatio, ReloadConfig,
         ResizeTargetBy, StartGrab, EndGrab, OceanInsert, OceanClose

LEMMA InitKeepsPromise == Init => Promise!Init
BY DEF Init, Promise!Init, Placement, PlaceOf

\* The layout registry implements Places: whatever mixture of calls is made,
\* in either engine, a window is tiled in at most one place and a call moves no
\* other window than those it names; an engine switch moves none, but what it
\* finds in a slot it fills loses its place.
THEOREM RegistryImplementsPlaces == Spec => KeepsPromise
<1>1. Spec => []IInv
  BY InitIInv, StepIInv, PTL DEF Spec
<1> QED
  BY <1>1, InitKeepsPromise, StepKeepsPromise, PTL DEF Spec, KeepsPromise, Promise!Spec

-----------------------------------------------------------------------------
(* The layout the user sees *)

(* A workspace that moves to another output looks there as it did, for any *)
(* config and whatever the slot it moves into was set to                   *)
(* (move_workspace_to pins the effective algorithm where it must).         *)
THEOREM MovedWorkspaceLooksTheSame == Spec => MoveKeepsLayout
<1>1. ASSUME NEW from \in Output, NEW to \in Output, NEW t \in Workspace,
             MoveWorkspaceTo(from, to, t)
      PROVE  AlgorithmOf(<<to, t>>)' = AlgorithmOf(<<from, active[from]>>)
  <2> DEFINE k == <<from, active[from]>>
             l == <<to, t>>
  <2>1. /\ algorithms' = IF MustPin(k, t)
                         THEN With(Without(algorithms, {k}), {l}, AlgorithmOf(k))
                         ELSE Without(algorithms, {k, l})
        /\ inherited' = inherited
    BY <1>1 DEF MoveWorkspaceTo
  <2>2. l[2] = t
    OBVIOUS
  <2>3. AlgorithmOf(l)' = IF l \in DOMAIN algorithms' THEN algorithms'[l] ELSE inherited'[t]
    BY <2>2 DEF AlgorithmOf
  <2> HIDE DEF k, l
  <2>4. CASE MustPin(k, t)
    <3>1. l \in DOMAIN algorithms' /\ algorithms'[l] = AlgorithmOf(k)
      BY <2>1, <2>4 DEF With
    <3> QED  BY <2>3, <3>1 DEF k, l
  <2>5. CASE ~ MustPin(k, t)
    <3>1. l \notin DOMAIN algorithms'
      BY <2>1, <2>5 DEF Without
    <3>2. AlgorithmOf(k) = inherited[t]
      BY <2>5 DEF MustPin
    <3> QED  BY <2>1, <2>3, <3>1, <3>2 DEF k, l
  <2> QED  BY <2>4, <2>5
<1>2. [Next]_vars =>
        [\A from, to \in Output, t \in Workspace :
           MoveWorkspaceTo(from, to, t)
             => AlgorithmOf(<<to, t>>)' = AlgorithmOf(<<from, active[from]>>)]_vars
  BY <1>1
<1> QED  BY <1>2, PTL DEF Spec, MoveKeepsLayout
=============================================================================
