------------------------------ MODULE BspTree ------------------------------
(***************************************************************************)
(* One BSP tree of tiled windows, and its operations (BspLayout and the    *)
(* node helpers of src/src/tide_core/layout.rs).                           *)
(*                                                                         *)
(* A tree is the sequence of its leaves in tree order.  A leaf records its *)
(* window and its path: the sides taken from the root, 1 for First and 2   *)
(* for Second.  The splits are the proper prefixes of the paths.  Split    *)
(* ratios are geometry and left out; the order and the paths are what      *)
(* focus, grabs and the master and cascade layouts depend on.              *)
(***************************************************************************)
EXTENDS Naturals, Sequences

CONSTANT Window

Side == {1, 2}
Leaf == [win : Window, path : Seq(Side)]

EmptyTree == <<>>

\* windows(): the tiled windows of a tree.
Tiles(t) == {t[i].win : i \in DOMAIN t}

\* find_path: the position of w's leaf.
Slot(t, w) == CHOOSE i \in DOMAIN t : t[i].win = w

Under(path, p) == Len(path) <= Len(p) /\ SubSeq(p, 1, Len(path)) = path

\* ratio_at(path).is_some()
IsSplit(t, path) == \E i \in DOMAIN t : Under(path, t[i].path) /\ t[i].path # path

\* insert_into: the leaf of `target`, else the last leaf, is split; it keeps
\* the first side and the new window takes the second.
InsertSlot(t, target) == IF target \in Tiles(t) THEN Slot(t, target) ELSE Len(t)

Insert(t, w, target) ==
    IF t = EmptyTree THEN <<[win |-> w, path |-> <<>>]>>
    ELSE LET i == InsertSlot(t, target) IN
         [j \in 1 .. Len(t) + 1 |->
            IF j < i THEN t[j]
            ELSE IF j = i THEN [win |-> t[i].win, path |-> Append(t[i].path, 1)]
            ELSE IF j = i + 1 THEN [win |-> w, path |-> Append(t[i].path, 2)]
            ELSE t[j - 1]]

\* remove_from: when the leaf at `gone` goes, what lies under its sibling
\* moves up into their parent's place.
Lifted(leaf, gone) ==
    LET parent == SubSeq(gone, 1, Len(gone) - 1)
        sibling == Append(parent, 3 - gone[Len(gone)])
    IN IF gone # <<>> /\ Under(sibling, leaf.path)
       THEN [leaf EXCEPT !.path = parent \o SubSeq(@, Len(gone) + 1, Len(@))]
       ELSE leaf

RemoveFrom(t, w) ==
    LET i == Slot(t, w) IN
    [j \in 1 .. Len(t) - 1 |-> Lifted(t[IF j < i THEN j ELSE j + 1], t[i].path)]

\* swap_leaves: two windows trade leaves, matched against the leaves before
\* either is written.
Swap(t, a, b) ==
    [i \in DOMAIN t |-> [t[i] EXCEPT !.win = IF @ = a THEN b ELSE IF @ = b THEN a ELSE @]]

ReplaceLeaf(t, old, new) == [t EXCEPT ![Slot(t, old)].win = new]

-----------------------------------------------------------------------------
\* No window has two leaves.
NoTwins(t) == \A i, j \in DOMAIN t : t[i].win = t[j].win => i = j
=============================================================================
