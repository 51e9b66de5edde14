------------------------------ MODULE DeckOps ------------------------------
(***************************************************************************)
(* The Depth Deck of the Classic engine as a value, and its operations     *)
(* (src/src/tide_core/classic_depth.rs).                                   *)
(*                                                                         *)
(* A deck is a record with                                                 *)
(*   entries  a sequence of [win, output, ws], newest parked window first; *)
(*   view     NoView, or the open picker [output, ws, selected].  selected *)
(*            counts from 0, as in the source.                             *)
(* A surface and its Window are one value: win.                            *)
(***************************************************************************)
EXTENDS Integers, Sequences, FiniteSets

CONSTANTS Window, Output, Workspace, NoView, NoEntry

Entry == [win : Window, output : Output, ws : Workspace]
View == [output : Output, ws : Workspace, selected : Nat]
Deck == [entries : Seq(Entry), view : View \cup {NoView}]

ASSUME NoneAssumption == NoView \notin View /\ NoEntry \notin Entry

EmptyDeck == [entries |-> <<>>, view |-> NoView]

At(e, o, s) == e.output = o /\ e.ws = s

\* Positions of the entries of one workspace, in deck order.
SlotsOf(entries, o, s) == {i \in DOMAIN entries : At(entries[i], o, s)}

Count(entries, o, s) == Cardinality(SlotsOf(entries, o, s))

\* The windows parked in a workspace, in deck order.
EntriesFor(d, o, s) == SelectSeq(d.entries, LAMBDA e : At(e, o, s))

Parked(d) == {d.entries[i].win : i \in DOMAIN d.entries}

Without(entries, i) ==
    [j \in 1 .. (Len(entries) - 1) |-> IF j < i THEN entries[j] ELSE entries[j + 1]]

\* e becomes position i, everything from i on moves up by one.
Inserted(entries, i, e) ==
    [j \in 1 .. (Len(entries) + 1) |->
        IF j < i THEN entries[j] ELSE IF j = i THEN e ELSE entries[j - 1]]

\* Mutant of ClampView: off by one, the slot past the end is kept.
ClampViewOffByOne(d) ==
    IF d.view = NoView THEN d
    ELSE LET n == Count(d.entries, d.view.output, d.view.ws) IN
         IF n = 0 THEN [d EXCEPT !.view = NoView]
         ELSE IF d.view.selected > n THEN [d EXCEPT !.view.selected = n - 1]
         ELSE d

ClampView(d) ==
    IF d.view = NoView THEN d
    ELSE LET n == Count(d.entries, d.view.output, d.view.ws) IN
         IF n = 0 THEN [d EXCEPT !.view = NoView]
         ELSE IF d.view.selected >= n THEN [d EXCEPT !.view.selected = n - 1]
         ELSE d

\* Mutant of Remove: the slot stays.
RemoveForgets(d, w) == ClampView(d)

Remove(d, w) ==
    IF \E i \in DOMAIN d.entries : d.entries[i].win = w
    THEN LET i == CHOOSE i \in DOMAIN d.entries :
                    /\ d.entries[i].win = w
                    /\ \A j \in DOMAIN d.entries : d.entries[j].win = w => i <= j
         IN ClampView([d EXCEPT !.entries = Without(@, i)])
    ELSE d

Park(d, e) ==
    LET r == Remove(d, e.win) IN [r EXCEPT !.entries = Inserted(@, 1, e)]

Open(d, o, s) ==
    IF Count(d.entries, o, s) = 0 THEN d
    ELSE [d EXCEPT !.view = [output |-> o, ws |-> s, selected |-> 0]]

Close(d) == [d EXCEPT !.view = NoView]

Drain(d) == EmptyDeck

\* delta is 1 or -1; the selection wraps.
Cycle(d, delta) ==
    IF d.view = NoView THEN d
    ELSE LET n == Count(d.entries, d.view.output, d.view.ws) IN
         IF n = 0 THEN [d EXCEPT !.view = NoView]
         ELSE [d EXCEPT !.view.selected = (@ + delta) % n]

\* The entry the picker points at: the slot with `selected` slots before it.
SelectedSlot(d) ==
    IF d.view = NoView THEN 0
    ELSE LET slots == SlotsOf(d.entries, d.view.output, d.view.ws)
             hit == {i \in slots : Cardinality({j \in slots : j < i}) = d.view.selected}
         IN IF hit = {} THEN 0 ELSE CHOOSE i \in hit : TRUE

SelectedEntry(d) ==
    IF SelectedSlot(d) = 0 THEN NoEntry ELSE d.entries[SelectedSlot(d)]

SwapSelected(d, e) ==
    IF SelectedSlot(d) = 0 THEN d ELSE [d EXCEPT !.entries[SelectedSlot(d)] = e]

TakeSelected(d) ==
    IF SelectedSlot(d) = 0 THEN d
    ELSE ClampView([d EXCEPT !.entries = Without(@, SelectedSlot(d))])

FirstOf(S) == CHOOSE i \in S : \A j \in S : i <= j
LastOf(S) == CHOOSE i \in S : \A j \in S : j <= i

\* The entry a rotation of workspace (o, s) brings up: the newest going
\* down, the oldest going up.
RotateChosen(d, o, s, down) ==
    IF down THEN FirstOf(SlotsOf(d.entries, o, s)) ELSE LastOf(SlotsOf(d.entries, o, s))

\* Mutant of Rotate: the replacement is dropped.
RotateDrops(d, o, s, e, down) ==
    ClampView([d EXCEPT !.entries = Without(@, RotateChosen(d, o, s, down))])

\* Mutant of Rotate: both directions put the displaced window in front.
RotateFront(d, o, s, e, down) ==
    LET rest == Without(d.entries, RotateChosen(d, o, s, down))
        left == SlotsOf(rest, o, s)
    IN ClampView([d EXCEPT !.entries = Inserted(rest, IF left = {} THEN 1 ELSE FirstOf(left), e)])

\* Defined when the workspace has an entry, as its only caller has checked.
Rotate(d, o, s, e, down) ==
    LET rest == Without(d.entries, RotateChosen(d, o, s, down))
        left == SlotsOf(rest, o, s)
        at == IF down
              THEN IF left = {} THEN Len(rest) + 1 ELSE LastOf(left) + 1
              ELSE IF left = {} THEN 1 ELSE FirstOf(left)
    IN ClampView([d EXCEPT !.entries = Inserted(rest, at, e)])

\* No clamp: a workspace only moves into a vacant slot, see Workspaces.
MoveWorkspace(d, from, s, to, t) ==
    [entries |-> [i \in DOMAIN d.entries |->
                    IF At(d.entries[i], from, s)
                    THEN [d.entries[i] EXCEPT !.output = to, !.ws = t]
                    ELSE d.entries[i]],
     view |-> IF d.view # NoView /\ d.view.output = from /\ d.view.ws = s
              THEN [d.view EXCEPT !.output = to, !.ws = t]
              ELSE d.view]

AdoptOutputs(d, from, to) ==
    ClampView(
      [entries |-> [i \in DOMAIN d.entries |->
                      IF d.entries[i].output \in from
                      THEN [d.entries[i] EXCEPT !.output = to]
                      ELSE d.entries[i]],
       view |-> IF d.view # NoView /\ d.view.output \in from
                THEN [d.view EXCEPT !.output = to]
                ELSE d.view])

MigrateOutput(d, from, to) == AdoptOutputs(d, {from}, to)
=============================================================================
