-------------------------- MODULE DepthDeckProofs --------------------------
(***************************************************************************)
(* Proofs about DepthDeck: every window is owned once and an open picker   *)
(* points at an entry, for any windows, outputs and workspaces.            *)
(***************************************************************************)
EXTENDS DepthDeck, FiniteSetTheorems, NaturalsInduction, WellFoundedInduction, TLAPS

-----------------------------------------------------------------------------
(* Sequences of entries *)

Inj(s) == \A i, j \in DOMAIN s : s[i].win = s[j].win => i = j
Wins(s) == {s[i].win : i \in DOMAIN s}

LEMMA NatMin ==
    ASSUME NEW S \in SUBSET Nat, S # {}
    PROVE  \E i \in S : \A j \in S : i <= j
<1>1. IsWellFoundedOn(OpToRel(<, Nat), Nat)
  BY NatLessThanWellFounded
<1>2. \E i \in S : \A j \in S : ~ (<<j, i>> \in OpToRel(<, Nat))
  BY <1>1, WFMin
<1>3. \E i \in S : \A j \in S : ~ (j < i)
  BY <1>2, Zenon DEF OpToRel
<1> QED
  BY <1>3

LEMMA WithoutEntry ==
    ASSUME NEW s \in Seq(Entry), NEW i \in DOMAIN s, Inj(s)
    PROVE  /\ Without(s, i) \in Seq(Entry)
           /\ Inj(Without(s, i))
           /\ Wins(Without(s, i)) = Wins(s) \ {s[i].win}
<1> DEFINE t == Without(s, i)
<1>1. /\ Len(s) \in Nat /\ DOMAIN s = 1 .. Len(s) /\ i \in 1 .. Len(s)
      /\ \A j \in 1 .. Len(s) : s[j] \in Entry
  OBVIOUS
<1>2. t \in Seq(Entry) /\ DOMAIN t = 1 .. (Len(s) - 1)
  BY <1>1 DEF Without
<1>3. \A j \in DOMAIN t : t[j] = IF j < i THEN s[j] ELSE s[j + 1]
  BY <1>1 DEF Without
<1>4. Inj(t)
  BY <1>1, <1>2, <1>3 DEF Inj
<1>5. Wins(t) \subseteq Wins(s) \ {s[i].win}
  BY <1>1, <1>2, <1>3 DEF Inj, Wins
<1>6. ASSUME NEW k \in DOMAIN s, k # i PROVE s[k].win \in Wins(t)
  <2>1. CASE k < i
    BY <2>1, <1>1, <1>2, <1>3, k \in DOMAIN t, t[k] = s[k] DEF Wins
  <2>2. CASE k > i
    <3>1. k - 1 \in DOMAIN t /\ t[k - 1] = s[k]
      BY <2>2, <1>1, <1>2, <1>3
    <3> QED BY <3>1 DEF Wins
  <2> QED BY <1>1, <1>6, <2>1, <2>2
<1>7. Wins(s) \ {s[i].win} \subseteq Wins(t)
  BY <1>6 DEF Wins
<1> QED
  BY <1>2, <1>4, <1>5, <1>7

LEMMA InsertedEntry ==
    ASSUME NEW s \in Seq(Entry), NEW i \in 1 .. (Len(s) + 1), NEW e \in Entry,
           Inj(s), e.win \notin Wins(s)
    PROVE  /\ Inserted(s, i, e) \in Seq(Entry)
           /\ Inj(Inserted(s, i, e))
           /\ Wins(Inserted(s, i, e)) = Wins(s) \cup {e.win}
<1> DEFINE t == Inserted(s, i, e)
<1>1. /\ Len(s) \in Nat /\ DOMAIN s = 1 .. Len(s)
      /\ \A j \in 1 .. Len(s) : s[j] \in Entry /\ s[j].win # e.win
  BY DEF Wins
<1>2. t \in Seq(Entry) /\ DOMAIN t = 1 .. (Len(s) + 1)
  BY <1>1 DEF Inserted
<1>3. \A j \in DOMAIN t : t[j] = IF j < i THEN s[j] ELSE IF j = i THEN e ELSE s[j - 1]
  BY <1>1 DEF Inserted
<1>4. Inj(t)
  BY <1>1, <1>2, <1>3 DEF Inj
<1>5. Wins(t) \subseteq Wins(s) \cup {e.win}
  BY <1>1, <1>2, <1>3 DEF Wins
<1>6. ASSUME NEW k \in DOMAIN s PROVE s[k].win \in Wins(t)
  <2>1. CASE k < i
    <3>1. k \in DOMAIN t /\ t[k] = s[k]
      BY <2>1, <1>1, <1>2, <1>3
    <3> QED BY <3>1 DEF Wins
  <2>2. CASE k >= i
    <3>1. k + 1 \in DOMAIN t /\ t[k + 1] = s[k]
      BY <2>2, <1>1, <1>2, <1>3
    <3> QED BY <3>1 DEF Wins
  <2> QED BY <1>1, <2>1, <2>2
<1>7. e.win \in Wins(t)
  <2>1. i \in DOMAIN t /\ t[i] = e
    BY <1>1, <1>2, <1>3
  <2> QED BY <2>1 DEF Wins
<1>8. Wins(s) \cup {e.win} \subseteq Wins(t)
  BY <1>6, <1>7 DEF Wins
<1> QED
  BY <1>2, <1>4, <1>5, <1>8

LEMMA ReplacedEntry ==
    ASSUME NEW s \in Seq(Entry), NEW i \in DOMAIN s, NEW e \in Entry,
           Inj(s), e.win \notin Wins(s)
    PROVE  LET t == [s EXCEPT ![i] = e]
           IN  /\ t \in Seq(Entry)
               /\ Inj(t)
               /\ Wins(t) = (Wins(s) \ {s[i].win}) \cup {e.win}
<1> DEFINE t == [s EXCEPT ![i] = e]
<1>1. /\ Len(s) \in Nat /\ DOMAIN s = 1 .. Len(s) /\ i \in 1 .. Len(s)
      /\ \A j \in 1 .. Len(s) : s[j] \in Entry /\ s[j].win # e.win
  BY DEF Wins
<1>2. /\ t \in Seq(Entry) /\ DOMAIN t = DOMAIN s
      /\ \A j \in DOMAIN t : t[j] = IF j = i THEN e ELSE s[j]
  OBVIOUS
<1>3. Inj(t)
  BY <1>1, <1>2 DEF Inj
<1>4. Wins(t) = (Wins(s) \ {s[i].win}) \cup {e.win}
  BY <1>1, <1>2 DEF Inj, Wins
<1> QED
  BY <1>2, <1>3, <1>4

\* Retagging a sequence of entries keeps its windows where they are.
LEMMA RetaggedEntries ==
    ASSUME NEW s \in Seq(Entry), NEW t, Inj(s),
           DOMAIN t = DOMAIN s, t = [i \in DOMAIN t |-> t[i]],
           \A i \in DOMAIN s : t[i] \in Entry /\ t[i].win = s[i].win
    PROVE  t \in Seq(Entry) /\ Inj(t) /\ Wins(t) = Wins(s)
<1>1. t \in Seq(Entry)
  <2>1. Len(s) \in Nat /\ DOMAIN s = 1 .. Len(s)
    OBVIOUS
  <2> QED BY <2>1
<1>2. Inj(t)
  BY DEF Inj
<1>3. Wins(t) = Wins(s)
  BY DEF Wins
<1> QED
  BY <1>1, <1>2, <1>3

\* Only the place of a retagged record changes.
LEMMA RetaggedEntry ==
    ASSUME NEW e \in Entry, NEW o \in Output
    PROVE  /\ [e EXCEPT !.output = o] \in Entry
           /\ [e EXCEPT !.output = o].win = e.win
           /\ \A u \in Workspace : /\ [e EXCEPT !.output = o, !.ws = u] \in Entry
                                   /\ [e EXCEPT !.output = o, !.ws = u].win = e.win
BY DEF Entry

LEMMA RetaggedView ==
    ASSUME NEW v \in View, NEW o \in Output
    PROVE  /\ [v EXCEPT !.output = o] \in View
           /\ \A u \in Workspace : [v EXCEPT !.output = o, !.ws = u] \in View
BY DEF View

-----------------------------------------------------------------------------
(* Decks *)

LEMMA CountType ==
    ASSUME NEW s \in Seq(Entry), NEW o, NEW w
    PROVE  /\ Count(s, o, w) \in Nat
           /\ SlotsOf(s, o, w) \subseteq DOMAIN s
           /\ Count(s, o, w) = 0 <=> SlotsOf(s, o, w) = {}
<1>1. Len(s) \in Nat /\ DOMAIN s = 1 .. Len(s)
  OBVIOUS
<1>2. SlotsOf(s, o, w) \subseteq 1 .. Len(s)
  BY <1>1 DEF SlotsOf
<1>3. IsFiniteSet(SlotsOf(s, o, w))
  <2>1. IsFiniteSet(1 .. Len(s))
    BY <1>1, FS_Interval
  <2> QED
    BY <1>2, <2>1, FS_Subset
<1> QED
  BY <1>1, <1>2, <1>3, FS_CardinalityType, FS_EmptySet DEF Count

\* A window has at most one slot, and an open view points at an entry.
GoodDeck(d) ==
    /\ d \in Deck
    /\ Inj(d.entries)
    /\ d.view # NoView => d.view.selected < Count(d.entries, d.view.output, d.view.ws)

LEMMA ClampViewGood ==
    ASSUME NEW d \in Deck, Inj(d.entries)
    PROVE  GoodDeck(ClampView(d)) /\ ClampView(d).entries = d.entries
<1>1. CASE d.view = NoView
  BY <1>1 DEF ClampView, GoodDeck
<1>2. CASE d.view # NoView
  <2> DEFINE n == Count(d.entries, d.view.output, d.view.ws)
  <2>1. d.entries \in Seq(Entry) /\ d.view \in View
    BY <1>2 DEF Deck
  <2>2. n \in Nat /\ d.view.selected \in Nat
    BY <2>1, CountType DEF View
  <2>3. CASE n = 0
    BY <1>2, <2>1, <2>3 DEF ClampView, GoodDeck, Deck
  <2>4. CASE n # 0 /\ d.view.selected >= n
    <3>1. ClampView(d) = [d EXCEPT !.view.selected = n - 1]
      BY <1>2, <2>4 DEF ClampView
    <3>2. ClampView(d) = [entries |-> d.entries,
                          view |-> [output |-> d.view.output, ws |-> d.view.ws,
                                    selected |-> n - 1]]
      BY <3>1, <2>1 DEF Deck, View
    <3>3. ClampView(d) \in Deck
      BY <3>2, <2>1, <2>2, <2>4 DEF Deck, View
    <3> QED
      BY <3>2, <3>3, <2>2, <2>4 DEF GoodDeck
  <2>5. CASE n # 0 /\ ~(d.view.selected >= n)
    BY <1>2, <2>2, <2>5 DEF ClampView, GoodDeck
  <2> QED
    BY <2>3, <2>4, <2>5
<1> QED
  BY <1>1, <1>2

LEMMA CloseGood ==
    ASSUME NEW d, d \in Deck, Inj(d.entries)
    PROVE  GoodDeck(Close(d)) /\ Close(d).entries = d.entries
BY DEF GoodDeck, Close, Deck

LEMMA RemoveGood ==
    ASSUME NEW d, GoodDeck(d), NEW w
    PROVE  GoodDeck(Remove(d, w)) /\ Wins(Remove(d, w).entries) = Wins(d.entries) \ {w}
<1>1. CASE \E i \in DOMAIN d.entries : d.entries[i].win = w
  <2> DEFINE i == CHOOSE i \in DOMAIN d.entries :
                    /\ d.entries[i].win = w
                    /\ \A j \in DOMAIN d.entries : d.entries[j].win = w => i <= j
             r == [d EXCEPT !.entries = Without(d.entries, i)]
  <2>1. d.entries \in Seq(Entry) /\ DOMAIN d.entries \subseteq Int
    BY DEF GoodDeck, Deck
  <2>2. i \in DOMAIN d.entries /\ d.entries[i].win = w
    <3>1. PICK k \in DOMAIN d.entries : d.entries[k].win = w
      BY <1>1
    <3>2. \A j \in DOMAIN d.entries : d.entries[j].win = w => k <= j
      BY <3>1, <2>1 DEF GoodDeck, Inj
    <3> QED
      BY <3>1, <3>2
  <2>3. Remove(d, w) = ClampView(r)
    BY <1>1 DEF Remove
  <2> HIDE DEF i
  <2>4. /\ Without(d.entries, i) \in Seq(Entry)
        /\ Inj(Without(d.entries, i))
        /\ Wins(Without(d.entries, i)) = Wins(d.entries) \ {w}
    BY <2>1, <2>2, WithoutEntry DEF GoodDeck
  <2>5. r \in Deck /\ r.entries = Without(d.entries, i)
    BY <2>4 DEF GoodDeck, Deck
  <2> HIDE DEF r
  <2> QED
    BY <2>3, <2>4, <2>5, ClampViewGood
<1>2. CASE ~ \E i \in DOMAIN d.entries : d.entries[i].win = w
  BY <1>2 DEF Remove, Wins
<1> QED
  BY <1>1, <1>2

LEMMA ParkGood ==
    ASSUME NEW d, GoodDeck(d), NEW e \in Entry
    PROVE  /\ Park(d, e) \in Deck
           /\ Inj(Park(d, e).entries)
           /\ Wins(Park(d, e).entries) = Wins(d.entries) \cup {e.win}
<1> DEFINE r == Remove(d, e.win)
<1>1. GoodDeck(r) /\ Wins(r.entries) = Wins(d.entries) \ {e.win}
  BY RemoveGood
<1>2. r \in Deck /\ r.entries \in Seq(Entry) /\ 1 \in 1 .. (Len(r.entries) + 1)
      /\ Inj(r.entries) /\ e.win \notin Wins(r.entries)
  BY <1>1 DEF GoodDeck, Deck
<1>3. Park(d, e) = [r EXCEPT !.entries = Inserted(r.entries, 1, e)]
  BY DEF Park
<1> HIDE DEF r
<1>4. /\ Inserted(r.entries, 1, e) \in Seq(Entry)
      /\ Inj(Inserted(r.entries, 1, e))
      /\ Wins(Inserted(r.entries, 1, e)) = Wins(r.entries) \cup {e.win}
  BY <1>2, InsertedEntry
<1> QED
  BY <1>1, <1>2, <1>3, <1>4 DEF Deck

LEMMA AdoptOutputsGood ==
    ASSUME NEW d, GoodDeck(d), NEW from, NEW to \in Output
    PROVE  GoodDeck(AdoptOutputs(d, from, to))
           /\ Wins(AdoptOutputs(d, from, to).entries) = Wins(d.entries)
<1> DEFINE t == [i \in DOMAIN d.entries |-> IF d.entries[i].output \in from
                                           THEN [d.entries[i] EXCEPT !.output = to]
                                           ELSE d.entries[i]]
           v == IF d.view # NoView /\ d.view.output \in from
                THEN [d.view EXCEPT !.output = to]
                ELSE d.view
           r == [entries |-> t, view |-> v]
<1>0. \A i \in DOMAIN d.entries : d.entries[i] \in Entry
  BY DEF GoodDeck, Deck
<1>1. d.entries \in Seq(Entry) /\ Inj(d.entries)
  BY DEF GoodDeck, Deck
<1>2. \A i \in DOMAIN d.entries : t[i] \in Entry /\ t[i].win = d.entries[i].win
  BY <1>1, <1>0, RetaggedEntry
<1>3. t \in Seq(Entry) /\ Inj(t) /\ Wins(t) = Wins(d.entries)
  <2>1. DOMAIN t = DOMAIN d.entries /\ t = [i \in DOMAIN t |-> t[i]]
    OBVIOUS
  <2> HIDE DEF t
  <2> QED BY <1>1, <1>2, <2>1, RetaggedEntries
<1>4. v \in View \cup {NoView}
  BY <1>0, RetaggedView DEF GoodDeck, Deck
<1>5. AdoptOutputs(d, from, to) = ClampView(r)
  BY DEF AdoptOutputs
<1> HIDE DEF t, v
<1>6. r \in Deck /\ r.entries = t
  BY <1>3, <1>4 DEF Deck
<1> HIDE DEF r
<1> QED
  BY <1>3, <1>5, <1>6, ClampViewGood

LEMMA MoveWorkspaceGood ==
    ASSUME NEW d, GoodDeck(d), NEW from, NEW s, NEW to \in Output, NEW u \in Workspace
    PROVE  /\ MoveWorkspace(d, from, s, to, u) \in Deck
           /\ Inj(MoveWorkspace(d, from, s, to, u).entries)
           /\ Wins(MoveWorkspace(d, from, s, to, u).entries) = Wins(d.entries)
<1> DEFINE t == [i \in DOMAIN d.entries |->
                   IF At(d.entries[i], from, s)
                   THEN [d.entries[i] EXCEPT !.output = to, !.ws = u]
                   ELSE d.entries[i]]
           v == IF d.view # NoView /\ d.view.output = from /\ d.view.ws = s
                THEN [d.view EXCEPT !.output = to, !.ws = u]
                ELSE d.view
<1>0. \A i \in DOMAIN d.entries : d.entries[i] \in Entry
  BY DEF GoodDeck, Deck
<1>1. d.entries \in Seq(Entry) /\ Inj(d.entries)
  BY DEF GoodDeck, Deck
<1>2. \A i \in DOMAIN d.entries : t[i] \in Entry /\ t[i].win = d.entries[i].win
  BY <1>1, <1>0, RetaggedEntry
<1>3. t \in Seq(Entry) /\ Inj(t) /\ Wins(t) = Wins(d.entries)
  <2>1. DOMAIN t = DOMAIN d.entries /\ t = [i \in DOMAIN t |-> t[i]]
    OBVIOUS
  <2> HIDE DEF t
  <2> QED BY <1>1, <1>2, <2>1, RetaggedEntries
<1>4. v \in View \cup {NoView}
  BY <1>0, RetaggedView DEF GoodDeck, Deck
<1>5. MoveWorkspace(d, from, s, to, u) = [entries |-> t, view |-> v]
  BY DEF MoveWorkspace
<1> HIDE DEF t, v
<1> QED
  BY <1>3, <1>4, <1>5 DEF Deck

LEMMA SelectedSlotIsSlot ==
    ASSUME NEW d, GoodDeck(d), d.view # NoView, SelectedEntry(d) # NoEntry
    PROVE  /\ SelectedSlot(d) \in DOMAIN d.entries
           /\ SelectedSlot(d) # 0
           /\ SelectedEntry(d) = d.entries[SelectedSlot(d)]
           /\ SelectedEntry(d) \in Entry
           /\ SelectedEntry(d).win \in Wins(d.entries)
<1> DEFINE slots == SlotsOf(d.entries, d.view.output, d.view.ws)
           hit == {i \in slots : Cardinality({j \in slots : j < i}) = d.view.selected}
<1>1. SelectedSlot(d) # 0 /\ SelectedEntry(d) = d.entries[SelectedSlot(d)]
  BY DEF SelectedEntry
<1>2. hit # {} /\ SelectedSlot(d) = CHOOSE i \in hit : TRUE
  BY <1>1 DEF SelectedSlot
<1>3. SelectedSlot(d) \in slots
  BY <1>2
<1>4. SelectedSlot(d) \in DOMAIN d.entries
  BY <1>3 DEF SlotsOf
<1> QED
  BY <1>1, <1>4 DEF GoodDeck, Deck, Wins

LEMMA SwapSelectedGood ==
    ASSUME NEW d, GoodDeck(d), d.view # NoView, SelectedEntry(d) # NoEntry,
           NEW e \in Entry, e.win \notin Wins(d.entries)
    PROVE  LET r == SwapSelected(d, e)
           IN  /\ r \in Deck
               /\ Inj(r.entries)
               /\ Wins(r.entries) = (Wins(d.entries) \ {SelectedEntry(d).win}) \cup {e.win}
<1> DEFINE i == SelectedSlot(d)
           t == [d.entries EXCEPT ![i] = e]
<1>1. /\ i \in DOMAIN d.entries /\ i # 0 /\ SelectedEntry(d) = d.entries[i]
      /\ d.entries \in Seq(Entry) /\ Inj(d.entries) /\ d \in Deck
  BY SelectedSlotIsSlot DEF GoodDeck, Deck
<1>2. SwapSelected(d, e) = [d EXCEPT !.entries = t]
  BY <1>1 DEF SwapSelected, Deck
<1> HIDE DEF i
<1>3. /\ t \in Seq(Entry) /\ Inj(t)
      /\ Wins(t) = (Wins(d.entries) \ {d.entries[i].win}) \cup {e.win}
  BY <1>1, ReplacedEntry
<1> HIDE DEF t
<1> QED
  BY <1>1, <1>2, <1>3 DEF Deck

LEMMA TakeSelectedGood ==
    ASSUME NEW d, GoodDeck(d), d.view # NoView, SelectedEntry(d) # NoEntry
    PROVE  /\ GoodDeck(TakeSelected(d))
           /\ Wins(TakeSelected(d).entries) = Wins(d.entries) \ {SelectedEntry(d).win}
<1> DEFINE i == SelectedSlot(d)
           r == [d EXCEPT !.entries = Without(d.entries, i)]
<1>1. /\ i \in DOMAIN d.entries /\ i # 0 /\ SelectedEntry(d) = d.entries[i]
      /\ d.entries \in Seq(Entry) /\ Inj(d.entries) /\ d \in Deck
  BY SelectedSlotIsSlot DEF GoodDeck, Deck
<1>2. TakeSelected(d) = ClampView(r)
  BY <1>1 DEF TakeSelected
<1> HIDE DEF i
<1>3. /\ Without(d.entries, i) \in Seq(Entry) /\ Inj(Without(d.entries, i))
      /\ Wins(Without(d.entries, i)) = Wins(d.entries) \ {d.entries[i].win}
  BY <1>1, WithoutEntry
<1>4. r \in Deck /\ r.entries = Without(d.entries, i)
  BY <1>1, <1>3 DEF Deck
<1> HIDE DEF r
<1> QED
  BY <1>1, <1>2, <1>3, <1>4, ClampViewGood

LEMMA FirstLast ==
    ASSUME NEW n \in Nat, NEW S \in SUBSET (1 .. n), S # {}
    PROVE  FirstOf(S) \in S /\ LastOf(S) \in S
<1>1. \E i \in S : \A j \in S : i <= j
  BY S \in SUBSET Nat, NatMin
<1>2. \E i \in S : \A j \in S : j <= i
  <2> DEFINE T == {n - i : i \in S}
  <2>1. T \in SUBSET Nat /\ T # {}
    <3>1. \A i \in S : n - i \in Nat
      OBVIOUS
    <3>2. PICK i \in S : TRUE
      OBVIOUS
    <3> QED BY <3>1, <3>2
  <2>2. PICK k \in T : \A j \in T : k <= j
    BY <2>1, NatMin
  <2>3. PICK i \in S : k = n - i
    BY <2>2
  <2>4. \A j \in S : j <= i
    BY <2>2, <2>3
  <2> QED BY <2>4
<1> QED
  BY <1>1, <1>2 DEF FirstOf, LastOf

LEMMA RotateGood ==
    ASSUME NEW d, GoodDeck(d), NEW o, NEW s, Count(d.entries, o, s) # 0,
           NEW e \in Entry, e.win \notin Wins(d.entries), NEW down
    PROVE  /\ RotateChosen(d, o, s, down) \in DOMAIN d.entries
           /\ d.entries[RotateChosen(d, o, s, down)].win \in Wins(d.entries)
           /\ d.entries[RotateChosen(d, o, s, down)].win \in Window
           /\ GoodDeck(Rotate(d, o, s, e, down))
           /\ Wins(Rotate(d, o, s, e, down).entries) =
                (Wins(d.entries) \ {d.entries[RotateChosen(d, o, s, down)].win}) \cup {e.win}
<1> DEFINE c == RotateChosen(d, o, s, down)
           rest == Without(d.entries, c)
           left == SlotsOf(rest, o, s)
           at == IF down
                 THEN IF left = {} THEN Len(rest) + 1 ELSE LastOf(left) + 1
                 ELSE IF left = {} THEN 1 ELSE FirstOf(left)
           t == Inserted(rest, at, e)
<1>1. d \in Deck /\ d.entries \in Seq(Entry) /\ Inj(d.entries)
  BY DEF GoodDeck, Deck
<1>2. c \in DOMAIN d.entries
  <2>1. /\ SlotsOf(d.entries, o, s) # {}
        /\ SlotsOf(d.entries, o, s) \in SUBSET (1 .. Len(d.entries))
        /\ Len(d.entries) \in Nat
    BY <1>1, CountType
  <2>2. c \in SlotsOf(d.entries, o, s)
    BY <2>1, FirstLast DEF RotateChosen
  <2> QED BY <2>2 DEF SlotsOf
<1> HIDE DEF c
<1>3. /\ rest \in Seq(Entry) /\ Inj(rest)
      /\ Wins(rest) = Wins(d.entries) \ {d.entries[c].win}
  BY <1>1, <1>2, WithoutEntry
<1>4. Rotate(d, o, s, e, down) = ClampView([d EXCEPT !.entries = t])
  BY DEF Rotate, c
<1> HIDE DEF rest
<1>5. Len(rest) \in Nat /\ left \in SUBSET (1 .. Len(rest))
  BY <1>3, CountType
<1>6. at \in 1 .. (Len(rest) + 1)
  <2>1. CASE left = {}
    BY <1>5, <2>1
  <2>2. CASE left # {}
    <3>1. FirstOf(left) \in 1 .. Len(rest) /\ LastOf(left) \in 1 .. Len(rest)
      BY <1>5, <2>2, FirstLast
    <3> QED BY <1>5, <2>2, <3>1
  <2> QED BY <2>1, <2>2
<1> HIDE DEF at
<1>7. t \in Seq(Entry) /\ Inj(t) /\ Wins(t) = Wins(rest) \cup {e.win}
  BY <1>3, <1>6, InsertedEntry
<1> HIDE DEF t
<1>8. [d EXCEPT !.entries = t] \in Deck /\ [d EXCEPT !.entries = t].entries = t
  BY <1>1, <1>7 DEF Deck
<1>9. d.entries[c].win \in Wins(d.entries) /\ d.entries[c].win \in Window
  <2>1. d.entries[c] \in Entry
    BY <1>1, <1>2
  <2> QED BY <1>2, <2>1 DEF Wins, Entry
<1> QED
  BY <1>2, <1>3, <1>4, <1>7, <1>8, <1>9, ClampViewGood DEF c

-----------------------------------------------------------------------------
(* The inductive invariant *)

TilesType == tiles \in [Output -> [Workspace -> SUBSET Window]]

\* No window is a tile of two workspaces, and none is both tile and parked.
Apart(t, parked) ==
    /\ \A o, p \in Output, s, u \in Workspace, w \in Window :
         w \in t[o][s] /\ w \in t[p][u] => o = p /\ s = u
    /\ \A o \in Output, s \in Workspace, w \in Window : w \in t[o][s] => w \notin parked

\* t2 is t with one tile less, or one more, in workspace (o, s).
OneLess(t, t2, o, s, w) ==
    \A p \in Output, u \in Workspace :
      t2[p][u] = IF p = o /\ u = s THEN t[p][u] \ {w} ELSE t[p][u]
OneMore(t, t2, o, s, w) ==
    \A p \in Output, u \in Workspace :
      t2[p][u] = IF p = o /\ u = s THEN t[p][u] \cup {w} ELSE t[p][u]

Swapped(t, t2, o, s, w, up) ==
    \A p \in Output, u \in Workspace :
      t2[p][u] = IF p = o /\ u = s THEN (t[p][u] \ {w}) \cup {up} ELSE t[p][u]

\* Parking one tile, bringing one parked window up, and both at once.
LEMMA ApartSink ==
    ASSUME NEW t, NEW t2, NEW P, Apart(t, P), NEW w,
           NEW o \in Output, NEW s \in Workspace, w \in t[o][s], OneLess(t, t2, o, s, w)
    PROVE  Apart(t2, P \cup {w})
<1>0. \A p \in Output, u \in Workspace :
        t2[p][u] = IF p = o /\ u = s THEN t[p][u] \ {w} ELSE t[p][u]
  BY DEF OneLess
<1>1. \A p \in Output, u \in Workspace : t2[p][u] \subseteq t[p][u]
  BY <1>0
<1>2. ASSUME NEW p \in Output, NEW u \in Workspace, NEW x \in Window, x \in t2[p][u]
      PROVE  x \notin P \cup {w}
  <2>1. x \in t[p][u]
    BY <1>1, <1>2
  <2>2. x \notin P
    BY <2>1 DEF Apart
  <2>3. CASE x = w
    <3>1. p = o /\ u = s
      BY <2>1, <2>3 DEF Apart
    <3> QED BY <1>0, <1>2, <2>3, <3>1
  <2> QED BY <2>2, <2>3
<1> QED
  BY <1>1, <1>2 DEF Apart

LEMMA ApartRecall ==
    ASSUME NEW t, NEW t2, NEW P, Apart(t, P), NEW w, w \in P,
           NEW o \in Output, NEW s \in Workspace, OneMore(t, t2, o, s, w)
    PROVE  Apart(t2, P \ {w})
<1>1. ASSUME NEW p \in Output, NEW u \in Workspace, NEW x \in Window, x \in t2[p][u]
      PROVE  x \in t[p][u] \/ (x = w /\ p = o /\ u = s)
  BY <1>1 DEF OneMore
<1>2. ASSUME NEW p \in Output, NEW u \in Workspace, NEW x \in Window, x \in t2[p][u]
      PROVE  x \notin P \ {w}
  BY <1>1, <1>2 DEF Apart
<1>3. ASSUME NEW p \in Output, NEW u \in Workspace, NEW q \in Output, NEW v \in Workspace,
             NEW x \in Window, x \in t2[p][u], x \in t2[q][v]
      PROVE  p = q /\ u = v
  <2>1. CASE x = w
    <3>1. \A r \in Output, y \in Workspace : x \notin t[r][y]
      BY <2>1 DEF Apart
    <3> QED BY <1>1, <1>3, <3>1
  <2>2. CASE x # w
    BY <1>1, <1>3, <2>2 DEF Apart
  <2> QED BY <2>1, <2>2
<1> QED
  BY <1>2, <1>3 DEF Apart

LEMMA ApartSwap ==
    ASSUME NEW t, NEW t2, NEW P, Apart(t, P), NEW w \in Window, NEW up \in P,
           NEW o \in Output, NEW s \in Workspace, w \in t[o][s],
           Swapped(t, t2, o, s, w, up)
    PROVE  Apart(t2, (P \ {up}) \cup {w})
<1> DEFINE t1 == [p \in Output |-> [u \in Workspace |->
                    IF p = o /\ u = s THEN t[p][u] \ {w} ELSE t[p][u]]]
<1>1. OneLess(t, t1, o, s, w)
  BY DEF OneLess
<1>2. OneMore(t1, t2, o, s, up)
  BY DEF OneMore, Swapped
<1> HIDE DEF t1
<1>3. Apart(t2, (P \cup {w}) \ {up})
  <2>1. Apart(t1, P \cup {w})
    BY <1>1, ApartSink
  <2> QED BY <1>2, <2>1, ApartRecall
<1>4. w # up
  BY DEF Apart
<1>5. (P \cup {w}) \ {up} = (P \ {up}) \cup {w}
  BY <1>4
<1> QED
  BY <1>3, <1>5

\* Anything that only takes windows away, or hands whole workspaces over.
LEMMA ApartFewer ==
    ASSUME NEW t, NEW t2, NEW P, NEW P2, Apart(t, P), P2 \subseteq P,
           \A p \in Output, u \in Workspace : t2[p][u] \subseteq t[p][u]
    PROVE  Apart(t2, P2)
BY DEF Apart

LEMMA ApartAdd ==
    ASSUME NEW t, NEW t2, NEW P, Apart(t, P), NEW w, w \notin P,
           NEW o \in Output, NEW s \in Workspace, OneMore(t, t2, o, s, w),
           \A p \in Output, u \in Workspace : w \notin t[p][u]
    PROVE  Apart(t2, P)
<1>1. Apart(t, P \cup {w})
  BY DEF Apart
<1>2. Apart(t2, (P \cup {w}) \ {w})
  BY <1>1, ApartRecall
<1>3. (P \cup {w}) \ {w} = P
  OBVIOUS
<1> QED
  BY <1>2, <1>3

\* The windows the layout shows, and the same windows before and after.
Shown(t) == {w \in Window : \E o \in Output, s \in Workspace : w \in t[o][s]}
Same(t, P, t2, P2) == Shown(t2) \cup P2 = Shown(t) \cup P
WindowsStay == Same(tiles, Wins(deck.entries), tiles', Wins(deck'.entries))

\* What a step parks is the focused window, an ordinary tile of a deck that is on.
Purposely ==
    \A w \in Wins(deck'.entries) \ Wins(deck.entries) :
        enabled /\ w = focus /\ Tiled(w) /\ w \notin exempt

LEMMA SameSwap ==
    ASSUME NEW t, NEW t2, NEW P, NEW P2, NEW w \in Window, NEW up \in Window,
           NEW o \in Output, NEW s \in Workspace, w \in t[o][s], up \in P,
           Swapped(t, t2, o, s, w, up), P2 = (P \ {up}) \cup {w}
    PROVE  Same(t, P, t2, P2)
<1>1. \A p \in Output, u \in Workspace :
        t2[p][u] = IF p = o /\ u = s THEN (t[p][u] \ {w}) \cup {up} ELSE t[p][u]
  BY DEF Swapped
<1>2. ASSUME NEW x \in Shown(t), x # w PROVE x \in Shown(t2)
  <2>1. PICK p \in Output, u \in Workspace : x \in t[p][u]
    BY DEF Shown
  <2>2. x \in t2[p][u]
    BY <1>1, <1>2, <2>1
  <2> QED BY <2>2 DEF Shown
<1>3. ASSUME NEW x \in Shown(t2), x # up PROVE x \in Shown(t)
  <2>1. PICK p \in Output, u \in Workspace : x \in t2[p][u]
    BY DEF Shown
  <2>2. x \in t[p][u]
    BY <1>1, <1>3, <2>1
  <2> QED BY <2>2 DEF Shown
<1>4. w \in Shown(t) /\ up \in Shown(t2)
  <2>1. up \in t2[o][s]
    BY <1>1
  <2> QED BY <2>1 DEF Shown
<1> QED
  BY <1>2, <1>3, <1>4 DEF Same

LEMMA SameSink ==
    ASSUME NEW t, NEW t2, NEW P, NEW P2, NEW w \in Window,
           NEW o \in Output, NEW s \in Workspace, w \in t[o][s],
           OneLess(t, t2, o, s, w), P2 = P \cup {w}
    PROVE  Same(t, P, t2, P2)
<1>1. \A p \in Output, u \in Workspace :
        t2[p][u] = IF p = o /\ u = s THEN t[p][u] \ {w} ELSE t[p][u]
  BY DEF OneLess
<1>2. ASSUME NEW x \in Shown(t), x # w PROVE x \in Shown(t2)
  <2>1. PICK p \in Output, u \in Workspace : x \in t[p][u]
    BY DEF Shown
  <2>2. x \in t2[p][u]
    BY <1>1, <1>2, <2>1
  <2> QED BY <2>2 DEF Shown
<1>3. Shown(t2) \subseteq Shown(t) /\ w \in Shown(t)
  BY <1>1 DEF Shown
<1> QED
  BY <1>2, <1>3 DEF Same

LEMMA SameRecall ==
    ASSUME NEW t, NEW t2, NEW P, NEW P2, NEW w \in Window,
           NEW o \in Output, NEW s \in Workspace, w \in P \cup t[o][s],
           OneMore(t, t2, o, s, w), P2 = P \ {w}
    PROVE  Same(t, P, t2, P2)
<1>1. \A p \in Output, u \in Workspace :
        t2[p][u] = IF p = o /\ u = s THEN t[p][u] \cup {w} ELSE t[p][u]
  BY DEF OneMore
<1>2. Shown(t) \subseteq Shown(t2)
  BY <1>1 DEF Shown
<1>3. ASSUME NEW x \in Shown(t2), x # w PROVE x \in Shown(t)
  <2>1. PICK p \in Output, u \in Workspace : x \in t2[p][u]
    BY DEF Shown
  <2>2. x \in t[p][u]
    BY <1>1, <1>3, <2>1
  <2> QED BY <2>2 DEF Shown
<1>4. w \in Shown(t2) /\ w \in Shown(t) \cup P
  <2>1. w \in t2[o][s]
    BY <1>1
  <2> QED BY <2>1 DEF Shown
<1> QED
  BY <1>2, <1>3, <1>4 DEF Same

IInv ==
    /\ enabled \in BOOLEAN
    /\ GoodDeck(deck)
    /\ TilesType
    /\ active \in [Output -> Workspace]
    /\ live \in SUBSET Output
    /\ exempt \in SUBSET Window
    /\ focus \in Window \cup {NoWindow}
    /\ Apart(tiles, Wins(deck.entries))
    /\ ~enabled => deck = EmptyDeck

LEMMA EmptyDeckGood == GoodDeck(EmptyDeck) /\ Wins(EmptyDeck.entries) = {}
BY DEF GoodDeck, EmptyDeck, Deck, Inj, Wins

LEMMA InitIInv == Init => IInv
<1> SUFFICES ASSUME Init PROVE IInv
  OBVIOUS
<1>1. GoodDeck(deck) /\ Wins(deck.entries) = {}
  BY EmptyDeckGood DEF Init
<1>2. TilesType /\ \A o \in Output, s \in Workspace : tiles[o][s] = {}
  BY DEF Init, TilesType
<1>3. Apart(tiles, Wins(deck.entries))
  BY <1>2 DEF Apart
<1> QED
  BY <1>1, <1>2, <1>3 DEF Init, IInv

\* Facts every step starts from.
LEMMA Typed ==
    ASSUME IInv
    PROVE  /\ deck \in Deck /\ deck.entries \in Seq(Entry) /\ Inj(deck.entries)
           /\ Parked(deck) = Wins(deck.entries)
           /\ Wins(deck.entries) \subseteq Window
           /\ \A w \in Window : Tiled(w) =>
                /\ TileSlot(w) \in Output \X Workspace
                /\ w \in tiles[TileSlot(w)[1]][TileSlot(w)[2]]
                /\ w \notin Wins(deck.entries)
<1>1. deck \in Deck /\ deck.entries \in Seq(Entry) /\ Inj(deck.entries)
  BY DEF IInv, GoodDeck, Deck
<1>2. Parked(deck) = Wins(deck.entries)
  BY DEF Parked, Wins
<1>3. Wins(deck.entries) \subseteq Window
  <2>1. \A i \in DOMAIN deck.entries : deck.entries[i] \in Entry
    BY <1>1
  <2> QED BY <2>1 DEF Wins, Entry
<1>4. ASSUME NEW w \in Window, Tiled(w)
      PROVE  /\ TileSlot(w) \in Output \X Workspace
             /\ w \in tiles[TileSlot(w)[1]][TileSlot(w)[2]]
  <2>1. \E p \in Output \X Workspace : TiledAt(w, p[1], p[2])
    <3>1. PICK o \in Output, s \in Workspace : TiledAt(w, o, s)
      BY <1>4 DEF Tiled
    <3>2. <<o, s>> \in Output \X Workspace /\ TiledAt(w, <<o, s>>[1], <<o, s>>[2])
      BY <3>1
    <3> QED BY <3>2
  <2> QED BY <2>1 DEF TileSlot, TiledAt
<1>5. \A w \in Window : Tiled(w) => w \notin Wins(deck.entries)
  BY DEF IInv, Apart, Tiled, TiledAt
<1> QED
  BY <1>1, <1>2, <1>3, <1>4, <1>5

LEMMA RefocusType ==
    ASSUME NEW t \in [Output -> [Workspace -> SUBSET Window]],
           NEW a \in [Output -> Workspace], NEW o \in Output
    PROVE  Refocus(t, a, o) \subseteq Window \cup {NoWindow}
BY DEF Refocus, Visible

\* Closing the picker leaves a good deck behind whatever the change before it.
LEMMA ClosedGood ==
    ASSUME NEW d, d \in Deck, Inj(d.entries), Closed(d)
    PROVE  GoodDeck(deck') /\ deck'.entries = d.entries
BY CloseGood DEF Closed

\* A demotion takes a window out of fullscreen and puts none in.
LEMMA DemotedFewer == ASSUME NEW o \in Output PROVE Demoted(o) \subseteq SUBSET exempt
BY DEF Demoted

LEMMA SinkTileStep ==
    ASSUME IInv, enabled, NEW w \in Window, NEW o \in Output, NEW s \in Workspace,
           TiledAt(w, o, s), w = focus, w \notin exempt, SinkTile(w, o, s)
    PROVE  IInv' /\ WindowsStay /\ Purposely
<1> DEFINE e == [win |-> w, output |-> o, ws |-> s]
<1>1. e \in Entry
  BY DEF Entry
<1>2. /\ Park(deck, e) \in Deck /\ Inj(Park(deck, e).entries)
      /\ Wins(Park(deck, e).entries) = Wins(deck.entries) \cup {w}
  BY <1>1, ParkGood DEF IInv
<1>3. GoodDeck(deck') /\ Wins(deck'.entries) = Wins(deck.entries) \cup {w}
  BY <1>2, ClosedGood DEF SinkTile
<1>4. /\ tiles' = [tiles EXCEPT ![o][s] = @ \ {w}]
      /\ UNCHANGED <<enabled, active, live, exempt>>
      /\ focus' \in Refocus(tiles', active, o)
  BY DEF SinkTile
<1>5. TilesType' /\ \A p \in Output, u \in Workspace :
        tiles'[p][u] = IF p = o /\ u = s THEN tiles[p][u] \ {w} ELSE tiles[p][u]
  BY <1>4 DEF IInv, TilesType
<1>6. Apart(tiles', Wins(deck'.entries))
  <2>1. Apart(tiles, Wins(deck.entries)) /\ w \in tiles[o][s] /\ OneLess(tiles, tiles', o, s, w)
    BY <1>5 DEF IInv, TiledAt, OneLess
  <2> QED BY <1>3, <1>5, <2>1, ApartSink
<1>7. focus' \in Window \cup {NoWindow}
  BY <1>4, <1>5, RefocusType DEF IInv, TilesType
<1>9. WindowsStay
  <2>1. w \in tiles[o][s] /\ OneLess(tiles, tiles', o, s, w)
    BY <1>5 DEF TiledAt, OneLess
  <2> QED BY <1>3, <2>1, SameSink DEF WindowsStay
<1> QED
  BY <1>3, <1>4, <1>5, <1>6, <1>7, <1>9 DEF IInv, Purposely, Tiled

\* An empty deck stays empty whatever is done to it but parking.
LEMMA EmptyStays ==
    /\ Close(EmptyDeck) = EmptyDeck
    /\ \A w : Remove(EmptyDeck, w) = EmptyDeck
    /\ \A from, to : AdoptOutputs(EmptyDeck, from, to) = EmptyDeck
    /\ \A from, s, to, u : MoveWorkspace(EmptyDeck, from, s, to, u) = EmptyDeck
<1>1. Close(EmptyDeck) = EmptyDeck
  BY DEF Close, EmptyDeck
<1>2. \A w : Remove(EmptyDeck, w) = EmptyDeck
  BY DEF Remove, EmptyDeck
<1>3. \A from, to : AdoptOutputs(EmptyDeck, from, to) = EmptyDeck
  BY DEF AdoptOutputs, EmptyDeck, ClampView
<1>4. \A from, s, to, u : MoveWorkspace(EmptyDeck, from, s, to, u) = EmptyDeck
  BY DEF MoveWorkspace, EmptyDeck
<1> QED
  BY <1>1, <1>2, <1>3, <1>4

LEMMA SinkWindowStep == ASSUME IInv, SinkWindow PROVE IInv' /\ WindowsStay /\ Purposely
<1>1. focus \in Window /\ Tiled(focus) /\ focus \notin exempt /\ enabled
  BY NoWindowAssumption DEF IInv, SinkWindow, MaySink
<1> DEFINE p == TileSlot(focus)
<1>2. p[1] \in Output /\ p[2] \in Workspace /\ TiledAt(focus, p[1], p[2])
  BY <1>1, Typed DEF TiledAt
<1>3. SinkTile(focus, p[1], p[2])
  BY DEF SinkWindow
<1> HIDE DEF p
<1> QED
  BY <1>1, <1>2, <1>3, SinkTileStep

\* Steps that only touch the picker.
LEMMA PickerStep ==
    ASSUME IInv, GoodDeck(deck'), deck'.entries = deck.entries,
           enabled' = enabled, tiles' = tiles, active' = active, live' = live,
           exempt' = exempt, focus' = focus, ~enabled => deck' = EmptyDeck
    PROVE  IInv' /\ WindowsStay /\ Purposely
BY DEF IInv, WindowsStay, Same, TilesType, Purposely

LEMMA DiveStep == ASSUME IInv, Dive PROVE IInv' /\ WindowsStay /\ Purposely
<1>1. enabled /\ UNCHANGED <<enabled, tiles, active, live, exempt, focus>>
  BY DEF Dive
<1>2. CASE deck.view # NoView
  BY <1>1, <1>2, Typed, ClosedGood, PickerStep DEF Dive
<1>3. CASE deck.view = NoView
  <2>1. PICK o \in live : /\ Count(deck.entries, o, active[o]) # 0
                          /\ deck' = Open(deck, o, active[o])
    BY <1>3 DEF Dive
  <2>2. o \in Output /\ active[o] \in Workspace /\ deck.entries \in Seq(Entry)
    BY Typed DEF IInv
  <2>3. deck' = [deck EXCEPT !.view = [output |-> o, ws |-> active[o], selected |-> 0]]
    BY <2>1 DEF Open
  <2>4. Count(deck.entries, o, active[o]) > 0
    BY <2>1, <2>2, CountType
  <2>5. [output |-> o, ws |-> active[o], selected |-> 0] \in View
    BY <2>2 DEF View
  <2>6. deck' \in Deck /\ deck'.entries = deck.entries
        /\ deck'.view = [output |-> o, ws |-> active[o], selected |-> 0]
    BY <2>3, <2>5, Typed DEF Deck
  <2>7. GoodDeck(deck')
    BY <2>4, <2>6, Typed DEF GoodDeck
  <2> QED
    BY <1>1, <2>6, <2>7, PickerStep
<1> QED
  BY <1>2, <1>3

LEMMA CycleStep == ASSUME IInv, NEW delta \in {1, -1}, CycleDepthDeck(delta) PROVE IInv' /\ WindowsStay /\ Purposely
<1> DEFINE n == Count(deck.entries, deck.view.output, deck.view.ws)
<1>1. /\ enabled /\ deck.view # NoView /\ deck' = Cycle(deck, delta)
      /\ UNCHANGED <<enabled, tiles, active, live, exempt, focus>>
  BY DEF CycleDepthDeck
<1>2. deck.entries \in Seq(Entry) /\ deck \in Deck /\ deck.view \in View
      /\ Inj(deck.entries)
  BY <1>1, Typed DEF Deck
<1>3. n \in Nat /\ deck.view.selected \in Nat /\ deck.view.selected < n
  BY <1>1, <1>2, CountType DEF IInv, GoodDeck, View
<1>4. deck' = [deck EXCEPT !.view.selected = (deck.view.selected + delta) % n]
  BY <1>1, <1>3 DEF Cycle
<1> DEFINE k == (deck.view.selected + delta) % n
<1>5. k \in Nat /\ k < n
  <2>1. deck.view.selected + delta \in Int /\ n \in Nat \ {0}
    BY <1>3
  <2> QED BY <2>1
<1> HIDE DEF k
<1>6. /\ deck'.entries = deck.entries
      /\ deck'.view = [deck.view EXCEPT !.selected = k]
      /\ deck' \in [entries : Seq(Entry), view : View]
  BY <1>2, <1>4, <1>5 DEF Deck, View, k
<1>7. deck' \in Deck /\ deck'.view.selected = k /\ deck'.view.output = deck.view.output
      /\ deck'.view.ws = deck.view.ws
  BY <1>2, <1>6 DEF Deck, View
<1>8. GoodDeck(deck')
  BY <1>2, <1>5, <1>6, <1>7 DEF GoodDeck
<1> QED
  BY <1>1, <1>6, <1>8, PickerStep

LEMMA DepthCancelStep == ASSUME IInv, DepthCancel PROVE IInv' /\ WindowsStay /\ Purposely
<1>1. Closed(deck) /\ UNCHANGED <<enabled, tiles, active, live, exempt, focus>>
  BY DEF DepthCancel
<1>2. GoodDeck(deck') /\ deck'.entries = deck.entries
  BY <1>1, Typed, ClosedGood
<1>3. ~enabled => deck' = EmptyDeck
  BY <1>1, EmptyStays DEF IInv, Closed
<1> QED
  BY <1>1, <1>2, <1>3, PickerStep

\* A focused tile w and a parked window up change places.
LEMMA SwapStep ==
    ASSUME IInv, enabled, NEW w \in Window, NEW o \in Output, NEW s \in Workspace,
           TiledAt(w, o, s), w = focus, w \notin exempt, NEW up \in Wins(deck.entries),
           GoodDeck(deck'), Wins(deck'.entries) = (Wins(deck.entries) \ {up}) \cup {w},
           tiles' = [tiles EXCEPT ![o][s] = (@ \ {w}) \cup {up}], focus' = up,
           UNCHANGED <<enabled, active, live, exempt>>
    PROVE  IInv' /\ WindowsStay /\ Purposely
<1>1. up \in Window
  BY Typed
<1>2. TilesType' /\ Swapped(tiles, tiles', o, s, w, up)
  BY <1>1 DEF IInv, TilesType, Swapped
<1>3. Apart(tiles, Wins(deck.entries)) /\ w \in tiles[o][s]
  BY DEF IInv, TiledAt
<1>4. Apart(tiles', Wins(deck'.entries))
  BY <1>2, <1>3, ApartSwap
<1>6. WindowsStay
  BY <1>1, <1>2, <1>3, SameSwap DEF WindowsStay
<1> QED
  BY <1>1, <1>2, <1>4, <1>6 DEF IInv, Purposely, Tiled

LEMMA SwitchDepthStep == ASSUME IInv, NEW down \in BOOLEAN, SwitchDepth(down) PROVE IInv' /\ WindowsStay /\ Purposely
<1> DEFINE o == TileSlot(focus)[1]
           s == TileSlot(focus)[2]
<1>1. focus \in Window /\ Tiled(focus) /\ focus \notin exempt /\ enabled
  BY NoWindowAssumption DEF IInv, SwitchDepth, MaySink
<1>2. o \in Output /\ s \in Workspace /\ TiledAt(focus, o, s)
      /\ focus \notin Wins(deck.entries)
  BY <1>1, Typed DEF TiledAt
<1>3. CASE Count(deck.entries, o, s) = 0
  <2>1. SinkTile(focus, o, s)
    BY <1>3 DEF SwitchDepth
  <2> HIDE DEF o, s
  <2> QED
    BY <1>1, <1>2, <2>1, SinkTileStep
<1>4. CASE Count(deck.entries, o, s) # 0
  <2> DEFINE e == [win |-> focus, output |-> o, ws |-> s]
             up == deck.entries[RotateChosen(deck, o, s, down)].win
             r == Rotate(deck, o, s, e, down)
  <2>1. /\ Closed(r) /\ focus' = up
        /\ tiles' = [tiles EXCEPT ![o][s] = (@ \ {focus}) \cup {up}]
        /\ UNCHANGED <<enabled, active, live, exempt>>
    BY <1>4 DEF SwitchDepth
  <2> HIDE DEF o, s
  <2>2. e \in Entry /\ e.win = focus
    BY <1>1, <1>2 DEF Entry
  <2> HIDE DEF e
  <2>3. /\ up \in Wins(deck.entries) /\ GoodDeck(r)
        /\ Wins(r.entries) = (Wins(deck.entries) \ {up}) \cup {focus}
    <3>1. GoodDeck(deck) /\ Count(deck.entries, o, s) # 0 /\ e.win \notin Wins(deck.entries)
      BY <1>2, <1>4, <2>2 DEF IInv
    <3>2. /\ up \in Wins(deck.entries) /\ GoodDeck(r)
          /\ Wins(r.entries) = (Wins(deck.entries) \ {up}) \cup {e.win}
      <4>1. GoodDeck(Rotate(deck, o, s, e, down))
        BY <2>2, <3>1, RotateGood
      <4>2. up \in Wins(deck.entries)
        BY <2>2, <3>1, RotateGood
      <4> QED BY <4>1, <4>2, <2>2, <3>1, RotateGood
    <3> QED BY <2>2, <3>2
  <2> HIDE DEF up, r
  <2>4. GoodDeck(deck') /\ deck'.entries = r.entries
    BY <2>1, <2>3, ClosedGood DEF GoodDeck
  <2> QED
    BY <1>1, <1>2, <2>1, <2>3, <2>4, SwapStep
<1> QED
  BY <1>3, <1>4

LEMMA SelectStep == ASSUME IInv, SelectDepthDeck PROVE IInv' /\ WindowsStay /\ Purposely
<1> DEFINE o == deck.view.output
           s == deck.view.ws
           up == SelectedEntry(deck)
<1>1. /\ enabled /\ deck.view # NoView /\ up # NoEntry /\ focus' = up.win
      /\ UNCHANGED <<enabled, active, live, exempt>>
  BY DEF SelectDepthDeck
<1>2. GoodDeck(deck) /\ o \in Output /\ s \in Workspace
  BY <1>1, Typed DEF IInv, Deck, View
<1>3. /\ up \in Entry /\ up.win \in Wins(deck.entries) /\ up.win \in Window
      /\ up.output \in Output /\ up.ws \in Workspace
  BY <1>1, <1>2, SelectedSlotIsSlot DEF Entry
<1>4. CASE CanSwap(focus)
  <2>1. focus \in Window /\ Tiled(focus) /\ focus \notin exempt /\ TiledAt(focus, o, s)
    BY <1>4, NoWindowAssumption DEF IInv, CanSwap, MaySink
  <2>2. focus \notin Wins(deck.entries)
    BY <2>1, Typed
  <2> DEFINE e == [win |-> focus, output |-> o, ws |-> s]
             r == SwapSelected(deck, e)
  <2>3. Closed(r) /\ tiles' = [tiles EXCEPT ![o][s] = (@ \ {focus}) \cup {up.win}]
    BY <1>4 DEF SelectDepthDeck
  <2>4. e \in Entry /\ e.win = focus
    BY <1>2, <2>1 DEF Entry
  <2> HIDE DEF o, s, e
  <2>5. /\ r \in Deck /\ Inj(r.entries)
        /\ Wins(r.entries) = (Wins(deck.entries) \ {up.win}) \cup {focus}
    BY <1>1, <1>2, <2>2, <2>4, SwapSelectedGood
  <2> HIDE DEF r, up
  <2>6. GoodDeck(deck') /\ deck'.entries = r.entries
    BY <2>3, <2>5, ClosedGood
  <2> QED
    BY <1>1, <1>2, <1>3, <2>1, <2>3, <2>5, <2>6, SwapStep
<1>5. CASE ~CanSwap(focus)
  <2> DEFINE r == TakeSelected(deck)
  <2>1. Closed(r) /\ tiles' = [tiles EXCEPT ![up.output][up.ws] = @ \cup {up.win}]
    BY <1>5 DEF SelectDepthDeck
  <2>2. GoodDeck(r) /\ Wins(r.entries) = Wins(deck.entries) \ {up.win}
    BY <1>1, <1>2, TakeSelectedGood
  <2> HIDE DEF r, up, o, s
  <2>3. GoodDeck(deck') /\ Wins(deck'.entries) = Wins(deck.entries) \ {up.win}
    BY <2>1, <2>2, ClosedGood DEF GoodDeck
  <2>4. TilesType' /\ OneMore(tiles, tiles', up.output, up.ws, up.win)
    BY <1>3, <2>1 DEF IInv, TilesType, OneMore
  <2>5. Apart(tiles', Wins(deck'.entries))
    <3>1. Apart(tiles, Wins(deck.entries))
      BY DEF IInv
    <3> QED BY <1>3, <2>3, <2>4, <3>1, ApartRecall
  <2>7. WindowsStay
    BY <1>3, <2>3, <2>4, SameRecall DEF WindowsStay
  <2> QED
    BY <1>1, <1>3, <2>3, <2>4, <2>5, <2>7 DEF IInv, Purposely
<1> QED
  BY <1>4, <1>5

LEMMA MapStep ==
    ASSUME IInv, NEW w \in Window, NEW o \in Output, MapWindow(w, o)
    PROVE  IInv' /\ Purposely
<1>1. /\ ~Tiled(w) /\ w \notin Wins(deck.entries) /\ active[o] \in Workspace
      /\ tiles' = [tiles EXCEPT ![o][active[o]] = @ \cup {w}] /\ focus' = w
      /\ UNCHANGED <<enabled, deck, overlay, active, live, exempt>>
  BY Typed DEF IInv, MapWindow, Mapped
<1>2. TilesType' /\ OneMore(tiles, tiles', o, active[o], w)
  BY <1>1 DEF IInv, TilesType, OneMore
<1>3. \A p \in Output, u \in Workspace : w \notin tiles[p][u]
  BY <1>1 DEF Tiled, TiledAt
<1>4. Apart(tiles', Wins(deck.entries))
  <2>1. Apart(tiles, Wins(deck.entries))
    BY DEF IInv
  <2> QED BY <1>1, <1>2, <1>3, <2>1, ApartAdd
<1> QED
  BY <1>1, <1>2, <1>4 DEF IInv, Purposely

LEMMA CloseWindowStep ==
    ASSUME IInv, NEW w \in Window, CloseWindow(w)
    PROVE  IInv' /\ Purposely
<1>1. /\ tiles' = [o \in Output |-> [s \in Workspace |-> tiles[o][s] \ {w}]]
      /\ exempt' = exempt \ {w}
      /\ UNCHANGED <<enabled, active, live>>
  BY DEF CloseWindow
<1>2. GoodDeck(deck') /\ Wins(deck'.entries) \subseteq Wins(deck.entries)
      /\ (~enabled => deck' = EmptyDeck)
  <2>1. CASE w \in Parked(deck)
    <3>1. Closed(Remove(deck, w))
      BY <2>1 DEF CloseWindow
    <3>2. GoodDeck(Remove(deck, w))
          /\ Wins(Remove(deck, w).entries) = Wins(deck.entries) \ {w}
      BY RemoveGood DEF IInv
    <3>3. GoodDeck(deck') /\ deck'.entries = Remove(deck, w).entries
      BY <3>1, <3>2, ClosedGood DEF GoodDeck
    <3>4. enabled
      BY <2>1, Typed, EmptyDeckGood DEF IInv
    <3> QED BY <3>2, <3>3, <3>4
  <2>2. CASE w \notin Parked(deck)
    BY <2>2 DEF CloseWindow, IInv
  <2> QED BY <2>1, <2>2
<1>3. TilesType' /\ \A p \in Output, u \in Workspace : tiles'[p][u] = tiles[p][u] \ {w}
  BY <1>1 DEF IInv, TilesType
<1>4. Apart(tiles', Wins(deck'.entries))
  <2>1. \A p \in Output, u \in Workspace : tiles'[p][u] \subseteq tiles[p][u]
    BY <1>3
  <2> QED BY <1>2, <2>1, ApartFewer DEF IInv
<1>6. focus' \in Window \cup {NoWindow}
  <2>1. CASE focus = w /\ Tiled(w)
    <3>1. focus' \in Refocus(tiles', active, TileSlot(w)[1])
      BY <2>1 DEF CloseWindow
    <3>2. TileSlot(w)[1] \in Output
      BY <2>1, Typed
    <3> QED BY <1>3, <3>1, <3>2, RefocusType DEF IInv, TilesType
  <2>2. CASE ~(focus = w /\ Tiled(w))
    BY <2>2 DEF CloseWindow, IInv
  <2> QED BY <2>1, <2>2
<1> QED
  BY <1>1, <1>2, <1>3, <1>4, <1>6 DEF IInv, Purposely

LEMMA ActivateStep ==
    ASSUME IInv, NEW w \in Window, ActivateToplevel(w)
    PROVE  IInv' /\ WindowsStay /\ Purposely
<1> DEFINE r == Remove(deck, w)
<1>1. GoodDeck(r) /\ Wins(r.entries) = Wins(deck.entries) \ {w}
  BY RemoveGood DEF IInv
<1>2. focus' = w /\ UNCHANGED <<enabled, live, exempt>>
  BY DEF ActivateToplevel
<1>3. PICK o \in Output, s \in Workspace :
        /\ \/ TiledAt(w, o, s) /\ UNCHANGED tiles
           \/ /\ \E i \in DOMAIN deck.entries :
                   deck.entries[i] = [win |-> w, output |-> o, ws |-> s]
              /\ tiles' = [tiles EXCEPT ![o][s] = @ \cup {w}]
        /\ IF active[o] # s /\ o \in live
           THEN /\ active' = [active EXCEPT ![o] = s]
                /\ Closed(r)
           ELSE active' = active /\ deck' = r
  BY DEF ActivateToplevel
<1>4. active' \in [Output -> Workspace]
  BY <1>3 DEF IInv
<1>5. GoodDeck(deck') /\ Wins(deck'.entries) = Wins(deck.entries) \ {w}
      /\ (~enabled => deck' = EmptyDeck)
  <2>1. CASE active[o] # s /\ o \in live
    <3>1. Closed(r)
      BY <1>3, <2>1
    <3>2. GoodDeck(deck') /\ deck'.entries = r.entries
      BY <1>1, <3>1, ClosedGood DEF GoodDeck
    <3>3. ~enabled => deck' = EmptyDeck
      BY <3>1, EmptyStays DEF IInv, Closed
    <3> QED BY <1>1, <3>2, <3>3
  <2>2. CASE ~(active[o] # s /\ o \in live)
    BY <1>1, <1>3, <2>2, EmptyStays DEF IInv
  <2> QED BY <2>1, <2>2
<1> HIDE DEF r
<1>6. TilesType' /\ Apart(tiles', Wins(deck'.entries))
      /\ \A p \in Output, u \in Workspace : tiles[p][u] \subseteq tiles'[p][u]
  <2>1. CASE TiledAt(w, o, s) /\ UNCHANGED tiles
    BY <1>5, <2>1, ApartFewer DEF IInv, TilesType
  <2>2. CASE /\ \E i \in DOMAIN deck.entries :
                  deck.entries[i] = [win |-> w, output |-> o, ws |-> s]
             /\ tiles' = [tiles EXCEPT ![o][s] = @ \cup {w}]
    <3>1. w \in Wins(deck.entries)
      BY <2>2 DEF Wins
    <3>2. TilesType' /\ OneMore(tiles, tiles', o, s, w)
      BY <2>2 DEF IInv, TilesType, OneMore
    <3>3. Apart(tiles, Wins(deck.entries))
      BY DEF IInv
    <3>4. Apart(tiles', Wins(deck'.entries))
      BY <1>5, <3>1, <3>2, <3>3, ApartRecall
    <3> QED BY <3>2, <3>4 DEF OneMore
  <2> QED BY <1>3, <2>1, <2>2
<1>8. WindowsStay
  <2>1. CASE TiledAt(w, o, s) /\ UNCHANGED tiles
    <3>1. w \in Shown(tiles)
      BY <2>1 DEF Shown, TiledAt
    <3> QED BY <1>5, <2>1, <3>1 DEF WindowsStay, Same
  <2>2. CASE /\ \E i \in DOMAIN deck.entries :
                  deck.entries[i] = [win |-> w, output |-> o, ws |-> s]
             /\ tiles' = [tiles EXCEPT ![o][s] = @ \cup {w}]
    <3>1. w \in Wins(deck.entries)
      BY <2>2 DEF Wins
    <3>2. OneMore(tiles, tiles', o, s, w)
      BY <2>2 DEF IInv, TilesType, OneMore
    <3> QED BY <1>5, <3>1, <3>2, SameRecall DEF WindowsStay
  <2> QED BY <1>3, <2>1, <2>2
<1> QED
  BY <1>2, <1>4, <1>5, <1>6, <1>8 DEF IInv, Purposely

\* Fullscreen, groups and pseudo-tiling, and the focus, move no window.
LEMMA AsideStep ==
    ASSUME IInv, NEW w \in Window,
           FullscreenRequest(w) \/ Unfullscreen(w) \/ SetAside(w) \/ FocusTile(w)
    PROVE  IInv' /\ WindowsStay /\ Purposely
<1>1. CASE FullscreenRequest(w)
  <2>1. exempt' \in SUBSET Window
    BY <1>1, DemotedFewer DEF FullscreenRequest, IInv
  <2> QED BY <1>1, <2>1 DEF FullscreenRequest, IInv, WindowsStay, Same, TilesType, Purposely
<1>2. CASE Unfullscreen(w)
  BY <1>2 DEF Unfullscreen, IInv, WindowsStay, Same, TilesType, Purposely
<1>3. CASE SetAside(w)
  BY <1>3 DEF SetAside, IInv, WindowsStay, Same, TilesType, Purposely
<1>4. CASE FocusTile(w)
  BY <1>4 DEF FocusTile, IInv, WindowsStay, Same, TilesType, Purposely
<1> QED
  BY <1>1, <1>2, <1>3, <1>4

LEMMA SwitchWorkspaceStep ==
    ASSUME IInv, NEW o \in Output, NEW s \in Workspace, SwitchWorkspace(o, s)
    PROVE  IInv' /\ WindowsStay /\ Purposely
<1>1. /\ active' = [active EXCEPT ![o] = s] /\ Closed(deck)
      /\ focus' \in Refocus(tiles, active', o)
      /\ UNCHANGED <<enabled, tiles, live, exempt>>
  BY DEF SwitchWorkspace
<1>2. active' \in [Output -> Workspace]
  BY <1>1 DEF IInv
<1>3. GoodDeck(deck') /\ deck'.entries = deck.entries /\ (~enabled => deck' = EmptyDeck)
  BY <1>1, Typed, ClosedGood, EmptyStays DEF IInv, Closed
<1>4. focus' \in Window \cup {NoWindow}
  BY <1>1, <1>2, RefocusType DEF IInv, TilesType
<1> QED
  BY <1>1, <1>2, <1>3, <1>4 DEF IInv, TilesType, WindowsStay, Same, Purposely

LEMMA MoveWorkspaceStep ==
    ASSUME IInv, NEW from \in Output, NEW to \in Output, NEW t \in Workspace,
           MoveWorkspaceToMonitor(from, to, t)
    PROVE  IInv' /\ WindowsStay /\ Purposely
<1> DEFINE s == active[from]
           d == MoveWorkspace(deck, from, s, to, t)
<1>1. /\ from # to /\ tiles[to][t] = {}
      /\ tiles' = [tiles EXCEPT ![from][s] = {}, ![to][t] = tiles[from][s]]
      /\ Closed(d) /\ active' = [active EXCEPT ![to] = t]
      /\ focus' \in IF focus \in tiles[from][s] THEN {focus} ELSE Refocus(tiles', active', to)
      /\ exempt' \in Demoted(to) /\ UNCHANGED <<enabled, live>>
  BY DEF MoveWorkspaceToMonitor, Vacant
<1>2. s \in Workspace /\ active' \in [Output -> Workspace]
  BY <1>1 DEF IInv
<1>3. GoodDeck(deck') /\ Wins(deck'.entries) = Wins(deck.entries)
      /\ (~enabled => deck' = EmptyDeck)
  <2>1. d \in Deck /\ Inj(d.entries) /\ Wins(d.entries) = Wins(deck.entries)
    BY MoveWorkspaceGood DEF IInv
  <2>2. ~enabled => d = EmptyDeck
    BY EmptyStays DEF IInv
  <2> HIDE DEF d
  <2> QED BY <1>1, <2>1, <2>2, ClosedGood, EmptyStays DEF Closed
<1> HIDE DEF s, d
<1>4. TilesType' /\ \A p \in Output, u \in Workspace :
        tiles'[p][u] = IF p = from /\ u = s THEN {}
                       ELSE IF p = to /\ u = t THEN tiles[from][s]
                       ELSE tiles[p][u]
  <2>1. tiles \in [Output -> [Workspace -> SUBSET Window]]
    BY DEF IInv, TilesType
  <2>2. /\ DOMAIN tiles' = Output
        /\ tiles'[from] = [tiles[from] EXCEPT ![s] = {}]
        /\ tiles'[to] = [tiles[to] EXCEPT ![t] = tiles[from][s]]
        /\ \A p \in Output : p # from /\ p # to => tiles'[p] = tiles[p]
        /\ tiles' = [p \in Output |-> tiles'[p]]
    BY <1>1, <1>2, <2>1
  <2>3. ASSUME NEW p \in Output
        PROVE  /\ tiles'[p] \in [Workspace -> SUBSET Window]
               /\ \A u \in Workspace :
                    tiles'[p][u] = IF p = from /\ u = s THEN {}
                                   ELSE IF p = to /\ u = t THEN tiles[from][s]
                                   ELSE tiles[p][u]
    <3>0. tiles[p] \in [Workspace -> SUBSET Window] /\ tiles[from][s] \in SUBSET Window
      BY <1>2, <2>1
    <3>1. CASE p = from
      <4>1. tiles'[p] = [tiles[p] EXCEPT ![s] = {}]
        BY <2>2, <3>1
      <4>2. tiles'[p] \in [Workspace -> SUBSET Window]
        BY <3>0, <4>1
      <4>3. \A u \in Workspace : tiles'[p][u] = IF u = s THEN {} ELSE tiles[p][u]
        BY <3>0, <4>1
      <4> QED BY <1>1, <3>1, <4>2, <4>3
    <3>2. CASE p = to
      <4>1. tiles'[p] = [tiles[p] EXCEPT ![t] = tiles[from][s]]
        BY <2>2, <3>2
      <4> QED BY <1>1, <3>0, <3>2, <4>1
    <3>3. CASE p # from /\ p # to
      BY <2>2, <3>0, <3>3
    <3> QED BY <3>1, <3>2, <3>3
  <2>4. TilesType'
    BY <2>2, <2>3 DEF TilesType
  <2> QED BY <2>3, <2>4
<1>5. ASSUME NEW p \in Output, NEW u \in Workspace, NEW w \in Window, w \in tiles'[p][u]
      PROVE  /\ w \notin Wins(deck.entries)
             /\ \A q \in Output, v \in Workspace : w \in tiles'[q][v] => q = p /\ v = u
  <2>1. Apart(tiles, Wins(deck.entries))
    BY DEF IInv
  <2>2. CASE w \in tiles[from][s]
    <3>1. \A q \in Output, v \in Workspace : w \in tiles[q][v] => q = from /\ v = s
      BY <1>2, <2>1, <2>2 DEF Apart
    <3>2. \A q \in Output, v \in Workspace : w \in tiles'[q][v] => q = to /\ v = t
      BY <1>4, <3>1
    <3> QED BY <1>2, <1>5, <2>1, <2>2, <3>2 DEF Apart
  <2>3. CASE w \notin tiles[from][s]
    <3>1. \A q \in Output, v \in Workspace : w \in tiles'[q][v] => w \in tiles[q][v]
      BY <1>4, <2>3
    <3> QED BY <1>5, <2>1, <3>1 DEF Apart
  <2> QED BY <2>2, <2>3
<1>6. Apart(tiles', Wins(deck'.entries))
  BY <1>3, <1>5 DEF Apart
<1>9. \A p \in Output, u \in Workspace, w \in Window : w \in tiles[p][u] =>
           \E q \in Output, v \in Workspace : w \in tiles'[q][v]
  <2>1. tiles'[to][t] = tiles[from][s]
    BY <1>1, <1>4
  <2>2. ASSUME NEW p \in Output, NEW u \in Workspace, NEW w \in Window, w \in tiles[p][u]
        PROVE  \E q \in Output, v \in Workspace : w \in tiles'[q][v]
    <3>1. CASE p = from /\ u = s
      BY <2>1, <2>2, <3>1
    <3>2. CASE ~(p = from /\ u = s)
      <4>1. ~(p = to /\ u = t)
        BY <1>1, <2>2
      <4> QED BY <1>4, <2>2, <3>2, <4>1
    <3> QED BY <3>1, <3>2
  <2> QED BY <2>2
<1>10. WindowsStay
  <2>1. Shown(tiles) \subseteq Shown(tiles')
    BY <1>9 DEF Shown
  <2>2. ASSUME NEW w \in Shown(tiles') PROVE w \in Shown(tiles)
    <3>1. PICK p \in Output, u \in Workspace : w \in tiles'[p][u]
      BY DEF Shown
    <3>2. w \in tiles[p][u] \/ w \in tiles[from][s]
      BY <1>4, <3>1
    <3> QED BY <1>2, <3>2 DEF Shown
  <2> QED BY <1>3, <2>1, <2>2 DEF WindowsStay, Same
<1>8. focus' \in Window \cup {NoWindow}
  BY <1>1, <1>2, <1>4, RefocusType DEF IInv, TilesType
<1> QED
  BY <1>1, <1>2, <1>3, <1>4, <1>6, <1>8, <1>10, DemotedFewer DEF IInv, Purposely

\* Every window of the outputs `gone` ends up on `to`, its workspace unchanged.
TakenOver(t, t2, gone, to) ==
    \A p \in Output, u \in Workspace :
      /\ p = to => t2[p][u] = t[p][u] \cup UNION {t[q][u] : q \in gone}
      /\ p # to /\ p \in gone => t2[p][u] = {}
      /\ p # to /\ p \notin gone => t2[p][u] = t[p][u]

\* Where a tile of the new layout was before the hotplug.
Origin(t, gone, to, w, p, u) ==
    \E q \in Output : w \in t[q][u] /\ (q = p \/ (q \in gone /\ p = to))

LEMMA TakenFrom ==
    ASSUME NEW t, NEW t2, NEW gone \in SUBSET Output, NEW to \in Output, to \notin gone,
           TakenOver(t, t2, gone, to), NEW p \in Output, NEW u \in Workspace, NEW w,
           w \in t2[p][u]
    PROVE  /\ Origin(t, gone, to, w, p, u)
           /\ p \notin gone
<1>1. /\ p = to => t2[p][u] = t[p][u] \cup UNION {t[q][u] : q \in gone}
      /\ p # to /\ p \in gone => t2[p][u] = {}
      /\ p # to /\ p \notin gone => t2[p][u] = t[p][u]
  BY DEF TakenOver
<1>2. p \notin gone
  BY <1>1
<1>3. CASE p # to \/ w \in t[p][u]
  BY <1>1, <1>2, <1>3 DEF Origin
<1>4. CASE p = to /\ w \notin t[p][u]
  <2>1. w \in UNION {t[q][u] : q \in gone}
    BY <1>1, <1>4
  <2>2. PICK q \in gone : w \in t[q][u]
    BY <2>1
  <2> QED BY <1>4, <2>2 DEF Origin
<1> QED
  BY <1>2, <1>3, <1>4

LEMMA TakenTo ==
    ASSUME NEW t, NEW t2, NEW gone \in SUBSET Output, NEW to \in Output, to \notin gone,
           TakenOver(t, t2, gone, to), NEW p \in Output, NEW u \in Workspace, NEW w,
           w \in t[p][u]
    PROVE  \E q \in Output, v \in Workspace : w \in t2[q][v]
<1>1. CASE p \in gone
  <2>1. t2[to][u] = t[to][u] \cup UNION {t[q][u] : q \in gone}
    BY DEF TakenOver
  <2>2. w \in t2[to][u]
    BY <1>1, <2>1
  <2> QED BY <2>2
<1>2. CASE p \notin gone
  <2>1. /\ p = to => t2[p][u] = t[p][u] \cup UNION {t[q][u] : q \in gone}
        /\ p # to => t2[p][u] = t[p][u]
    BY <1>2 DEF TakenOver
  <2>2. w \in t2[p][u]
    BY <2>1
  <2> QED BY <2>2
<1> QED
  BY <1>1, <1>2

LEMMA ApartTakenOver ==
    ASSUME NEW t, NEW t2, NEW P, Apart(t, P), NEW gone \in SUBSET Output,
           NEW to \in Output, to \notin gone, TakenOver(t, t2, gone, to)
    PROVE  Apart(t2, P)
<1>1. ASSUME NEW w \in Window, NEW p \in Output, NEW u \in Workspace, w \in t2[p][u]
      PROVE  w \notin P /\ \A q \in Output, v \in Workspace : w \in t2[q][v] => q = p /\ v = u
  <2>1. PICK a \in Output : w \in t[a][u] /\ (a = p \/ (a \in gone /\ p = to))
    BY <1>1, TakenFrom DEF Origin
  <2>2. w \notin P
    BY <2>1 DEF Apart
  <2>3. ASSUME NEW q \in Output, NEW v \in Workspace, w \in t2[q][v]
        PROVE  q = p /\ v = u
    <3>0. Origin(t, gone, to, w, q, v)
      BY <2>3, TakenFrom
    <3>1. PICK b \in Output : w \in t[b][v] /\ (b = q \/ (b \in gone /\ q = to))
      BY <3>0 DEF Origin
    <3>2. a = b /\ u = v
      BY <2>1, <3>1 DEF Apart
    <3>3. p \notin gone /\ q \notin gone
      BY <1>1, <2>3, TakenFrom
    <3> QED BY <2>1, <3>1, <3>2, <3>3
  <2> QED BY <2>2, <2>3
<1> QED
  BY <1>1 DEF Apart

\* Hotplug: tiles and deck entries of some outputs pass to another one.
LEMMA TakeOverStep ==
    ASSUME IInv, NEW gone \in SUBSET Output, NEW to \in Output, to \notin gone,
           deck' = AdoptOutputs(deck, gone, to), TilesType',
           TakenOver(tiles, tiles', gone, to), live' \in SUBSET Output,
           focus' \in Window \cup {NoWindow}, exempt' \in SUBSET exempt,
           UNCHANGED <<enabled, active>>
    PROVE  IInv' /\ WindowsStay /\ Purposely
<1>1. GoodDeck(deck') /\ Wins(deck'.entries) = Wins(deck.entries)
  BY AdoptOutputsGood DEF IInv
<1>2. ~enabled => deck' = EmptyDeck
  BY EmptyStays DEF IInv
<1>3. Apart(tiles, Wins(deck.entries))
  BY DEF IInv
<1>4. Apart(tiles', Wins(deck.entries))
  BY <1>3, ApartTakenOver
<1>7. WindowsStay
  <2> DEFINE t2 == tiles'
  <2>1. TakenOver(tiles, t2, gone, to)
    OBVIOUS
  <2> HIDE DEF t2
  <2>2. ASSUME NEW w \in Shown(tiles) PROVE w \in Shown(t2)
    <3>1. PICK p \in Output, u \in Workspace : w \in tiles[p][u]
      BY DEF Shown
    <3>2. \E q \in Output, v \in Workspace : w \in t2[q][v]
      BY <2>1, <3>1, TakenTo
    <3> QED BY <3>2 DEF Shown
  <2>3. ASSUME NEW w \in Shown(t2) PROVE w \in Shown(tiles)
    <3>1. PICK p \in Output, u \in Workspace : w \in t2[p][u]
      BY DEF Shown
    <3>2. Origin(tiles, gone, to, w, p, u)
      BY <2>1, <3>1, TakenFrom
    <3> QED BY <3>2 DEF Origin, Shown
  <2>4. Shown(t2) = Shown(tiles)
    BY <2>2, <2>3
  <2> USE DEF t2
  <2> QED BY <1>1, <2>4 DEF WindowsStay, Same
<1> QED
  BY <1>1, <1>2, <1>4, <1>7 DEF IInv, Purposely

LEMMA DisconnectStep == ASSUME IInv, NEW o \in Output, DisconnectOutput(o) PROVE IInv' /\ WindowsStay /\ Purposely
<1>1. live' = live \ {o} /\ live' \in SUBSET Output /\ UNCHANGED <<enabled, active>>
  BY DEF DisconnectOutput, IInv
<1>2. CASE live' = {}
  BY <1>1, <1>2 DEF DisconnectOutput, IInv, TilesType, WindowsStay, Same, Purposely
<1>3. CASE live' # {}
  <2>1. PICK to \in live' :
          /\ Migrated(o, to) /\ exempt' \in Demoted(to)
          /\ focus' \in IF \E p \in live' : focus \in Visible(tiles', active, p)
                        THEN {focus}
                        ELSE Visible(tiles', active, to) \cup {NoWindow}
    BY <1>3 DEF DisconnectOutput
  <2>2. to \in Output /\ to # o /\ deck' = AdoptOutputs(deck, {o}, to)
        /\ tiles' = [tiles EXCEPT ![o] = [s \in Workspace |-> {}],
                                 ![to] = [s \in Workspace |-> @[s] \cup tiles[o][s]]]
    BY <1>1, <2>1 DEF Migrated, MigrateOutput
  <2>3. tiles \in [Output -> [Workspace -> SUBSET Window]]
    BY DEF IInv, TilesType
  <2>4. /\ tiles' = [p \in Output |-> IF p = o THEN [s \in Workspace |-> {}]
                                    ELSE IF p = to
                                    THEN [s \in Workspace |-> tiles[to][s] \cup tiles[o][s]]
                                    ELSE tiles[p]]
    BY <2>2, <2>3
  <2>5. TilesType'
    BY <2>3, <2>4 DEF TilesType
  <2>6. TakenOver(tiles, tiles', {o}, to)
    <3>1. ASSUME NEW p \in Output, NEW u \in Workspace
          PROVE  tiles'[p][u] = IF p = o THEN {}
                                ELSE IF p = to THEN tiles[to][u] \cup tiles[o][u]
                                ELSE tiles[p][u]
      BY <2>4
    <3>2. ASSUME NEW u \in Workspace
          PROVE  UNION {tiles[q][u] : q \in {o}} = tiles[o][u]
      OBVIOUS
    <3>3. ASSUME NEW p \in Output, NEW u \in Workspace
          PROVE  /\ p = to => tiles'[p][u] = tiles[p][u] \cup UNION {tiles[q][u] : q \in {o}}
                 /\ p # to /\ p \in {o} => tiles'[p][u] = {}
                 /\ p # to /\ p \notin {o} => tiles'[p][u] = tiles[p][u]
      <4>1. CASE p = to
        <5>1. tiles'[p][u] = tiles[to][u] \cup tiles[o][u]
          BY <2>2, <3>1, <4>1
        <5>2. UNION {tiles[q][u] : q \in {o}} = tiles[o][u]
          BY <3>2
        <5> QED BY <4>1, <5>1, <5>2
      <4>2. CASE p # to
        BY <3>1, <4>2
      <4> QED BY <4>1, <4>2
    <3> QED BY <3>3 DEF TakenOver
  <2>8. exempt' \in SUBSET exempt
    BY <2>1, <2>2, DemotedFewer
  <2>7. focus' \in Window \cup {NoWindow}
    <3>1. Visible(tiles', active, to) \subseteq Window
      BY <2>2, <2>5 DEF Visible, TilesType, IInv
    <3> QED BY <2>1, <3>1 DEF IInv
  <2> QED
    BY <1>1, <2>2, <2>5, <2>6, <2>7, <2>8, TakeOverStep
<1> QED
  BY <1>2, <1>3

LEMMA ConnectStep == ASSUME IInv, NEW o \in Output, ConnectOutput(o) PROVE IInv' /\ WindowsStay /\ Purposely
<1> DEFINE gone == Output \ (live \cup {o})
<1>1. /\ live' = live \cup {o} /\ deck' = AdoptOutputs(deck, gone, o)
      /\ tiles' = [p \in Output |-> [s \in Workspace |->
                     IF p = o THEN tiles[o][s] \cup UNION {tiles[q][s] : q \in gone}
                     ELSE IF p \in gone THEN {}
                     ELSE tiles[p][s]]]
      /\ exempt' \in SUBSET exempt /\ UNCHANGED <<enabled, active, focus>>
  BY DEF ConnectOutput
<1>2. gone \in SUBSET Output /\ o \notin gone
  OBVIOUS
<1> HIDE DEF gone
<1>3. tiles \in [Output -> [Workspace -> SUBSET Window]]
  BY DEF IInv, TilesType
<1>4. TilesType'
  BY <1>1, <1>2, <1>3 DEF TilesType
<1>5. TakenOver(tiles, tiles', gone, o)
  <2>1. ASSUME NEW p \in Output, NEW u \in Workspace
        PROVE  tiles'[p][u] = IF p = o THEN tiles[o][u] \cup UNION {tiles[q][u] : q \in gone}
                              ELSE IF p \in gone THEN {}
                              ELSE tiles[p][u]
    BY <1>1
  <2> QED BY <1>2, <2>1 DEF TakenOver
<1>6. live' \in SUBSET Output /\ focus' \in Window \cup {NoWindow}
  BY <1>1 DEF IInv
<1> QED
  BY <1>1, <1>2, <1>4, <1>5, <1>6, TakeOverStep

LEMMA ReloadStep == ASSUME IInv, NEW on \in BOOLEAN, ReloadConfig(on) PROVE IInv' /\ WindowsStay /\ Purposely
<1>1. enabled' = on /\ UNCHANGED <<active, live, exempt, focus>>
  BY DEF ReloadConfig
<1>2. CASE on
  BY <1>1, <1>2 DEF ReloadConfig, IInv, TilesType, WindowsStay, Same, Purposely
<1>3. CASE ~on
  <2> DEFINE back(o, s) == {e.win : e \in {deck.entries[i] : i \in SlotsOf(deck.entries, o, s)}}
  <2>1. /\ deck' = EmptyDeck
        /\ tiles' = [o \in Output |-> [s \in Workspace |-> tiles[o][s] \cup back(o, s)]]
    BY <1>3 DEF ReloadConfig, Drain
  <2>2. \A o \in Output, s \in Workspace :
          /\ back(o, s) \subseteq Wins(deck.entries)
          /\ \A w \in back(o, s) : \E i \in DOMAIN deck.entries :
               deck.entries[i].win = w /\ deck.entries[i].output = o /\ deck.entries[i].ws = s
    BY DEF SlotsOf, At, Wins
  <2>3. ASSUME NEW o \in Output, NEW p \in Output, NEW s \in Workspace, NEW u \in Workspace,
               NEW w \in Window, w \in back(o, s), w \in back(p, u)
        PROVE  o = p /\ s = u
    <3> HIDE DEF back
    <3>1. PICK i \in DOMAIN deck.entries :
            deck.entries[i].win = w /\ deck.entries[i].output = o /\ deck.entries[i].ws = s
      BY <2>2, <2>3
    <3>2. PICK j \in DOMAIN deck.entries :
            deck.entries[j].win = w /\ deck.entries[j].output = p /\ deck.entries[j].ws = u
      BY <2>2, <2>3
    <3>3. i = j
      BY <3>1, <3>2, Typed DEF Inj
    <3> QED BY <3>1, <3>2, <3>3
  <2> HIDE DEF back
  <2>4. TilesType' /\ \A o \in Output, s \in Workspace :
          tiles'[o][s] = tiles[o][s] \cup back(o, s)
    BY <2>1, <2>2, Typed DEF IInv, TilesType
  <2>5. Apart(tiles, Wins(deck.entries))
    BY DEF IInv
  <2>6. Apart(tiles', {})
    BY <2>2, <2>3, <2>4, <2>5 DEF Apart
  <2>8. WindowsStay
    <3>1. ASSUME NEW w \in Wins(deck.entries) PROVE w \in Shown(tiles')
      <4>1. PICK i \in DOMAIN deck.entries : deck.entries[i].win = w
        BY DEF Wins
      <4> DEFINE e == deck.entries[i]
      <4>2. e \in Entry /\ w = e.win
        BY <4>1, Typed
      <4>3. e.output \in Output /\ e.ws \in Workspace /\ w \in Window
        BY <4>2 DEF Entry
      <4>4. w \in back(e.output, e.ws)
        BY <4>1 DEF back, SlotsOf, At
      <4> QED BY <2>4, <4>3, <4>4 DEF Shown
    <3>2. Shown(tiles) \subseteq Shown(tiles')
      BY <2>4 DEF Shown
    <3>3. ASSUME NEW w \in Shown(tiles') PROVE w \in Shown(tiles) \cup Wins(deck.entries)
      <4>1. PICK o \in Output, u \in Workspace : w \in tiles'[o][u]
        BY DEF Shown
      <4> QED BY <2>2, <2>4, <4>1 DEF Shown
    <3> QED BY <2>1, <3>1, <3>2, <3>3, EmptyDeckGood DEF WindowsStay, Same
  <2> QED
    BY <1>1, <2>1, <2>4, <2>6, <2>8, EmptyDeckGood DEF IInv, Purposely
<1> QED
  BY <1>2, <1>3

LEMMA Stutter == ASSUME IInv, UNCHANGED vars PROVE IInv'
BY DEF IInv, vars, TilesType, Tiled, TiledAt

LEMMA NextStep == IInv /\ [Next]_vars => IInv'
<1> SUFFICES ASSUME IInv, [Next]_vars PROVE IInv'
  OBVIOUS
<1>1. CASE UNCHANGED vars
  BY <1>1, Stutter
<1>2. CASE Next
  BY <1>2, SinkWindowStep, DiveStep, CycleStep, DepthCancelStep, SwitchDepthStep, SelectStep,
     MapStep, CloseWindowStep, ActivateStep, AsideStep, SwitchWorkspaceStep,
     MoveWorkspaceStep, DisconnectStep, ConnectStep, ReloadStep DEF Next
<1> QED
  BY <1>1, <1>2

\* The invariant of the proofs holds in every reachable state.
THEOREM Invariance == Spec => []IInv
BY InitIInv, NextStep, PTL DEF Spec

-----------------------------------------------------------------------------
(* What follows for the properties the runs check *)

\* A window is a tile of one workspace or holds one deck slot, whatever
\* sequence of parking, recall, rotation, hotplug and reload came before.
THEOREM WindowOwnedOnce == Spec => []OwnedOnce
<1>1. IInv => OwnedOnce
  <2> SUFFICES ASSUME IInv PROVE OwnedOnce
    OBVIOUS
  <2>1. Parked(deck) = Wins(deck.entries) /\ Parked(deck) \subseteq Window
    BY Typed
  <2>2. \A o, p \in Output, s, t \in Workspace :
          tiles[o][s] \cap tiles[p][t] # {} => <<o, s>> = <<p, t>>
    BY DEF IInv, Apart, TilesType
  <2>3. \A i, j \in DOMAIN deck.entries : deck.entries[i].win = deck.entries[j].win => i = j
    BY Typed DEF Inj
  <2>4. \A w \in Parked(deck) : ~Tiled(w)
    BY <2>1 DEF IInv, Apart, Tiled, TiledAt
  <2> QED BY <2>2, <2>3, <2>4 DEF OwnedOnce
<1> QED
  BY <1>1, Invariance, PTL

\* An open picker selects an existing entry of its workspace (clamp_view).
THEOREM PickerPointsAtEntry == Spec => []ViewSelectsEntry
<1>1. IInv => ViewSelectsEntry
  BY DEF IInv, GoodDeck, ViewSelectsEntry
<1> QED
  BY <1>1, Invariance, PTL

\* A deck that is switched off holds no window.
THEOREM OffHoldsNothing == Spec => []DisabledHoldsNothing
<1>1. IInv => DisabledHoldsNothing
  BY DEF IInv, DisabledHoldsNothing
<1> QED
  BY <1>1, Invariance, PTL

-----------------------------------------------------------------------------
(* Nothing is parked but what the user sinks *)

LEMMA StepPurposely == IInv /\ [Next]_vars => Purposely
<1> SUFFICES ASSUME IInv, [Next]_vars PROVE Purposely
  OBVIOUS
<1>1. CASE UNCHANGED vars
  BY <1>1 DEF vars, Purposely
<1>2. CASE Next
  BY <1>2, SinkWindowStep, DiveStep, CycleStep, DepthCancelStep, SwitchDepthStep, SelectStep,
     MapStep, CloseWindowStep, ActivateStep, AsideStep, SwitchWorkspaceStep,
     MoveWorkspaceStep, DisconnectStep, ConnectStep, ReloadStep DEF Next
<1> QED
  BY <1>1, <1>2

\* Whatever clients request, outputs do and workspaces move, a window gets
\* parked by no other step than one that sinks the focused ordinary tile, and
\* a deck that is switched off holds none.
THEOREM OnlyParkedOnPurpose == Spec => ParkedOnPurpose
<1> DEFINE Sunk == \A w \in Parked(deck)' \ Parked(deck) :
                      enabled /\ w = focus /\ Tiled(w) /\ w \notin exempt
<1>1. IInv /\ [Next]_vars => [Sunk]_vars
  <2>1. Purposely => Sunk
    BY DEF Purposely, Parked, Wins
  <2> QED BY <2>1, StepPurposely
<1>2. [][Sunk]_vars /\ []DisabledHoldsNothing => ParkedOnPurpose
  BY DEF ParkedOnPurpose
<1> HIDE DEF Sunk
<1> QED
  BY <1>1, <1>2, Invariance, OffHoldsNothing, PTL DEF Spec

-----------------------------------------------------------------------------
(* No step loses a window *)

\* The windows of the runs' property are those of the invariant.
MappedOnes == WindowsOf = Shown(tiles) \cup Wins(deck.entries)

LEMMA MappedAre == IInv => MappedOnes
BY Typed DEF MappedOnes, WindowsOf, Mapped, Tiled, TiledAt, Shown

LEMMA MapAdds ==
    ASSUME IInv, IInv', NEW w \in Window, NEW o \in Output, MapWindow(w, o)
    PROVE  WindowsOf' = WindowsOf \cup {w} /\ TileSlot(w)'[1] = o
<1>1. /\ deck' = deck /\ active[o] \in Workspace /\ tiles \in [Output -> [Workspace -> SUBSET Window]]
      /\ tiles' = [tiles EXCEPT ![o][active[o]] = @ \cup {w}]
  BY DEF IInv, MapWindow, TilesType
<1>2. OneMore(tiles, tiles', o, active[o], w)
  BY <1>1 DEF OneMore
<1>3. Shown(tiles') = Shown(tiles) \cup {w}
  <2>1. w \in tiles'[o][active[o]]
    BY <1>1, <1>2 DEF OneMore
  <2>2. \A p \in Output, u \in Workspace :
          tiles[p][u] \subseteq tiles'[p][u] /\ tiles'[p][u] \subseteq tiles[p][u] \cup {w}
    BY <1>2 DEF OneMore
  <2>3. w \in Shown(tiles')
    BY <1>1, <2>1 DEF Shown
  <2>4. \A x \in Shown(tiles) : x \in Shown(tiles')
    BY <2>2 DEF Shown
  <2>5. \A x \in Shown(tiles') : x \in Shown(tiles) \cup {w}
    BY <2>2 DEF Shown
  <2> QED BY <2>3, <2>4, <2>5
<1>4. MappedOnes /\ MappedOnes'
  BY MappedAre, PTL
<1>5. WindowsOf' = WindowsOf \cup {w}
  BY <1>1, <1>3, <1>4 DEF MappedOnes
<1>6. \A p \in Output \X Workspace : TiledAt(w, p[1], p[2])' <=> p = <<o, active[o]>>
  <2>1. \A p \in Output, u \in Workspace : w \notin tiles[p][u]
    BY DEF MapWindow, Mapped, Tiled, TiledAt
  <2>2. \A p \in Output, u \in Workspace : w \in tiles'[p][u] <=> p = o /\ u = active[o]
    BY <1>1, <1>2, <2>1 DEF OneMore
  <2> QED BY <1>1, <2>2 DEF TiledAt
<1>7. TileSlot(w)' = <<o, active[o]>>
  <2>1. TileSlot(w)' = CHOOSE p \in Output \X Workspace : TiledAt(w, p[1], p[2])'
    BY DEF TileSlot
  <2>2. <<o, active[o]>> \in Output \X Workspace
    BY <1>1
  <2> QED BY <1>6, <2>1, <2>2
<1> QED
  BY <1>5, <1>7

LEMMA CloseRemoves ==
    ASSUME IInv, IInv', NEW w \in Window, CloseWindow(w)
    PROVE  WindowsOf' = WindowsOf \ {w}
<1>1. tiles' = [o \in Output |-> [s \in Workspace |-> tiles[o][s] \ {w}]]
  BY DEF CloseWindow
<1>2. Wins(deck'.entries) = Wins(deck.entries) \ {w}
  <2>1. CASE w \in Parked(deck)
    <3>1. Closed(Remove(deck, w))
      BY <2>1 DEF CloseWindow
    <3>2. GoodDeck(Remove(deck, w))
          /\ Wins(Remove(deck, w).entries) = Wins(deck.entries) \ {w}
      BY RemoveGood DEF IInv
    <3>3. deck'.entries = Remove(deck, w).entries
      BY <3>1, <3>2, ClosedGood DEF GoodDeck
    <3> QED BY <3>2, <3>3
  <2>2. CASE w \notin Parked(deck)
    BY <2>2, Typed DEF CloseWindow
  <2> QED BY <2>1, <2>2
<1>3. Shown(tiles') = Shown(tiles) \ {w}
  <2>1. \A p \in Output, u \in Workspace : tiles'[p][u] = tiles[p][u] \ {w}
    BY <1>1
  <2>2. \A x \in Shown(tiles) \ {w} : x \in Shown(tiles')
    BY <2>1 DEF Shown
  <2>3. \A x \in Shown(tiles') : x \in Shown(tiles) \ {w}
    BY <2>1 DEF Shown
  <2> QED BY <2>2, <2>3
<1>4. MappedOnes /\ MappedOnes'
  BY MappedAre, PTL
<1> QED
  BY <1>2, <1>3, <1>4 DEF MappedOnes

\* One step: the map and the close of one window, and everything else.
Conserves ==
    \/ WindowsOf' = WindowsOf
    \/ \E w \in Window : WindowsOf' \in {WindowsOf \cup {w}, WindowsOf \ {w}}
                         /\ (MapWindow(w, TileSlot(w)'[1]) \/ CloseWindow(w))

LEMMA StepConserves == IInv /\ IInv' /\ [Next]_vars => Conserves
<1> SUFFICES ASSUME IInv, IInv', [Next]_vars PROVE Conserves
  OBVIOUS
<1>1. MappedOnes /\ MappedOnes'
  BY MappedAre, PTL
<1>2. WindowsStay => Conserves
  BY <1>1 DEF WindowsStay, Same, MappedOnes, Conserves
<1>3. CASE UNCHANGED vars
  BY <1>3 DEF vars, Conserves, WindowsOf, Mapped, Tiled, TiledAt, Parked
<1>4. ASSUME NEW w \in Window, NEW o \in Output, MapWindow(w, o) PROVE Conserves
  BY <1>4, MapAdds DEF Conserves
<1>5. ASSUME NEW w \in Window, CloseWindow(w) PROVE Conserves
  BY <1>5, CloseRemoves DEF Conserves
<1>6. CASE Next
  BY <1>2, <1>4, <1>5, <1>6, SinkWindowStep, DiveStep, CycleStep, DepthCancelStep,
     SwitchDepthStep, SelectStep, ActivateStep, AsideStep, SwitchWorkspaceStep,
     MoveWorkspaceStep, DisconnectStep, ConnectStep, ReloadStep DEF Next
<1> QED
  BY <1>3, <1>6

\* No step but a close loses a window, and none but a map adds one: parking,
\* recall, rotation, workspace moves, hotplug and hot-disabling keep them all.
THEOREM WindowsAreConserved == Spec => Conserved
<1>1. IInv /\ IInv' /\ [Next]_vars => [Conserves]_vars
  BY StepConserves
<1>2. [][Conserves]_vars => Conserved
  BY DEF Conserves, Conserved
<1> QED
  BY <1>1, <1>2, Invariance, PTL DEF Spec
=============================================================================
