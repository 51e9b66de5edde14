-------------------------- MODULE WorkspacesProofs --------------------------
(***************************************************************************)
(* Proofs about Workspaces, for any windows, monitors, workspaces, rules   *)
(* and features: whatever the user, the clients and the hotplug do, every  *)
(* mapped window is in exactly one tree, floating tag or parked tab, and   *)
(* that lies on a lit monitor while there is one; and a workspace that is  *)
(* sent or swapped arrives whole and alone.  Groups keep their leaf, the   *)
(* screen shows the open workspaces and modes agree with places, but for   *)
(* the features the code gets wrong.                                       *)
(*                                                                         *)
(* The argument: an operation of WorkspaceOps either rearranges what the   *)
(* windows are owned by, and leaves who owns them alone, or it hands a     *)
(* window from one kind of owner to another in one step.                   *)
(***************************************************************************)
EXTENDS Workspaces, FiniteSetTheorems, NaturalsInduction, WellFoundedInduction,
        SequenceTheorems, TLAPS

-----------------------------------------------------------------------------
(* Desks *)

\* The keys of the workspaces on outputs L.
Keys(L) == L \X Workspace

\* The maps from some windows to V.
Maps(V) == UNION {[S -> V] : S \in SUBSET Window}

\* The groups whose home is on one of the outputs L.
Groups(L) == [members : Seq(Window), active : Nat, home : Keys(L)]

\* The outputs a window may be pinned to.
PinOutput == IF "outputPins" \in Features THEN Output ELSE {}

\* The desks on which windows live on the outputs L, of which some are lit.
Desks(L) ==
  [live : SUBSET L, active : [Output -> Workspace], mapped : SUBSET Window,
   tile : Maps(Keys(L)), tag : Maps(Keys(L)), over : Maps(Output),
   pinned : SUBSET Window, pseudo : SUBSET Window, shown : SUBSET Window,
   full : Maps(FullscreenEntry), maxi : Maps(Output),
   groups : SUBSET Groups(L), pin : Maps(PinOutput)]

\* A group has two tabs or more, none of them twice, and no two groups share one.
Apart(G) ==
  /\ \A g \in G : /\ Len(g.members) > 1 /\ g.active \in 1 .. Len(g.members)
                  /\ \A i, j \in 1 .. Len(g.members) : g.members[i] = g.members[j] => i = j
  /\ \A g, h \in G : \A w \in Window : w \in Members(g) /\ w \in Members(h) => g = h

\* The windows M, and no others, have one owner each.
Once(d, M) ==
  /\ M = DOMAIN d.tile \cup DOMAIN d.tag \cup Parked(d)
  /\ DOMAIN d.tile \cap DOMAIN d.tag = {}
  /\ (DOMAIN d.tile \cup DOMAIN d.tag) \cap Parked(d) = {}

\* The invariant of a desk between two operations.  A window in Space has a tile
\* or a tag: what an operation does to a window it finds in Space relies on it.
Held(d, L) ==
  /\ L \subseteq Output /\ d \in Desks(L)
  /\ Apart(d.groups) /\ Once(d, d.mapped)
  /\ d.shown \subseteq DOMAIN d.tile \cup DOMAIN d.tag

-----------------------------------------------------------------------------
(* Maps *)

LEMMA MapsType ==
  ASSUME NEW V, NEW f
  PROVE  f \in Maps(V) <=> /\ f = [w \in DOMAIN f |-> f[w]]
                           /\ DOMAIN f \subseteq Window
                           /\ \A w \in DOMAIN f : f[w] \in V
  BY DEF Maps

LEMMA PutMaps ==
  ASSUME NEW V, NEW f \in Maps(V), NEW w \in Window, NEW v \in V
  PROVE  /\ Put(f, w, v) \in Maps(V)
         /\ DOMAIN Put(f, w, v) = DOMAIN f \cup {w}
         /\ Put(f, w, v)[w] = v
         /\ \A x \in DOMAIN f : x # w => Put(f, w, v)[x] = f[x]
<1>1. DOMAIN f \subseteq Window /\ \A x \in DOMAIN f : f[x] \in V BY MapsType
<1> DEFINE p == Put(f, w, v)
<1>2. p = [y \in DOMAIN f \cup {w} |-> IF y = w THEN v ELSE f[y]] BY DEF Put
<1>3. /\ DOMAIN p = DOMAIN f \cup {w} /\ p[w] = v
      /\ \A x \in DOMAIN f : x # w => p[x] = f[x]
  BY <1>2
<1>4. p = [y \in DOMAIN p |-> p[y]] BY <1>2
<1> HIDE DEF p
<1>5. \A x \in DOMAIN p : p[x] \in V BY <1>1, <1>3
<1>6. p \in Maps(V) BY <1>1, <1>3, <1>4, <1>5, MapsType
<1> QED BY <1>3, <1>6 DEF p

LEMMA DropMaps ==
  ASSUME NEW V, NEW f \in Maps(V), NEW S
  PROVE  /\ Drop(f, S) \in Maps(V)
         /\ DOMAIN Drop(f, S) = DOMAIN f \ S
         /\ \A x \in DOMAIN f \ S : Drop(f, S)[x] = f[x]
<1>1. DOMAIN f \subseteq Window /\ \A x \in DOMAIN f : f[x] \in V BY MapsType
<1> DEFINE p == Drop(f, S)
<1>2. p = [y \in DOMAIN f \ S |-> f[y]] BY DEF Drop, Restrict
<1>3. DOMAIN p = DOMAIN f \ S /\ \A x \in DOMAIN f \ S : p[x] = f[x] BY <1>2
<1>4. p = [y \in DOMAIN p |-> p[y]] BY <1>2
<1> HIDE DEF p
<1>5. p \in Maps(V) BY <1>1, <1>3, <1>4, MapsType
<1> QED BY <1>3, <1>5 DEF p

LEMMA WiderMaps ==
  ASSUME NEW V, NEW W, V \subseteq W
  PROVE  Maps(V) \subseteq Maps(W)
  BY DEF Maps

-----------------------------------------------------------------------------
(* Groups *)

LEMMA GroupTabs ==
  ASSUME NEW L, NEW G \in SUBSET Groups(L), Apart(G), NEW g \in G
  PROVE  /\ Members(g) = {g.members[i] : i \in 1 .. Len(g.members)}
         /\ Members(g) \subseteq Window
         /\ ActiveTab(g) \in Members(g)
         /\ ParkedIn(g) \subseteq Members(g)
         /\ ParkedIn(g) # {}
<1>1. g \in Groups(L) /\ g.members \in Seq(Window) /\ Len(g.members) \in Nat
  BY DEF Groups
<1>2. DOMAIN g.members = 1 .. Len(g.members) BY <1>1
<1>3. Len(g.members) > 1 /\ g.active \in 1 .. Len(g.members)
      /\ \A i, j \in 1 .. Len(g.members) : g.members[i] = g.members[j] => i = j
  BY DEF Apart
<1>4. Members(g) = {g.members[i] : i \in 1 .. Len(g.members)} BY <1>2 DEF Members, Range
<1>5. \A i \in 1 .. Len(g.members) : g.members[i] \in Window BY <1>1
<1>6. PICK i \in 1 .. Len(g.members) : i # g.active BY <1>1, <1>3
<1>7. g.members[i] \in ParkedIn(g) BY <1>3, <1>4, <1>6 DEF ParkedIn, ActiveTab
<1> QED BY <1>3, <1>4, <1>5, <1>7 DEF ParkedIn, ActiveTab

\* The same groups, perhaps with other homes.
Retabbed(G, H) ==
  \E f \in [H -> G] : /\ G = {f[h] : h \in H}
                      /\ \A h \in H : f[h].members = h.members /\ f[h].active = h.active

LEMMA RetabbedSame ==
  ASSUME NEW G
  PROVE  Retabbed(G, G)
<1>1. [h \in G |-> h] \in [G -> G] OBVIOUS
<1> QED BY <1>1 DEF Retabbed

LEMMA RetabbedTwice ==
  ASSUME NEW F, NEW G, NEW H, Retabbed(F, G), Retabbed(G, H)
  PROVE  Retabbed(F, H)
<1>1. PICK f \in [G -> F] : /\ F = {f[h] : h \in G}
                            /\ \A h \in G : f[h].members = h.members /\ f[h].active = h.active
  BY DEF Retabbed
<1>2. PICK k \in [H -> G] : /\ G = {k[h] : h \in H}
                            /\ \A h \in H : k[h].members = h.members /\ k[h].active = h.active
  BY DEF Retabbed
<1> DEFINE c == [h \in H |-> f[k[h]]]
<1>3. c \in [H -> F] BY <1>1, <1>2
<1>4. F = {c[h] : h \in H} BY <1>1, <1>2
<1>5. \A h \in H : c[h].members = h.members /\ c[h].active = h.active BY <1>1, <1>2
<1> QED BY <1>3, <1>4, <1>5 DEF Retabbed

\* Which tabs there are, and which are parked, does not depend on the homes.
LEMMA RetabbedApart ==
  ASSUME NEW G, NEW H, Retabbed(G, H), Apart(H)
  PROVE  /\ Apart(G)
         /\ UNION {ParkedIn(g) : g \in G} = UNION {ParkedIn(h) : h \in H}
<1>1. PICK f \in [H -> G] : /\ G = {f[h] : h \in H}
                            /\ \A h \in H : f[h].members = h.members /\ f[h].active = h.active
  BY DEF Retabbed
<1>2. \A h \in H : Members(f[h]) = Members(h) /\ ParkedIn(f[h]) = ParkedIn(h)
  BY <1>1 DEF Members, ParkedIn, ActiveTab
<1>3. \A g \in G : \E h \in H : g = f[h] BY <1>1
<1>4. ASSUME NEW g \in G
      PROVE  /\ Len(g.members) > 1 /\ g.active \in 1 .. Len(g.members)
             /\ \A i, j \in 1 .. Len(g.members) : g.members[i] = g.members[j] => i = j
  <2>1. PICK h \in H : g = f[h] BY <1>3
  <2>2. g.members = h.members /\ g.active = h.active BY <1>1, <2>1
  <2> QED BY <2>2 DEF Apart
<1>5. ASSUME NEW g \in G, NEW g2 \in G, NEW w \in Window, w \in Members(g), w \in Members(g2)
      PROVE  g = g2
  <2>1. PICK h \in H : g = f[h] BY <1>3
  <2>2. PICK h2 \in H : g2 = f[h2] BY <1>3
  <2>3. w \in Members(h) /\ w \in Members(h2) BY <1>2, <1>5, <2>1, <2>2
  <2>4. h = h2 BY <2>3 DEF Apart
  <2> QED BY <2>1, <2>2, <2>4
<1>6. Apart(G) BY <1>4, <1>5 DEF Apart
<1>7. {ParkedIn(g) : g \in G} = {ParkedIn(h) : h \in H} BY <1>1, <1>2
<1> QED BY <1>6, <1>7

-----------------------------------------------------------------------------
(* What an operation leaves alone *)

\* The same windows with the same kind of owner, perhaps elsewhere.
Rearranged(e, d) ==
  /\ e.live = d.live /\ e.mapped = d.mapped
  /\ DOMAIN e.tile = DOMAIN d.tile /\ DOMAIN e.tag = DOMAIN d.tag
  /\ Retabbed(e.groups, d.groups)

\* The same owners.
Same(e, d) ==
  /\ e.live = d.live /\ e.active = d.active /\ e.mapped = d.mapped
  /\ e.tile = d.tile /\ e.tag = d.tag /\ e.groups = d.groups

\* The same trees and the same groups.
Still(e, d) == e.tile = d.tile /\ e.groups = d.groups

\* The same groups, and the same tiles but for one window.
Loose(e, d, w) ==
  /\ e.groups = d.groups
  /\ \A x \in DOMAIN d.tile \ {w} : x \in DOMAIN e.tile /\ e.tile[x] = d.tile[x]

LEMMA SameStill ==
  ASSUME NEW d, NEW e, Same(e, d)
  PROVE  Still(e, d)
  BY DEF Same, Still

LEMMA StillTwice ==
  ASSUME NEW d, NEW e, NEW f, Still(f, e), Still(e, d)
  PROVE  Still(f, d)
  BY DEF Still

LEMMA StillLoose ==
  ASSUME NEW d, NEW e, NEW w, Still(e, d)
  PROVE  Loose(e, d, w)
  BY DEF Still, Loose

LEMMA LooseTwice ==
  ASSUME NEW d, NEW e, NEW f, NEW w, Loose(f, e, w), Loose(e, d, w)
  PROVE  Loose(f, d, w)
  BY DEF Loose

LEMMA SameTwice ==
  ASSUME NEW d, NEW e, NEW f, Same(f, e), Same(e, d)
  PROVE  Same(f, d)
  BY DEF Same

LEMMA RearrangedTwice ==
  ASSUME NEW d, NEW e, NEW f, Rearranged(f, e), Rearranged(e, d)
  PROVE  Rearranged(f, d)
  BY RetabbedTwice DEF Rearranged

LEMMA SameRearranged ==
  ASSUME NEW d, NEW e, Same(e, d)
  PROVE  Rearranged(e, d)
  BY RetabbedSame DEF Same, Rearranged

\* A desk of which only the places change is held where they are now.
LEMMA RearrangedHeld ==
  ASSUME NEW L, NEW d, Held(d, L), NEW K \in SUBSET Output, NEW e \in Desks(K),
         e.mapped = d.mapped,
         DOMAIN e.tile = DOMAIN d.tile, DOMAIN e.tag = DOMAIN d.tag,
         Retabbed(e.groups, d.groups),
         e.shown \subseteq DOMAIN d.tile \cup DOMAIN d.tag
  PROVE  Held(e, K)
<1>1. Apart(e.groups) /\ Parked(e) = Parked(d)
  BY RetabbedApart DEF Parked, Held
<1> QED BY <1>1 DEF Held, Once

\* The visible tab of every group is a tile of the group's home.
Leafed(d) == \A g \in d.groups :
               ActiveTab(g) \in DOMAIN d.tile /\ d.tile[ActiveTab(g)] = g.home

LEMMA StillLeafed ==
  ASSUME NEW d, NEW e, Still(e, d), Leafed(d)
  PROVE  Leafed(e)
  BY DEF Still, Leafed

LEMMA LooseLeafed ==
  ASSUME NEW L, NEW d, Held(d, L), NEW e, NEW w, Loose(e, d, w), ~IsGrouped(d, w), Leafed(d)
  PROVE  Leafed(e)
<1>1. d.groups \in SUBSET Groups(L) /\ Apart(d.groups) BY DEF Held, Desks
<1>2. \A g \in d.groups : ActiveTab(g) \in Members(g) BY <1>1, GroupTabs
<1>3. \A g \in d.groups : ActiveTab(g) # w BY <1>2 DEF IsGrouped
<1> QED BY <1>3 DEF Leafed, Loose

\* The trees and the groups move to other places together.
Relocated(e, d, f) ==
  /\ \A w \in DOMAIN d.tile : w \in DOMAIN e.tile /\ e.tile[w] = f[d.tile[w]]
  /\ \A g \in e.groups : \E h \in d.groups : ActiveTab(g) = ActiveTab(h) /\ g.home = f[h.home]

LEMMA RelocatedLeafed ==
  ASSUME NEW d, NEW e, NEW f, Relocated(e, d, f), Leafed(d)
  PROVE  Leafed(e)
  BY DEF Relocated, Leafed

\* Of a desk with the same owners, the modes may be any.
LEMMA SameHeld ==
  ASSUME NEW L, NEW d, Held(d, L), NEW e, Same(e, d), e \in Desks(L),
         e.shown \subseteq DOMAIN d.tile \cup DOMAIN d.tag
  PROVE  Held(e, L)
<1>1. Rearranged(e, d) BY SameRearranged
<1> QED BY <1>1, RearrangedHeld DEF Rearranged, Held

LEMMA RetileKeeps ==
  ASSUME NEW L, NEW d, Held(d, L)
  PROVE  /\ Held(Retile(d), L) /\ Same(Retile(d), d)
         /\ Retile(d).full = d.full /\ Retile(d).pinned = d.pinned
         /\ d.shown \subseteq Retile(d).shown
<1> DEFINE shown == d.shown \cup {w \in DOMAIN d.tile :
                                   d.tile[w][1] \in d.live /\ IsActive(d, d.tile[w])}
           e == Retile(d)
<1>1. d \in Desks(L) BY DEF Held
<1>2. shown \subseteq DOMAIN d.tile \cup DOMAIN d.tag BY DEF Held
<1>3. shown \subseteq Window BY <1>1, <1>2 DEF Desks, Maps
<1>4. e = [d EXCEPT !.shown = shown] BY <1>1 DEF Retile, Desks
<1> HIDE DEF shown, e
<1>5. e \in Desks(L) /\ e.shown = shown /\ e.full = d.full /\ e.pinned = d.pinned
  BY <1>1, <1>3, <1>4 DEF Desks
<1>6. Same(e, d) BY <1>1, <1>4 DEF Desks, Same
<1>7. Held(e, L) BY <1>2, <1>5, <1>6, SameHeld
<1> QED BY <1>5, <1>6, <1>7 DEF shown, e

LEMMA HiddenKeeps ==
  ASSUME NEW L, NEW d, Held(d, L), NEW S
  PROVE  Held(Hidden(d, S), L) /\ Same(Hidden(d, S), d) /\ Hidden(d, S).shown = d.shown \ S
         /\ Hidden(d, S).pinned = d.pinned
<1> DEFINE e == Hidden(d, S)
<1>1. d \in Desks(L) /\ d.shown \subseteq DOMAIN d.tile \cup DOMAIN d.tag BY DEF Held
<1>2. /\ e \in Desks(L) /\ Same(e, d) /\ e.shown = d.shown \ S /\ e.pinned = d.pinned
  BY <1>1 DEF Hidden, Desks, Same
<1> HIDE DEF e
<1>3. Held(e, L) BY <1>1, <1>2, SameHeld
<1> QED BY <1>2, <1>3 DEF e

LEMMA ShownKeeps ==
  ASSUME NEW L, NEW d, Held(d, L), NEW S, S \subseteq DOMAIN d.tile \cup DOMAIN d.tag
  PROVE  Held(Shown(d, S), L) /\ Same(Shown(d, S), d)
<1> DEFINE e == Shown(d, S)
<1>1. d \in Desks(L) /\ d.shown \subseteq DOMAIN d.tile \cup DOMAIN d.tag BY DEF Held
<1>2. S \subseteq Window BY <1>1 DEF Desks, Maps
<1>3. /\ e \in Desks(L) /\ Same(e, d) /\ e.shown = d.shown \cup S
  BY <1>1, <1>2 DEF Shown, Desks, Same
<1> HIDE DEF e
<1>4. Held(e, L) BY <1>1, <1>3, SameHeld
<1> QED BY <1>3, <1>4 DEF e

-----------------------------------------------------------------------------
(* Fullscreen and maximized *)

LEMMA UnfullscreenKeeps ==
  ASSUME NEW L, NEW d, Held(d, L), NEW w \in Window
  PROVE  Held(Unfullscreen(d, w), L) /\ Same(Unfullscreen(d, w), d)
<1>1. d \in Desks(L) /\ d.shown \subseteq DOMAIN d.tile \cup DOMAIN d.tag BY DEF Held
<1>2. CASE ~IsFull(d, w) BY <1>2 DEF Unfullscreen, Same
<1>3. CASE IsFull(d, w)
  <2> DEFINE was == d.full[w].wasPinned
             shown == IF was /\ IsTagged(d, w) THEN d.shown \cup {w} ELSE d.shown
             pinned == IF was THEN d.pinned \cup {w} ELSE d.pinned
             tiled == [d EXCEPT !.full = Drop(@, {w}), !.maxi = Drop(@, {w})]
             other == [d EXCEPT !.full = Drop(@, {w}), !.shown = shown, !.pinned = pinned]
  <2>1. Drop(d.full, {w}) \in Maps(FullscreenEntry) /\ Drop(d.maxi, {w}) \in Maps(Output)
    BY <1>1, DropMaps DEF Desks
  <2>2. shown \subseteq Window /\ pinned \subseteq Window
        /\ shown \subseteq DOMAIN d.tile \cup DOMAIN d.tag
    BY <1>1 DEF Desks, IsTagged
  <2>3. Unfullscreen(d, w) = IF IsTiled(d, w) THEN Retile(tiled) ELSE Retile(other)
    BY <1>1, <1>3 DEF Unfullscreen, Desks, IsTagged
  <2>4. Held(tiled, L) /\ Same(tiled, d)
    <3>1. tiled \in Desks(L) /\ Same(tiled, d) /\ tiled.shown = d.shown
      BY <1>1, <2>1 DEF Desks, Same
    <3> HIDE DEF tiled
    <3> QED BY <1>1, <3>1, SameHeld
  <2>5. Held(other, L) /\ Same(other, d)
    <3> HIDE DEF shown, pinned
    <3>1. other \in Desks(L) /\ Same(other, d) /\ other.shown = shown
      BY <1>1, <2>1, <2>2 DEF Desks, Same
    <3> HIDE DEF other
    <3> QED BY <2>2, <3>1, SameHeld
  <2> HIDE DEF tiled, other
  <2> QED BY <2>3, <2>4, <2>5, RetileKeeps, SameTwice
<1> QED BY <1>2, <1>3

LEMMA DemotedKeeps ==
  ASSUME NEW L, NEW d, Held(d, L), NEW S, NEW o
  PROVE  Held(Demoted(d, S, o), L) /\ Same(Demoted(d, S, o), d)
<1> DEFINE owners == {x \in DOMAIN d.full \ S : d.full[x].output = o}
           x == CHOOSE y \in owners : TRUE
<1>1. Demoted(d, S, o) = IF owners = {} THEN d ELSE Unfullscreen(d, x) BY DEF Demoted
<1>2. DOMAIN d.full \subseteq Window BY DEF Held, Desks, Maps
<1>3. owners # {} => x \in Window BY <1>2
<1> HIDE DEF owners, x
<1> QED BY <1>1, <1>3, UnfullscreenKeeps DEF Same

LEMMA ActiveKeyType ==
  ASSUME NEW L, NEW d, Held(d, L), NEW o \in L
  PROVE  ActiveKey(d, o) \in Keys(L)
<1>1. L \subseteq Output /\ d.active \in [Output -> Workspace] BY DEF Held, Desks
<1>2. d.active[o] \in Workspace BY <1>1
<1> QED BY <1>2 DEF ActiveKey, Keys

LEMMA FullscreenKeeps ==
  ASSUME NEW L, NEW d, Held(d, L), NEW w \in Window, NEW o \in L
  PROVE  /\ Held(Fullscreen(d, w, o), L) /\ Rearranged(Fullscreen(d, w, o), d)
         /\ Still(Fullscreen(d, w, o), d)
<1> DEFINE e == Demoted(d, {w}, o)
           was == w \in e.pinned \/ (IsFull(e, w) /\ e.full[w].wasPinned)
           rect == \/ IsFull(e, w) /\ e.full[w].hasRect
                   \/ IsMaxi(e, w)
                   \/ w \in e.mapped /\ ~IsTiled(e, w) /\ w \in e.shown
           tag == IF was /\ IsTagged(e, w) THEN Put(e.tag, w, ActiveKey(e, o)) ELSE e.tag
           entry == [output |-> o, wasPinned |-> was, pinFloated |-> FALSE, hasRect |-> rect]
           full == Put(e.full, w, entry)
           r == [e EXCEPT !.pinned = @ \ {w}, !.tag = tag, !.full = full]
<1>1. Held(e, L) /\ Same(e, d) BY DemotedKeeps
<1>2. Fullscreen(d, w, o) = IF IsFull(d, w) /\ d.full[w].output = o THEN Retile(d) ELSE Retile(r)
  <2>1. e \in Desks(L) BY <1>1 DEF Held
  <2> HIDE DEF e
  <2>2. r = [e EXCEPT !.pinned = @ \ {w},
                      !.tag = IF was /\ IsTagged(e, w) THEN Put(@, w, ActiveKey(e, o)) ELSE @,
                      !.full = Put(@, w, [output |-> o, wasPinned |-> was,
                                          pinFloated |-> FALSE, hasRect |-> rect])]
    BY <2>1 DEF Desks
  <2> QED BY <2>2 DEF Fullscreen, e
<1> HIDE DEF e
<1>3. e \in Desks(L) /\ e.shown \subseteq DOMAIN e.tile \cup DOMAIN e.tag /\ o \in Output
  BY <1>1 DEF Held
<1>4. tag \in Maps(Keys(L)) /\ DOMAIN tag = DOMAIN e.tag
  <2>1. ActiveKey(e, o) \in Keys(L) BY <1>1, ActiveKeyType
  <2>2. e.tag \in Maps(Keys(L)) BY <1>3 DEF Desks
  <2>3. CASE was /\ IsTagged(e, w)
    <3>1. w \in DOMAIN e.tag BY <2>3 DEF IsTagged
    <3>2. tag = Put(e.tag, w, ActiveKey(e, o)) BY <2>3
    <3>3. Put(e.tag, w, ActiveKey(e, o)) \in Maps(Keys(L))
          /\ DOMAIN Put(e.tag, w, ActiveKey(e, o)) = DOMAIN e.tag \cup {w}
      <4> DEFINE k == ActiveKey(e, o)
      <4>1. k \in Keys(L) BY <2>1
      <4> HIDE DEF k
      <4>2. Put(e.tag, w, k) \in Maps(Keys(L)) /\ DOMAIN Put(e.tag, w, k) = DOMAIN e.tag \cup {w}
        <5>1. Put(e.tag, w, k) \in Maps(Keys(L)) BY <2>2, <4>1, PutMaps
        <5>2. DOMAIN Put(e.tag, w, k) = DOMAIN e.tag \cup {w} BY <2>2, <4>1, PutMaps
        <5> QED BY <5>1, <5>2
      <4> QED BY <4>2 DEF k
    <3> QED BY <3>1, <3>2, <3>3
  <2>4. CASE ~(was /\ IsTagged(e, w))
    <3> HIDE DEF was
    <3> QED BY <2>2, <2>4
  <2> QED BY <2>3, <2>4
<1>5. full \in Maps(FullscreenEntry)
  <2>0. e.full \in Maps(FullscreenEntry) BY <1>3 DEF Desks
  <2>1. \A x \in DOMAIN e.full : e.full[x] \in FullscreenEntry BY <2>0, MapsType
  <2>2. was \in BOOLEAN
    <3>1. IsFull(e, w) => e.full[w].wasPinned \in BOOLEAN BY <2>1 DEF IsFull, FullscreenEntry
    <3> QED BY <3>1
  <2>3. rect \in BOOLEAN
    <3>1. IsFull(e, w) => e.full[w].hasRect \in BOOLEAN BY <2>1 DEF IsFull, FullscreenEntry
    <3> QED BY <3>1
  <2> HIDE DEF was, rect
  <2>4. entry \in FullscreenEntry BY <1>3, <2>2, <2>3 DEF FullscreenEntry
  <2> HIDE DEF entry
  <2> QED BY <2>0, <2>4, PutMaps
<1>6. Held(r, L) /\ Rearranged(r, e) /\ Still(r, e)
  <2> HIDE DEF tag, full
  <2>1. /\ r \in Desks(L) /\ r.live = e.live /\ r.mapped = e.mapped /\ r.tile = e.tile /\ r.tag = tag
        /\ r.groups = e.groups /\ r.shown = e.shown
    BY <1>3, <1>4, <1>5 DEF Desks
  <2> HIDE DEF r
  <2>2. Retabbed(r.groups, e.groups) BY <2>1, RetabbedSame
  <2>3. L \subseteq Output BY <1>1 DEF Held
  <2>4. Held(r, L) BY <1>1, <1>3, <1>4, <2>1, <2>2, <2>3, RearrangedHeld
  <2> QED BY <1>4, <2>1, <2>2, <2>4 DEF Rearranged, Still
<1> HIDE DEF r
<1>7. Held(Retile(r), L) /\ Rearranged(Retile(r), d) /\ Still(Retile(r), d)
  <2>1. Held(Retile(r), L) /\ Same(Retile(r), r) BY <1>6, RetileKeeps
  <2>2. Rearranged(e, d) /\ Rearranged(Retile(r), r) BY <1>1, <2>1, SameRearranged
  <2>3. Still(e, d) /\ Still(Retile(r), r) BY <1>1, <2>1, SameStill
  <2>4. Rearranged(Retile(r), d) BY <1>6, <2>2, RearrangedTwice
  <2>5. Still(Retile(r), d) BY <1>6, <2>3, StillTwice
  <2> QED BY <2>1, <2>4, <2>5
<1>8. Held(Retile(d), L) /\ Rearranged(Retile(d), d) /\ Still(Retile(d), d)
  BY RetileKeeps, SameRearranged, SameStill
<1> QED BY <1>2, <1>7, <1>8

LEMMA MaximizeKeeps ==
  ASSUME NEW L, NEW d, Held(d, L), NEW w \in Window, NEW o \in Output
  PROVE  Held(Maximize(d, w, o), L) /\ Same(Maximize(d, w, o), d)
<1> DEFINE off == [d EXCEPT !.maxi = Drop(@, {w})]
           on == [d EXCEPT !.maxi = Put(@, w, o)]
<1>1. d \in Desks(L) /\ d.shown \subseteq DOMAIN d.tile \cup DOMAIN d.tag BY DEF Held
<1>2. Drop(d.maxi, {w}) \in Maps(Output) /\ Put(d.maxi, w, o) \in Maps(Output)
  BY <1>1, DropMaps, PutMaps DEF Desks
<1>3. off \in Desks(L) /\ Same(off, d) /\ off.shown = d.shown
  BY <1>1, <1>2 DEF Desks, Same
<1>4. on \in Desks(L) /\ Same(on, d) /\ on.shown = d.shown
  BY <1>1, <1>2 DEF Desks, Same
<1>5. Maximize(d, w, o) \in {off, d, Retile(d), Retile(on)} BY DEF Maximize
<1> HIDE DEF off, on
<1>6. Held(off, L) /\ Held(on, L) BY <1>1, <1>3, <1>4, SameHeld
<1>7. Held(Retile(d), L) /\ Same(Retile(d), d) BY RetileKeeps
<1>8. Held(Retile(on), L) /\ Same(Retile(on), d) BY <1>4, <1>6, RetileKeeps, SameTwice
<1>9. Same(d, d) BY DEF Same
<1> QED BY <1>3, <1>5, <1>6, <1>7, <1>8, <1>9

LEMMA UnmaximizeKeeps ==
  ASSUME NEW L, NEW d, Held(d, L), NEW w
  PROVE  Held(Unmaximize(d, w), L) /\ Same(Unmaximize(d, w), d)
<1> DEFINE off == [d EXCEPT !.maxi = Drop(@, {w})]
<1>1. d \in Desks(L) /\ d.shown \subseteq DOMAIN d.tile \cup DOMAIN d.tag BY DEF Held
<1>2. Drop(d.maxi, {w}) \in Maps(Output) BY <1>1, DropMaps DEF Desks
<1>3. off \in Desks(L) /\ Same(off, d) /\ off.shown = d.shown BY <1>1, <1>2 DEF Desks, Same
<1>4. Unmaximize(d, w) \in {off, Retile(off)} BY DEF Unmaximize
<1> HIDE DEF off
<1>5. Held(off, L) BY <1>1, <1>3, SameHeld
<1> QED BY <1>3, <1>4, <1>5, RetileKeeps, SameTwice

-----------------------------------------------------------------------------
(* Pseudo-tiles, output pins and nudges *)

LEMMA TogglePseudoKeeps ==
  ASSUME NEW L, NEW d, Held(d, L), NEW w \in Window
  PROVE  Held(TogglePseudo(d, w), L) /\ Same(TogglePseudo(d, w), d)
<1> DEFINE e == [d EXCEPT !.pseudo = IF w \in @ THEN @ \ {w} ELSE @ \cup {w}]
<1>1. d \in Desks(L) /\ d.shown \subseteq DOMAIN d.tile \cup DOMAIN d.tag BY DEF Held
<1>2. e \in Desks(L) /\ Same(e, d) /\ e.shown = d.shown BY <1>1 DEF Desks, Same
<1>3. TogglePseudo(d, w) \in {d, Retile(e)} BY DEF TogglePseudo
<1> HIDE DEF e
<1>4. Held(e, L) BY <1>1, <1>2, SameHeld
<1>5. Same(d, d) BY DEF Same
<1> QED BY <1>2, <1>3, <1>4, <1>5, RetileKeeps, SameTwice

LEMMA RenderedLive ==
  ASSUME NEW L, NEW d, Held(d, L), NEW w
  PROVE  Rendered(d, w) \in d.live \cup {NoOutput}
  BY DEF Rendered, Live

LEMMA ToggleOutputPinKeeps ==
  ASSUME NEW L, NEW d, Held(d, L), NEW w \in Window, "outputPins" \in Features
  PROVE  Held(ToggleOutputPin(d, w), L) /\ Same(ToggleOutputPin(d, w), d)
<1> DEFINE off == [d EXCEPT !.pin = Drop(@, {w})]
           on == [d EXCEPT !.pin = Put(@, w, Rendered(d, w))]
<1>1. d \in Desks(L) /\ d.shown \subseteq DOMAIN d.tile \cup DOMAIN d.tag BY DEF Held
<1>2. ToggleOutputPin(d, w) = IF w \in DOMAIN d.pin THEN off
                              ELSE IF Rendered(d, w) = NoOutput THEN d ELSE on
  BY DEF ToggleOutputPin
<1>3. off \in Desks(L) /\ Same(off, d) /\ off.shown = d.shown
  <2>1. Drop(d.pin, {w}) \in Maps(PinOutput) BY <1>1, DropMaps DEF Desks
  <2> QED BY <1>1, <2>1 DEF Desks, Same
<1>4. Rendered(d, w) # NoOutput => on \in Desks(L) /\ Same(on, d) /\ on.shown = d.shown
  <2>1. SUFFICES ASSUME Rendered(d, w) # NoOutput
                 PROVE  on \in Desks(L) /\ Same(on, d) /\ on.shown = d.shown
    OBVIOUS
  <2>2. Rendered(d, w) \in PinOutput BY <2>1, RenderedLive DEF Held, Desks, PinOutput
  <2>3. Put(d.pin, w, Rendered(d, w)) \in Maps(PinOutput) BY <1>1, <2>2, PutMaps DEF Desks
  <2> QED BY <1>1, <2>3 DEF Desks, Same
<1>5. Same(d, d) BY DEF Same
<1> HIDE DEF off, on
<1> QED BY <1>1, <1>2, <1>3, <1>4, <1>5, SameHeld

LEMMA NudgeKeeps ==
  ASSUME NEW L, NEW d, Held(d, L), NEW w \in Window, NEW o \in Output
  PROVE  Held(Nudge(d, w, o), L) /\ Same(Nudge(d, w, o), d)
<1>1. d \in Desks(L) /\ d.shown \subseteq DOMAIN d.tile \cup DOMAIN d.tag BY DEF Held
<1>2. Put(d.over, w, o) \in Maps(Output) BY <1>1, PutMaps DEF Desks
<1> DEFINE e == Nudge(d, w, o)
<1>3. e \in Desks(L) /\ Same(e, d) /\ e.shown = d.shown BY <1>1, <1>2 DEF Desks, Same, Nudge
<1> HIDE DEF e
<1>4. Held(e, L) BY <1>1, <1>3, SameHeld
<1> QED BY <1>3, <1>4 DEF e

-----------------------------------------------------------------------------
(* Windows that keep their kind of owner and change its place *)

\* The desk e is held on the outputs L and only rearranges d.
Kept(e, d, L) == Held(e, L) /\ Rearranged(e, d)

LEMMA KeptTwice ==
  ASSUME NEW L, NEW d, NEW e, NEW f, Kept(f, e, L), Kept(e, d, L)
  PROVE  Kept(f, d, L)
  BY RearrangedTwice DEF Kept

LEMMA KeptSame ==
  ASSUME NEW L, NEW d, NEW e, Held(e, L), Same(e, d)
  PROVE  Kept(e, d, L)
  BY SameRearranged DEF Kept

LEMMA RetileKept ==
  ASSUME NEW L, NEW d, NEW e, Kept(e, d, L)
  PROVE  Kept(Retile(e), d, L) /\ Still(Retile(e), e)
<1>1. Held(e, L) BY DEF Kept
<1>2. Kept(Retile(e), e, L) /\ Still(Retile(e), e) BY <1>1, RetileKeeps, KeptSame, SameStill
<1> QED BY <1>2, KeptTwice

\* How an operation that changes places shows that it keeps the desk.
LEMMA KeptPlaces ==
  ASSUME NEW L, NEW d, Held(d, L), NEW e \in Desks(L),
         e.live = d.live, e.mapped = d.mapped, Retabbed(e.groups, d.groups),
         DOMAIN e.tile = DOMAIN d.tile, DOMAIN e.tag = DOMAIN d.tag,
         e.shown \subseteq DOMAIN d.tile \cup DOMAIN d.tag
  PROVE  Kept(e, d, L)
<1>1. L \in SUBSET Output BY DEF Held
<1>2. Held(e, L) BY <1>1, RearrangedHeld
<1> QED BY <1>2 DEF Kept, Rearranged

LEMMA Overwritten ==
  ASSUME NEW V, NEW f \in Maps(V), NEW S, NEW u, \A w \in S : u[w] \in V
  PROVE  [w \in DOMAIN f |-> IF w \in S THEN u[w] ELSE f[w]] \in Maps(V)
<1> DEFINE r == [w \in DOMAIN f |-> IF w \in S THEN u[w] ELSE f[w]]
<1>1. DOMAIN f \subseteq Window /\ \A w \in DOMAIN f : f[w] \in V BY MapsType
<1>2. DOMAIN r = DOMAIN f OBVIOUS
<1>3. r = [w \in DOMAIN r |-> r[w]] OBVIOUS
<1>4. \A w \in DOMAIN r : r[w] \in V BY <1>1
<1> HIDE DEF r
<1>5. r \in Maps(V) BY <1>1, <1>2, <1>3, <1>4, MapsType
<1> QED BY <1>5 DEF r

LEMMA TaggedKept ==
  ASSUME NEW L, NEW d, Held(d, L), NEW w \in DOMAIN d.tag, NEW k \in Keys(L)
  PROVE  /\ Kept(Tagged(d, w, k), d, L)
         /\ Tagged(d, w, k).shown = d.shown /\ Still(Tagged(d, w, k), d)
<1> DEFINE e == Tagged(d, w, k)
<1>1. d \in Desks(L) /\ d.shown \subseteq DOMAIN d.tile \cup DOMAIN d.tag BY DEF Held
<1>2. d.tag \in Maps(Keys(L)) BY <1>1 DEF Desks
<1>3. w \in Window BY <1>2, MapsType
<1>4. Put(d.tag, w, k) \in Maps(Keys(L)) BY <1>2, <1>3, PutMaps
<1>5. DOMAIN Put(d.tag, w, k) = DOMAIN d.tag BY DEF Put
<1>6. /\ e \in Desks(L) /\ e.live = d.live /\ e.mapped = d.mapped /\ e.groups = d.groups
      /\ e.tile = d.tile /\ e.tag = Put(d.tag, w, k) /\ e.shown = d.shown
  BY <1>1, <1>4 DEF Desks, Tagged
<1> HIDE DEF e
<1>7. Kept(e, d, L) BY <1>1, <1>5, <1>6, RetabbedSame, KeptPlaces
<1> QED BY <1>6, <1>7 DEF e, Still

LEMMA TiledKept ==
  ASSUME NEW L, NEW d, Held(d, L), NEW w \in DOMAIN d.tile, NEW k \in Keys(L)
  PROVE  Kept(Tiled(d, w, k), d, L) /\ Loose(Tiled(d, w, k), d, w)
<1> DEFINE e == Tiled(d, w, k)
<1>1. d \in Desks(L) /\ d.shown \subseteq DOMAIN d.tile \cup DOMAIN d.tag BY DEF Held
<1>2. d.tile \in Maps(Keys(L)) BY <1>1 DEF Desks
<1>3. w \in Window BY <1>2, MapsType
<1>4. Put(d.tile, w, k) \in Maps(Keys(L)) BY <1>2, <1>3, PutMaps
<1>5. DOMAIN Put(d.tile, w, k) = DOMAIN d.tile BY DEF Put
<1>6. /\ e \in Desks(L) /\ e.live = d.live /\ e.mapped = d.mapped /\ e.groups = d.groups
      /\ e.tag = d.tag /\ e.tile = Put(d.tile, w, k) /\ e.shown = d.shown
  BY <1>1, <1>4 DEF Desks, Tiled
<1> HIDE DEF e
<1>7. Kept(e, d, L) BY <1>1, <1>5, <1>6, RetabbedSame, KeptPlaces
<1>8. \A x \in DOMAIN d.tile \ {w} : Put(d.tile, w, k)[x] = d.tile[x] BY DEF Put
<1>9. Loose(e, d, w) BY <1>5, <1>6, <1>8 DEF Loose
<1> QED BY <1>7, <1>9 DEF e

LEMMA SyncFloatingKept ==
  ASSUME NEW L, NEW d, Held(d, L), NEW w
  PROVE  Kept(SyncFloating(d, w), d, L) /\ Still(SyncFloating(d, w), d)
<1> DEFINE at == IF Rendered(d, w) # NoOutput THEN Rendered(d, w) ELSE Live(d, d.tag[w][1])
           o == IF at # NoOutput \/ d.live = {} THEN at ELSE CHOOSE x \in d.live : TRUE
<1>1. SyncFloating(d, w) = IF IsFull(d, w) \/ IsMaxi(d, w) \/ ~IsTagged(d, w) \/ w \notin d.shown
                           THEN d ELSE IF o = NoOutput THEN d ELSE Tagged(d, w, ActiveKey(d, o))
  BY DEF SyncFloating
<1>2. at \in d.live \cup {NoOutput} BY RenderedLive DEF Live
<1>3. o \in d.live \cup {NoOutput} BY <1>2
<1>4. Kept(d, d, L) /\ Still(d, d) BY KeptSame DEF Same, Still
<1>5. CASE o = NoOutput \/ ~IsTagged(d, w) BY <1>1, <1>4, <1>5
<1>6. CASE o # NoOutput /\ IsTagged(d, w)
  <2> HIDE DEF o
  <2>1. o \in L BY <1>3, <1>6 DEF Held, Desks
  <2>2. ActiveKey(d, o) \in Keys(L) BY <2>1, ActiveKeyType
  <2>3. Kept(Tagged(d, w, ActiveKey(d, o)), d, L) /\ Still(Tagged(d, w, ActiveKey(d, o)), d)
    BY <1>6, <2>2, TaggedKept DEF IsTagged
  <2> QED BY <1>1, <1>4, <2>3
<1> QED BY <1>5, <1>6

LEMMA SwitchKept ==
  ASSUME NEW L, NEW d, Held(d, L), NEW o \in Output, NEW n \in Workspace
  PROVE  Kept(Switch(d, o, n), d, L) /\ Still(Switch(d, o, n), d)
<1> DEFINE left == TilesOf(d, ActiveKey(d, o)) \cup FloatersOf(d, ActiveKey(d, o))
           came == FloatersOf(d, <<o, n>>)
           e == [Hidden(d, left) EXCEPT !.active[o] = n, !.shown = @ \cup came]
<1>1. d \in Desks(L) /\ d.shown \subseteq DOMAIN d.tile \cup DOMAIN d.tag BY DEF Held
<1>2. came \subseteq DOMAIN d.tag BY DEF FloatersOf
<1>3. came \subseteq Window BY <1>1, <1>2 DEF Desks, Maps
<1>4. Switch(d, o, n) = IF n = d.active[o] THEN d ELSE Retile(e) BY DEF Switch
<1> HIDE DEF left, came
<1>5. /\ e \in Desks(L) /\ e.live = d.live /\ e.mapped = d.mapped /\ e.groups = d.groups
      /\ e.tile = d.tile /\ e.tag = d.tag /\ e.shown = (d.shown \ left) \cup came
  BY <1>1, <1>3 DEF Desks, Hidden
<1> HIDE DEF e
<1>6. Kept(e, d, L) BY <1>1, <1>2, <1>5, RetabbedSame, KeptPlaces
<1>7. Kept(d, d, L) BY KeptSame DEF Same
<1>8. Still(e, d) /\ Still(d, d) BY <1>5 DEF Still
<1>9. Kept(Retile(e), d, L) /\ Still(Retile(e), d) BY <1>6, <1>8, RetileKept, StillTwice
<1> QED BY <1>4, <1>7, <1>8, <1>9

LEMMA MoveToWorkspaceKept ==
  ASSUME NEW L, NEW d, Held(d, L), NEW w, NEW n \in Workspace
  PROVE  Kept(MoveToWorkspace(d, w, n), d, L) /\ Loose(MoveToWorkspace(d, w, n), d, w)
<1> DEFINE Good(x) == Kept(x, d, L) /\ Loose(x, d, w)
<1>1. Good(d) BY KeptSame DEF Same, Loose
<1>0. ASSUME NEW e, NEW f, Good(e), Held(f, L), Same(f, e) PROVE Good(f)
  <2>1. Kept(f, e, L) /\ Loose(f, e, w) BY <1>0, KeptSame, SameStill, StillLoose
  <2> QED BY <1>0, <2>1, KeptTwice, LooseTwice
<1>2. d.tile \in Maps(Keys(L)) /\ d.tag \in Maps(Keys(L)) BY DEF Held, Desks
<1>3. \A k \in Keys(L) : <<k[1], n>> \in Keys(L) BY DEF Keys
<1>4. CASE IsTiled(d, w)
  <2> DEFINE k == d.tile[w]
             e == Tiled(d, w, <<k[1], n>>)
  <2>1. MoveToWorkspace(d, w, n) \in {d, Retile(Hidden(e, {w})), Retile(e)}
    BY <1>4 DEF MoveToWorkspace
  <2>2. k \in Keys(L) BY <1>2, <1>4, MapsType DEF IsTiled
  <2>3. <<k[1], n>> \in Keys(L) BY <1>3, <2>2
  <2>4. Good(e) BY <1>4, <2>3, TiledKept DEF IsTiled
  <2> HIDE DEF e
  <2>5. Held(e, L) BY <2>4 DEF Kept
  <2>6. Held(Hidden(e, {w}), L) /\ Same(Hidden(e, {w}), e) BY <2>5, HiddenKeeps
  <2>7. Held(Retile(e), L) /\ Same(Retile(e), e) BY <2>5, RetileKeeps
  <2>8. Held(Retile(Hidden(e, {w})), L) /\ Same(Retile(Hidden(e, {w})), e)
    BY <2>6, RetileKeeps, SameTwice
  <2>9. Good(Retile(Hidden(e, {w}))) /\ Good(Retile(e))
    <3> HIDE DEF Good
    <3> QED BY <1>0, <2>4, <2>7, <2>8
  <2> QED BY <1>1, <2>1, <2>9
<1>5. CASE ~IsTiled(d, w) /\ IsTagged(d, w)
  <2> DEFINE k == d.tag[w]
             e == Tagged(d, w, <<k[1], n>>)
  <2>1. MoveToWorkspace(d, w, n) \in {d, e, Hidden(e, {w}), Retile(Shown(e, {w})), Shown(e, {w})}
    BY <1>5 DEF MoveToWorkspace
  <2>2. k \in Keys(L) BY <1>2, <1>5, MapsType DEF IsTagged
  <2>3. <<k[1], n>> \in Keys(L) BY <1>3, <2>2
  <2>4. Good(e) BY <1>5, <2>3, TaggedKept, StillLoose DEF IsTagged
  <2> HIDE DEF e
  <2>5. Held(e, L) /\ w \in DOMAIN e.tag BY <1>5, <2>4 DEF Kept, Rearranged, IsTagged
  <2>6. Held(Hidden(e, {w}), L) /\ Same(Hidden(e, {w}), e) BY <2>5, HiddenKeeps
  <2>7. Held(Shown(e, {w}), L) /\ Same(Shown(e, {w}), e)
    <3>1. {w} \subseteq DOMAIN e.tile \cup DOMAIN e.tag BY <2>5
    <3> QED BY <2>5, <3>1, ShownKeeps
  <2>8. Held(Retile(Shown(e, {w})), L) /\ Same(Retile(Shown(e, {w})), e)
    BY <2>7, RetileKeeps, SameTwice
  <2>9. Good(Hidden(e, {w})) /\ Good(Shown(e, {w})) /\ Good(Retile(Shown(e, {w})))
    <3> HIDE DEF Good
    <3> QED BY <1>0, <2>4, <2>6, <2>7, <2>8
  <2> QED BY <1>1, <2>1, <2>4, <2>9
<1>6. CASE ~IsTiled(d, w) /\ ~IsTagged(d, w) BY <1>1, <1>6 DEF MoveToWorkspace
<1> QED BY <1>4, <1>5, <1>6

-----------------------------------------------------------------------------
(* Floating and tiling *)

LEMMA EntryMaps ==
  ASSUME NEW f \in Maps(FullscreenEntry), NEW w \in DOMAIN f, NEW e \in FullscreenEntry
  PROVE  [f EXCEPT ![w] = e] \in Maps(FullscreenEntry) /\ DOMAIN [f EXCEPT ![w] = e] = DOMAIN f
<1> DEFINE r == [f EXCEPT ![w] = e]
<1>1. DOMAIN f \subseteq Window /\ \A x \in DOMAIN f : f[x] \in FullscreenEntry BY MapsType
<1>2. DOMAIN r = DOMAIN f /\ r = [x \in DOMAIN r |-> r[x]] OBVIOUS
<1>3. \A x \in DOMAIN r : r[x] \in FullscreenEntry BY <1>1
<1> HIDE DEF r
<1>4. r \in Maps(FullscreenEntry) BY <1>1, <1>2, <1>3, MapsType
<1> QED BY <1>2, <1>4 DEF r

\* The fields of a fullscreen window's entry may be any.
LEMMA EntryKeeps ==
  ASSUME NEW L, NEW d, Held(d, L), NEW w \in DOMAIN d.full, NEW entry \in FullscreenEntry
  PROVE  /\ Held([d EXCEPT !.full = [d.full EXCEPT ![w] = entry]], L)
         /\ Same([d EXCEPT !.full = [d.full EXCEPT ![w] = entry]], d)
         /\ DOMAIN [d EXCEPT !.full = [d.full EXCEPT ![w] = entry]].full = DOMAIN d.full
<1> DEFINE full == [d.full EXCEPT ![w] = entry]
           e == [d EXCEPT !.full = full]
<1>1. d \in Desks(L) /\ d.shown \subseteq DOMAIN d.tile \cup DOMAIN d.tag BY DEF Held
<1>2. d.full \in Maps(FullscreenEntry) BY <1>1 DEF Desks
<1>3. full \in Maps(FullscreenEntry) BY <1>2, EntryMaps
<1>4. DOMAIN full = DOMAIN d.full OBVIOUS
<1> HIDE DEF full
<1>5. e \in Desks(L) /\ Same(e, d) /\ e.shown = d.shown /\ e.full = full
  BY <1>1, <1>3 DEF Desks, Same
<1> HIDE DEF e
<1>6. Held(e, L) BY <1>1, <1>5, SameHeld
<1> QED BY <1>4, <1>5, <1>6 DEF e, full

\* A tile becomes a floater: the window changes its kind of owner.
LEMMA UntileKeeps ==
  ASSUME NEW L, NEW d, Held(d, L), NEW w \in DOMAIN d.tile, NEW k \in Keys(L)
  PROVE  /\ Held(Untile(d, w, k), L)
         /\ Untile(d, w, k).live = d.live /\ Untile(d, w, k).mapped = d.mapped
         /\ Loose(Untile(d, w, k), d, w) /\ Untile(d, w, k).full = d.full
         /\ DOMAIN Untile(d, w, k).tag = DOMAIN d.tag \cup {w}
         /\ DOMAIN Untile(d, w, k).tile = DOMAIN d.tile \ {w}
<1> DEFINE e == Untile(d, w, k)
           tile == Drop(d.tile, {w})
           tag == Put(d.tag, w, k)
           over == Put(d.over, w, k[1])
<1>1. d \in Desks(L) /\ d.shown \subseteq DOMAIN d.tile \cup DOMAIN d.tag /\ L \subseteq Output
      /\ Apart(d.groups) /\ Once(d, d.mapped)
  BY DEF Held
<1>2. d.tile \in Maps(Keys(L)) /\ d.tag \in Maps(Keys(L)) /\ d.over \in Maps(Output) BY <1>1 DEF Desks
<1>3. w \in Window /\ k[1] \in Output BY <1>1, <1>2, MapsType DEF Keys
<1>4. tile \in Maps(Keys(L)) BY <1>2, DropMaps
<1>5. tag \in Maps(Keys(L)) BY <1>2, <1>3, PutMaps
<1>6. over \in Maps(Output) BY <1>2, <1>3, PutMaps
<1>7. DOMAIN tile = DOMAIN d.tile \ {w} /\ DOMAIN tag = DOMAIN d.tag \cup {w}
  BY DEF Drop, Restrict, Put
<1>13. \A x \in DOMAIN d.tile \ {w} : tile[x] = d.tile[x] BY DEF Drop, Restrict
<1> HIDE DEF tile, tag, over
<1>8. e = [d EXCEPT !.tile = tile, !.tag = tag, !.over = over, !.pseudo = @ \ {w}]
  BY <1>1 DEF Untile, Tagged, Desks, tile, tag, over
<1> HIDE DEF e
<1>9. /\ e \in Desks(L) /\ e.live = d.live /\ e.mapped = d.mapped /\ e.groups = d.groups
      /\ e.tile = tile /\ e.tag = tag /\ e.shown = d.shown /\ e.full = d.full
  BY <1>1, <1>4, <1>5, <1>6, <1>8 DEF Desks
<1>10. Once(e, e.mapped) BY <1>1, <1>7, <1>9 DEF Once, Parked
<1>11. e.shown \subseteq DOMAIN e.tile \cup DOMAIN e.tag BY <1>1, <1>7, <1>9
<1>12. Held(e, L) BY <1>1, <1>9, <1>10, <1>11 DEF Held
<1>14. Loose(e, d, w) BY <1>7, <1>9, <1>13 DEF Loose
<1> QED BY <1>7, <1>9, <1>12, <1>14 DEF e

\* A floater becomes a tile.
LEMMA RetiledKeeps ==
  ASSUME NEW L, NEW d, Held(d, L), NEW w \in DOMAIN d.tag, NEW k \in Keys(L)
  PROVE  /\ Held(Retiled(d, w, k), L)
         /\ Retiled(d, w, k).live = d.live /\ Retiled(d, w, k).mapped = d.mapped
         /\ Loose(Retiled(d, w, k), d, w)
         /\ DOMAIN Retiled(d, w, k).full = DOMAIN d.full
<1> DEFINE e == Retiled(d, w, k)
           tile == Put(d.tile, w, k)
           tag == Drop(d.tag, {w})
           full == IF IsFull(d, w) THEN [d.full EXCEPT ![w].wasPinned = FALSE] ELSE d.full
<1>1. d \in Desks(L) /\ d.shown \subseteq DOMAIN d.tile \cup DOMAIN d.tag /\ L \subseteq Output
      /\ Apart(d.groups) /\ Once(d, d.mapped)
  BY DEF Held
<1>2. d.tile \in Maps(Keys(L)) /\ d.tag \in Maps(Keys(L)) /\ d.over \in Maps(Output)
      /\ d.maxi \in Maps(Output) /\ d.full \in Maps(FullscreenEntry)
  BY <1>1 DEF Desks
<1>3. w \in Window BY <1>2, MapsType
<1>4. tag \in Maps(Keys(L)) BY <1>2, DropMaps
<1>5. tile \in Maps(Keys(L)) BY <1>2, <1>3, PutMaps
<1>6. Drop(d.over, {w}) \in Maps(Output) BY <1>2, DropMaps
<1>7. Drop(d.maxi, {w}) \in Maps(Output) BY <1>2, DropMaps
<1>8. full \in Maps(FullscreenEntry) /\ DOMAIN full = DOMAIN d.full
  <2>1. CASE IsFull(d, w)
    <3> DEFINE entry == [d.full[w] EXCEPT !.wasPinned = FALSE]
    <3>1. w \in DOMAIN d.full BY <2>1 DEF IsFull
    <3>2. d.full[w] \in FullscreenEntry BY <1>2, <3>1, MapsType
    <3>3. entry \in FullscreenEntry BY <3>2 DEF FullscreenEntry
    <3>4. full = [d.full EXCEPT ![w] = entry] BY <2>1
    <3> HIDE DEF entry, full
    <3>5. full \in Maps(FullscreenEntry) BY <1>2, <3>1, <3>3, <3>4, EntryMaps
    <3> QED BY <3>4, <3>5
  <2>2. CASE ~IsFull(d, w) BY <1>2, <2>2
  <2> QED BY <2>1, <2>2
<1>9. DOMAIN tile = DOMAIN d.tile \cup {w} /\ DOMAIN tag = DOMAIN d.tag \ {w}
  BY DEF Drop, Restrict, Put
<1>15. \A x \in DOMAIN d.tile \ {w} : tile[x] = d.tile[x] BY DEF Put
<1> HIDE DEF tile, tag, full
<1>10. e = [d EXCEPT !.tile = tile, !.tag = tag, !.over = Drop(d.over, {w}),
                     !.pinned = @ \ {w}, !.maxi = Drop(d.maxi, {w}), !.full = full]
  BY <1>1 DEF Retiled, Tiled, Desks, tile, tag, full, IsFull
<1> HIDE DEF e
<1>11. /\ e \in Desks(L) /\ e.live = d.live /\ e.mapped = d.mapped /\ e.groups = d.groups
       /\ e.tile = tile /\ e.tag = tag /\ e.shown = d.shown /\ e.full = full
  BY <1>1, <1>4, <1>5, <1>6, <1>7, <1>8, <1>10 DEF Desks
<1>12. Once(e, e.mapped) BY <1>1, <1>9, <1>11 DEF Once, Parked
<1>13. e.shown \subseteq DOMAIN e.tile \cup DOMAIN e.tag BY <1>1, <1>9, <1>11
<1>14. Held(e, L) BY <1>1, <1>11, <1>12, <1>13 DEF Held
<1>16. Loose(e, d, w) BY <1>9, <1>11, <1>15 DEF Loose
<1> QED BY <1>8, <1>11, <1>14, <1>16 DEF e

\* A window may change between tile and floater; the tabs stay.
Traded(e, d, L, w) ==
  /\ Held(e, L) /\ e.live = d.live /\ e.mapped = d.mapped /\ Loose(e, d, w)
  /\ DOMAIN e.full = DOMAIN d.full

LEMMA RetileTraded ==
  ASSUME NEW L, NEW d, NEW e, NEW w, Traded(e, d, L, w)
  PROVE  Traded(Retile(e), d, L, w)
<1>1. Held(e, L) BY DEF Traded
<1>2. Held(Retile(e), L) /\ Same(Retile(e), e) /\ Retile(e).full = e.full BY <1>1, RetileKeeps
<1>3. Loose(Retile(e), d, w) BY <1>2, SameStill, StillLoose, LooseTwice DEF Traded
<1> QED BY <1>2, <1>3 DEF Traded, Same

LEMMA ToggleFloatingTraded ==
  ASSUME NEW L, NEW d, Held(d, L), NEW w, NEW o \in L
  PROVE  Traded(ToggleFloating(d, w, o), d, L, w)
<1>1. Traded(d, d, L, w) BY DEF Traded, Loose
<1>2. /\ d.live \subseteq L /\ d.shown \subseteq DOMAIN d.tile \cup DOMAIN d.tag
      /\ d.tile \in Maps(Keys(L)) /\ L \subseteq Output
  BY DEF Held, Desks
<1>3. CASE w \notin d.shown BY <1>1, <1>3 DEF ToggleFloating
<1>4. CASE w \in d.shown /\ IsTiled(d, w)
  <2> DEFINE k == ActiveKey(d, d.tile[w][1])
             e == Untile(d, w, k)
             f == IF IsFull(d, w) THEN [e EXCEPT !.full[w].hasRect = TRUE] ELSE e
  <2>1. ToggleFloating(d, w, o) = Retile(f) BY <1>4 DEF ToggleFloating
  <2>2. d.tile[w] \in Keys(L) BY <1>2, <1>4, MapsType DEF IsTiled
  <2>3. k \in Keys(L) BY <2>2, ActiveKeyType DEF Keys
  <2> HIDE DEF k
  <2>4. Traded(e, d, L, w) /\ e.full = d.full
    <3>1. w \in DOMAIN d.tile BY <1>4 DEF IsTiled
    <3>2. /\ Held(e, L) /\ e.live = d.live /\ e.mapped = d.mapped
          /\ Loose(e, d, w) /\ e.full = d.full
      BY <2>3, <3>1, UntileKeeps
    <3> QED BY <3>2 DEF Traded
  <2> HIDE DEF e
  <2>5. Traded(f, d, L, w)
    <3>1. CASE ~IsFull(d, w) BY <2>4, <3>1
    <3>2. CASE IsFull(d, w)
      <4> DEFINE entry == [e.full[w] EXCEPT !.hasRect = TRUE]
                 g == [e EXCEPT !.full = [e.full EXCEPT ![w] = entry]]
      <4>1. Held(e, L) BY <2>4 DEF Traded
      <4>2. e \in Desks(L) BY <4>1 DEF Held
      <4>3. w \in DOMAIN e.full BY <2>4, <3>2 DEF IsFull
      <4>4. e.full[w] \in FullscreenEntry BY <4>2, <4>3, MapsType DEF Desks
      <4>5. entry \in FullscreenEntry BY <4>4 DEF FullscreenEntry
      <4>6. f = g BY <3>2, <4>2 DEF Desks
      <4> HIDE DEF entry, f
      <4>7. Held(g, L) /\ Same(g, e) /\ DOMAIN g.full = DOMAIN e.full BY <4>1, <4>3, <4>5, EntryKeeps
      <4>8. Loose(g, d, w) BY <2>4, <4>7, SameStill, StillLoose, LooseTwice DEF Traded
      <4> QED BY <2>4, <4>6, <4>7, <4>8 DEF Traded, Same
    <3> QED BY <3>1, <3>2
  <2> HIDE DEF f
  <2> QED BY <2>1, <2>5, RetileTraded
<1>5. CASE w \in d.shown /\ ~IsTiled(d, w)
  <2> DEFINE at == IF Rendered(d, w) # NoOutput THEN Rendered(d, w) ELSE o
             e == Retiled(d, w, ActiveKey(d, at))
  <2>1. ToggleFloating(d, w, o) = IF at = NoOutput THEN d ELSE Retile(e)
    BY <1>5 DEF ToggleFloating
  <2>2. at \in L BY <1>2, RenderedLive
  <2> HIDE DEF at
  <2>3. ActiveKey(d, at) \in Keys(L) BY <2>2, ActiveKeyType
  <2>4. w \in DOMAIN d.tag BY <1>2, <1>5 DEF IsTiled
  <2>5. Traded(e, d, L, w) BY <2>3, <2>4, RetiledKeeps DEF Traded
  <2> HIDE DEF e
  <2> QED BY <1>1, <2>1, <2>5, RetileTraded
<1> QED BY <1>3, <1>4, <1>5

LEMMA TogglePinFullscreenTraded ==
  ASSUME NEW L, NEW d, Held(d, L), NEW w, IsFull(d, w), NEW o \in L
  PROVE  Traded(TogglePinFullscreen(d, w, o), d, L, w)
<1> DEFINE wants == ~d.full[w].wasPinned
           floats == wants /\ IsTiled(d, w)
           undoes == ~wants /\ d.full[w].pinFloated
           e == IF floats \/ undoes THEN ToggleFloating(d, w, o) ELSE d
           entry == [e.full[w] EXCEPT !.wasPinned = wants, !.pinFloated = wants /\ (floats \/ @)]
           g == [e EXCEPT !.full = [e.full EXCEPT ![w] = entry]]
<1>1. Traded(e, d, L, w) BY ToggleFloatingTraded DEF Traded, Loose
<1>2. TogglePinFullscreen(d, w, o) = [e EXCEPT !.full[w] = entry] BY DEF TogglePinFullscreen
<1> HIDE DEF e
<1>3. Held(e, L) BY <1>1 DEF Traded
<1>4. e \in Desks(L) BY <1>3 DEF Held
<1>5. w \in DOMAIN e.full BY <1>1 DEF Traded, IsFull
<1>6. e.full[w] \in FullscreenEntry BY <1>4, <1>5, MapsType DEF Desks
<1>7. wants \in BOOLEAN /\ floats \in BOOLEAN OBVIOUS
<1> HIDE DEF wants, floats
<1>8. entry \in FullscreenEntry BY <1>6, <1>7 DEF FullscreenEntry
<1> HIDE DEF entry
<1>9. TogglePinFullscreen(d, w, o) = g BY <1>2, <1>4 DEF Desks
<1>10. Held(g, L) /\ Same(g, e) /\ DOMAIN g.full = DOMAIN e.full BY <1>3, <1>5, <1>8, EntryKeeps
<1>11. Loose(g, d, w) BY <1>1, <1>10, SameStill, StillLoose, LooseTwice DEF Traded
<1> QED BY <1>1, <1>9, <1>10, <1>11 DEF Traded, Same

LEMMA TogglePinTraded ==
  ASSUME NEW L, NEW d, Held(d, L), NEW w \in Window, NEW o \in L
  PROVE  /\ Held(TogglePin(d, w, o), L) /\ TogglePin(d, w, o).live = d.live
         /\ Loose(TogglePin(d, w, o), d, w)
<1>1. CASE IsFull(d, w)
  BY <1>1, TogglePinFullscreenTraded DEF TogglePin, Traded
<1>2. CASE ~IsFull(d, w) /\ w \in d.pinned
  <2> DEFINE e == [d EXCEPT !.pinned = @ \ {w}]
             k == ActiveKey(d, Rendered(d, w))
  <2>1. d \in Desks(L) /\ d.shown \subseteq DOMAIN d.tile \cup DOMAIN d.tag BY DEF Held
  <2>2. e \in Desks(L) /\ Same(e, d) /\ e.shown = d.shown BY <2>1 DEF Desks, Same
  <2>3. TogglePin(d, w, o) = IF Rendered(d, w) # NoOutput /\ IsTagged(d, w)
                             THEN Tagged(e, w, k) ELSE e
    BY <1>2 DEF TogglePin
  <2> HIDE DEF e
  <2>4. Held(e, L) /\ e.live = d.live /\ Loose(e, d, w)
    BY <2>1, <2>2, SameHeld, SameStill, StillLoose DEF Same
  <2>5. CASE Rendered(d, w) # NoOutput /\ IsTagged(d, w)
    <3>1. Rendered(d, w) \in L BY <2>1, <2>5, RenderedLive DEF Desks
    <3>2. k \in Keys(L) BY <3>1, ActiveKeyType
    <3>3. w \in DOMAIN e.tag BY <2>2, <2>5 DEF Same, IsTagged
    <3> HIDE DEF k
    <3>4. Kept(Tagged(e, w, k), e, L) /\ Still(Tagged(e, w, k), e) BY <2>4, <3>2, <3>3, TaggedKept
    <3>5. Loose(Tagged(e, w, k), d, w) BY <2>4, <3>4, StillLoose, LooseTwice
    <3> QED BY <2>3, <2>4, <2>5, <3>4, <3>5 DEF Kept, Rearranged
  <2> QED BY <2>3, <2>4, <2>5
<1>3. CASE ~IsFull(d, w) /\ w \notin d.pinned
  <2> DEFINE e == IF IsTiled(d, w) THEN ToggleFloating(d, w, o) ELSE d
             f == [e EXCEPT !.pinned = @ \cup {w}]
  <2>1. TogglePin(d, w, o) = f BY <1>3 DEF TogglePin
  <2>2. Held(e, L) /\ e.live = d.live /\ Loose(e, d, w)
    BY ToggleFloatingTraded DEF Traded, Loose
  <2> HIDE DEF e
  <2>3. e \in Desks(L) /\ e.shown \subseteq DOMAIN e.tile \cup DOMAIN e.tag BY <2>2 DEF Held
  <2>4. f \in Desks(L) /\ Same(f, e) /\ f.shown = e.shown BY <2>3 DEF Desks, Same
  <2> HIDE DEF f
  <2>5. Held(f, L) BY <2>2, <2>3, <2>4, SameHeld
  <2>6. Loose(f, d, w) BY <2>2, <2>4, SameStill, StillLoose, LooseTwice
  <2> QED BY <2>1, <2>2, <2>4, <2>5, <2>6 DEF Same
<1> QED BY <1>1, <1>2, <1>3

-----------------------------------------------------------------------------
(* Between outputs *)

LEMMA HomedGroups ==
  ASSUME NEW L, NEW G \in SUBSET Groups(L), NEW f \in [G -> Groups(L)],
         \A g \in G : f[g].members = g.members /\ f[g].active = g.active
  PROVE  {f[g] : g \in G} \subseteq Groups(L) /\ Retabbed({f[g] : g \in G}, G)
<1>1. f \in [G -> {f[g] : g \in G}] OBVIOUS
<1> QED BY <1>1 DEF Retabbed

\* A group with another home.
LEMMA HomedGroup ==
  ASSUME NEW L, NEW g \in Groups(L), NEW k \in Keys(L)
  PROVE  /\ [g EXCEPT !.home = k] \in Groups(L)
         /\ [g EXCEPT !.home = k].members = g.members /\ [g EXCEPT !.home = k].active = g.active
  BY DEF Groups, Keys

LEMMA RehomedKept ==
  ASSUME NEW L, NEW d, Held(d, L), NEW home, \A k \in Keys(L) : home[k] \in Keys(L)
  PROVE  Kept(Rehomed(d, home), d, L)
<1> DEFINE f == [g \in d.groups |-> [g EXCEPT !.home = home[g.home]]]
           e == Rehomed(d, home)
<1>1. d \in Desks(L) /\ d.shown \subseteq DOMAIN d.tile \cup DOMAIN d.tag BY DEF Held
<1>2. d.groups \subseteq Groups(L) BY <1>1 DEF Desks
<1>3. ASSUME NEW g \in d.groups
      PROVE  f[g] \in Groups(L) /\ f[g].members = g.members /\ f[g].active = g.active
  <2>1. g \in Groups(L) BY <1>2
  <2>2. g.home \in Keys(L) BY <2>1 DEF Groups, Keys
  <2>3. home[g.home] \in Keys(L) BY <2>2
  <2>4. f[g] = [g EXCEPT !.home = home[g.home]] OBVIOUS
  <2> HIDE DEF f
  <2> QED BY <2>1, <2>3, <2>4, HomedGroup
<1>4. {f[g] : g \in d.groups} = {[g EXCEPT !.home = home[g.home]] : g \in d.groups} OBVIOUS
<1>5. f \in [d.groups -> Groups(L)] BY <1>3
<1> HIDE DEF f
<1>6. {f[g] : g \in d.groups} \subseteq Groups(L) /\ Retabbed({f[g] : g \in d.groups}, d.groups)
  BY <1>2, <1>3, <1>5, HomedGroups
<1> DEFINE G == {f[g] : g \in d.groups}
<1>7. e = [d EXCEPT !.groups = G] BY <1>1, <1>4 DEF Rehomed, Desks
<1>8. G \subseteq Groups(L) /\ Retabbed(G, d.groups) BY <1>6
<1> HIDE DEF e, G
<1>9. /\ e \in Desks(L) /\ e.live = d.live /\ e.mapped = d.mapped /\ e.groups = G
      /\ e.tile = d.tile /\ e.tag = d.tag /\ e.shown = d.shown
  BY <1>1, <1>7, <1>8 DEF Desks
<1>10. Kept(e, d, L) BY <1>1, <1>8, <1>9, KeptPlaces
<1> QED BY <1>10 DEF e

LEMMA LandedKept ==
  ASSUME NEW L, NEW d, Held(d, L), NEW S, NEW key, \A w \in S : key[w] \in Keys(L)
  PROVE  /\ Kept(Landed(d, S, key), d, L)
         /\ Landed(d, S, key).tile = d.tile /\ Landed(d, S, key).groups = d.groups
         /\ Landed(d, S, key).shown = d.shown
         /\ Landed(d, S, key).tag = [w \in DOMAIN d.tag |-> IF w \in S THEN key[w] ELSE d.tag[w]]
<1> DEFINE e == Landed(d, S, key)
           tag == [w \in DOMAIN d.tag |-> IF w \in S THEN key[w] ELSE d.tag[w]]
           outs == [w \in S |-> key[w][1]]
           over == [w \in DOMAIN d.over |-> IF w \in S THEN outs[w] ELSE d.over[w]]
<1>1. d \in Desks(L) /\ d.shown \subseteq DOMAIN d.tile \cup DOMAIN d.tag /\ L \subseteq Output
  BY DEF Held
<1>2. tag \in Maps(Keys(L))
  <2>1. d.tag \in Maps(Keys(L)) BY <1>1 DEF Desks
  <2> QED BY <2>1, Overwritten
<1>3. over \in Maps(Output)
  <2>1. d.over \in Maps(Output) BY <1>1 DEF Desks
  <2>2. \A w \in S : outs[w] \in Output BY <1>1 DEF Keys
  <2> HIDE DEF outs
  <2> QED BY <2>1, <2>2, Overwritten
<1>4. DOMAIN tag = DOMAIN d.tag OBVIOUS
<1>5. e = [d EXCEPT !.tag = tag, !.over = over] BY <1>1 DEF Landed, Desks
<1> HIDE DEF e, tag, over
<1>6. /\ e \in Desks(L) /\ e.live = d.live /\ e.mapped = d.mapped /\ e.groups = d.groups
      /\ e.tile = d.tile /\ e.tag = tag /\ e.shown = d.shown
  BY <1>1, <1>2, <1>3, <1>5 DEF Desks
<1>7. Kept(e, d, L) BY <1>1, <1>4, <1>6, RetabbedSame, KeptPlaces
<1> QED BY <1>6, <1>7 DEF e, tag

LEMMA FullToKeeps ==
  ASSUME NEW L, NEW d, Held(d, L), NEW S, NEW o \in Output
  PROVE  /\ Held(FullTo(d, S, o), L) /\ Same(FullTo(d, S, o), d)
         /\ FullTo(d, S, o).pinned = d.pinned /\ FullTo(d, S, o).shown = d.shown
<1> DEFINE e == FullTo(d, S, o)
           full == [w \in DOMAIN d.full |->
                      IF w \in S THEN [d.full[w] EXCEPT !.output = o] ELSE d.full[w]]
<1>1. d \in Desks(L) /\ d.shown \subseteq DOMAIN d.tile \cup DOMAIN d.tag BY DEF Held
<1>2. full \in Maps(FullscreenEntry)
  <2>1. d.full \in Maps(FullscreenEntry) BY <1>1 DEF Desks
  <2>2. DOMAIN d.full \subseteq Window /\ \A w \in DOMAIN d.full : d.full[w] \in FullscreenEntry
    BY <2>1, MapsType
  <2>3. \A w \in DOMAIN d.full : full[w] \in FullscreenEntry BY <2>2 DEF FullscreenEntry
  <2>4. DOMAIN full = DOMAIN d.full /\ full = [w \in DOMAIN full |-> full[w]] OBVIOUS
  <2> HIDE DEF full
  <2> QED BY <2>2, <2>3, <2>4, MapsType
<1>3. e = [d EXCEPT !.full = full] BY <1>1 DEF FullTo, Desks
<1> HIDE DEF e, full
<1>4. e \in Desks(L) /\ Same(e, d) /\ e.pinned = d.pinned /\ e.shown = d.shown
  BY <1>1, <1>2, <1>3 DEF Desks, Same
<1>5. Held(e, L) BY <1>1, <1>4, SameHeld
<1> QED BY <1>4, <1>5 DEF e

LEMMA MaxiToKeeps ==
  ASSUME NEW L, NEW d, Held(d, L), NEW S, NEW o \in Output
  PROVE  /\ Held(MaxiTo(d, S, o), L) /\ Same(MaxiTo(d, S, o), d)
         /\ MaxiTo(d, S, o).pinned = d.pinned /\ MaxiTo(d, S, o).shown = d.shown
<1> DEFINE e == MaxiTo(d, S, o)
           maxi == [w \in DOMAIN d.maxi |-> IF w \in S THEN o ELSE d.maxi[w]]
<1>1. d \in Desks(L) /\ d.shown \subseteq DOMAIN d.tile \cup DOMAIN d.tag BY DEF Held
<1>2. maxi \in Maps(Output)
  <2>1. d.maxi \in Maps(Output) BY <1>1 DEF Desks
  <2> DEFINE outs == [w \in S |-> o]
  <2>2. maxi = [w \in DOMAIN d.maxi |-> IF w \in S THEN outs[w] ELSE d.maxi[w]] OBVIOUS
  <2>3. \A w \in S : outs[w] \in Output OBVIOUS
  <2> HIDE DEF outs, maxi
  <2>4. [w \in DOMAIN d.maxi |-> IF w \in S THEN outs[w] ELSE d.maxi[w]] \in Maps(Output)
    BY <2>1, <2>3, Overwritten
  <2> QED BY <2>2, <2>4
<1>3. e = [d EXCEPT !.maxi = maxi] BY <1>1 DEF MaxiTo, Desks
<1> HIDE DEF e, maxi
<1>4. e \in Desks(L) /\ Same(e, d) /\ e.pinned = d.pinned /\ e.shown = d.shown
  BY <1>1, <1>2, <1>3 DEF Desks, Same
<1>5. Held(e, L) BY <1>1, <1>4, SameHeld
<1> QED BY <1>4, <1>5 DEF e

LEMMA ModesKeeps ==
  ASSUME NEW L, NEW d, Held(d, L), NEW S, NEW o \in Output
  PROVE  /\ Held(Modes(d, S, o), L) /\ Same(Modes(d, S, o), d)
         /\ Modes(d, S, o).pinned = d.pinned /\ Modes(d, S, o).shown = d.shown
<1> DEFINE e == FullTo(d, S, o)
           f == MaxiTo(e, S, o)
<1>1. Held(e, L) /\ Same(e, d) /\ e.pinned = d.pinned /\ e.shown = d.shown BY FullToKeeps
<1>2. Modes(d, S, o) = f BY DEF Modes
<1> HIDE DEF e
<1>3. Held(f, L) /\ Same(f, e) /\ f.pinned = e.pinned /\ f.shown = e.shown BY <1>1, MaxiToKeeps
<1> HIDE DEF f
<1> QED BY <1>1, <1>2, <1>3, SameTwice

LEMMA RepinnedKeeps ==
  ASSUME NEW L, NEW d, Held(d, L), NEW S, NEW o \in Output
  PROVE  /\ Held(Repinned(d, S, o), L) /\ Same(Repinned(d, S, o), d)
         /\ Repinned(d, S, o).shown = d.shown
<1> DEFINE e == Repinned(d, S, o)
           pin == [w \in DOMAIN d.pin |-> IF w \in S THEN o ELSE d.pin[w]]
<1>1. d \in Desks(L) /\ d.shown \subseteq DOMAIN d.tile \cup DOMAIN d.tag BY DEF Held
<1>2. pin \in Maps(PinOutput)
  <2>1. d.pin \in Maps(PinOutput) BY <1>1 DEF Desks
  <2>2. DOMAIN d.pin \subseteq Window /\ \A w \in DOMAIN d.pin : d.pin[w] \in PinOutput
    BY <2>1, MapsType
  <2>3. \A w \in DOMAIN d.pin : pin[w] \in PinOutput BY <2>2 DEF PinOutput
  <2>4. DOMAIN pin = DOMAIN d.pin /\ pin = [w \in DOMAIN pin |-> pin[w]] OBVIOUS
  <2> HIDE DEF pin
  <2> QED BY <2>2, <2>3, <2>4, MapsType
<1>3. e = [d EXCEPT !.pin = pin] BY <1>1 DEF Repinned, Desks
<1> HIDE DEF e, pin
<1>4. e \in Desks(L) /\ Same(e, d) /\ e.shown = d.shown BY <1>1, <1>2, <1>3 DEF Desks, Same
<1>5. Held(e, L) BY <1>1, <1>4, SameHeld
<1> QED BY <1>4, <1>5 DEF e

\* The groups G, of which those in C get the home k.
HomedTo(G, C, k) == {IF g \in C THEN [g EXCEPT !.home = k] ELSE g : g \in G}

LEMMA SomeHomed ==
  ASSUME NEW L, NEW G \in SUBSET Groups(L), NEW C, NEW k \in Keys(L)
  PROVE  HomedTo(G, C, k) \subseteq Groups(L) /\ Retabbed(HomedTo(G, C, k), G)
<1> DEFINE f == [g \in G |-> IF g \in C THEN [g EXCEPT !.home = k] ELSE g]
<1>1. ASSUME NEW g \in G
      PROVE  f[g] \in Groups(L) /\ f[g].members = g.members /\ f[g].active = g.active
  <2>1. g \in Groups(L) OBVIOUS
  <2> DEFINE h == [g EXCEPT !.home = k]
  <2>2. h \in Groups(L) /\ h.members = g.members /\ h.active = g.active BY <2>1, HomedGroup
  <2>3. f[g] = IF g \in C THEN h ELSE g OBVIOUS
  <2> HIDE DEF h, f
  <2> QED BY <2>1, <2>2, <2>3
<1>2. f \in [G -> Groups(L)] BY <1>1
<1>3. {f[g] : g \in G} = HomedTo(G, C, k) BY DEF HomedTo
<1> HIDE DEF f
<1>4. {f[g] : g \in G} \subseteq Groups(L) /\ Retabbed({f[g] : g \in G}, G)
  BY <1>1, <1>2, HomedGroups
<1> QED BY <1>3, <1>4

LEMMA TransferTiledKept ==
  ASSUME NEW L, NEW d, Held(d, L), NEW w \in DOMAIN d.tile, NEW to \in L
  PROVE  LET e == TransferTiled(d, w, to) IN
         /\ Kept(e, d, L) /\ e.tile = Put(d.tile, w, ActiveKey(d, to))
         /\ e.groups = HomedTo(d.groups, {g \in d.groups : w \in Members(g)}, ActiveKey(d, to))
<1> DEFINE k == ActiveKey(d, to)
           tabs == IF IsGrouped(d, w) THEN Members(GroupOf(d, w)) ELSE {w}
           t == Tiled(d, w, k)
           e == Repinned(t, tabs, to)
           C == {g \in d.groups : w \in Members(g)}
           G == HomedTo(d.groups, C, k)
           f == [e EXCEPT !.groups = G]
<1>1. k \in Keys(L) /\ to \in Output BY ActiveKeyType DEF Held
<1>2. Kept(t, d, L) /\ t.groups = d.groups /\ t.tile = Put(d.tile, w, k)
  <2> HIDE DEF k
  <2>1. Kept(t, d, L) BY <1>1, TiledKept
  <2>2. d \in Desks(L) BY DEF Held
  <2>3. t.groups = d.groups /\ t.tile = Put(d.tile, w, k) BY <2>2 DEF Tiled, Desks
  <2> QED BY <2>1, <2>3
<1>3. TransferTiled(d, w, to) = [e EXCEPT !.groups =
         {IF w \in Members(g) THEN [g EXCEPT !.home = k] ELSE g : g \in @}]
  BY DEF TransferTiled
<1> HIDE DEF t, tabs
<1>4. Held(e, L) /\ Same(e, t) BY <1>1, <1>2, RepinnedKeeps DEF Kept
<1> HIDE DEF e
<1>5. Kept(e, d, L) BY <1>2, <1>4, KeptSame, KeptTwice
<1>6. e.groups = d.groups /\ e.tile = Put(d.tile, w, k) BY <1>2, <1>4 DEF Same
<1>7. e \in Desks(L) /\ e.shown \subseteq DOMAIN e.tile \cup DOMAIN e.tag BY <1>4 DEF Held
<1> HIDE DEF k
<1>8. TransferTiled(d, w, to) = f
  <2>1. {IF w \in Members(g) THEN [g EXCEPT !.home = k] ELSE g : g \in e.groups} = G
    BY <1>6 DEF HomedTo
  <2> QED BY <1>3, <2>1
<1>9. G \subseteq Groups(L) /\ Retabbed(G, e.groups)
  <2>1. d.groups \in SUBSET Groups(L) BY DEF Held, Desks
  <2> HIDE DEF C
  <2> QED BY <1>1, <1>6, <2>1, SomeHomed
<1> HIDE DEF G
<1>10. /\ f \in Desks(L) /\ f.live = e.live /\ f.mapped = e.mapped /\ f.groups = G
       /\ f.tile = e.tile /\ f.tag = e.tag /\ f.shown = e.shown
  BY <1>7, <1>9 DEF Desks
<1> HIDE DEF f
<1>11. Kept(f, e, L) BY <1>4, <1>7, <1>9, <1>10, KeptPlaces
<1>12. Kept(f, d, L) BY <1>5, <1>11, KeptTwice
<1> QED BY <1>6, <1>8, <1>10, <1>12 DEF G, k

\* The tabs of a group travel with the leaf.
LEMMA TransferTiledLeafed ==
  ASSUME NEW L, NEW d, Held(d, L), NEW w \in DOMAIN d.tile, NEW to \in L, Leafed(d)
  PROVE  Leafed(TransferTiled(d, w, to))
<1> DEFINE k == ActiveKey(d, to)
           C == {g \in d.groups : w \in Members(g)}
           e == TransferTiled(d, w, to)
<1>1. d.groups \in SUBSET Groups(L) /\ Apart(d.groups) /\ Once(d, d.mapped) BY DEF Held, Desks
<1>2. e.tile = Put(d.tile, w, k) /\ e.groups = HomedTo(d.groups, C, k) BY TransferTiledKept
<1> HIDE DEF e, k
<1>3. \A x \in DOMAIN d.tile : x \in DOMAIN e.tile /\ e.tile[x] = IF x = w THEN k ELSE d.tile[x]
  BY <1>2 DEF Put
<1>4. ASSUME NEW g \in d.groups
      PROVE  LET h == IF g \in C THEN [g EXCEPT !.home = k] ELSE g
             IN  ActiveTab(h) \in DOMAIN e.tile /\ e.tile[ActiveTab(h)] = h.home
  <2>1. ActiveTab(g) \in DOMAIN d.tile /\ d.tile[ActiveTab(g)] = g.home BY DEF Leafed
  <2>2. CASE g \in C
    <3>1. w \notin ParkedIn(g) BY <1>1 DEF Once, Parked
    <3>2. w = ActiveTab(g) BY <2>2, <3>1 DEF ParkedIn
    <3> DEFINE h == [g EXCEPT !.home = k]
    <3>3. h.home = k /\ h.members = g.members /\ h.active = g.active BY <1>1 DEF Groups
    <3>4. ActiveTab(h) = w BY <3>2, <3>3 DEF ActiveTab
    <3> HIDE DEF h
    <3>5. ActiveTab(h) \in DOMAIN e.tile /\ e.tile[ActiveTab(h)] = h.home BY <1>3, <3>3, <3>4
    <3> QED BY <2>2, <3>5 DEF h
  <2>3. CASE g \notin C
    <3>1. ActiveTab(g) \in Members(g) BY <1>1, GroupTabs
    <3>2. ActiveTab(g) # w BY <2>3, <3>1
    <3> QED BY <1>3, <2>1, <2>3, <3>2
  <2> QED BY <2>2, <2>3
<1> HIDE DEF C
<1>5. ASSUME NEW h \in e.groups
      PROVE  ActiveTab(h) \in DOMAIN e.tile /\ e.tile[ActiveTab(h)] = h.home
  <2>1. PICK g \in d.groups : h = IF g \in C THEN [g EXCEPT !.home = k] ELSE g
    BY <1>2 DEF HomedTo
  <2> QED BY <1>4, <2>1
<1> QED BY <1>5 DEF Leafed, e

LEMMA MoveWindowToMonitorKept ==
  ASSUME NEW L, NEW d, Held(d, L), NEW w \in Window, NEW to \in L
  PROVE  /\ Kept(MoveWindowToMonitor(d, w, to), d, L)
         /\ Leafed(d) => Leafed(MoveWindowToMonitor(d, w, to))
<1> DEFINE b == Demoted(d, {w}, to)
           e == Modes(b, {w}, to)
           key == [x \in {w} |-> ActiveKey(d, to)]
           l == Landed(e, {w}, key)
           r == Repinned(l, {w}, to)
           s == Shown(r, {w})
<1>1. MoveWindowToMonitor(d, w, to)
        = IF Monitor(d, w) \notin d.live \ {to} \/ ~(IsTiled(d, w) \/ IsTagged(d, w)) THEN d
          ELSE IF IsTiled(d, w) THEN Retile(TransferTiled(e, w, to)) ELSE Retile(s)
  BY DEF MoveWindowToMonitor
<1>2. to \in Output BY DEF Held
<1>3. Held(b, L) /\ Same(b, d) BY DemotedKeeps
<1> HIDE DEF b
<1>4. Held(e, L) /\ Same(e, b) BY <1>2, <1>3, ModesKeeps
<1> HIDE DEF e
<1>5. Kept(e, d, L) BY <1>3, <1>4, SameTwice, KeptSame
<1>6. CASE IsTiled(d, w)
  <2>1. w \in DOMAIN e.tile BY <1>3, <1>4, <1>6 DEF IsTiled, Same
  <2>2. Kept(TransferTiled(e, w, to), e, L) BY <1>4, <2>1, TransferTiledKept
  <2>3. Kept(TransferTiled(e, w, to), d, L) BY <1>5, <2>2, KeptTwice
  <2>4. Kept(Retile(TransferTiled(e, w, to)), d, L)
        /\ Still(Retile(TransferTiled(e, w, to)), TransferTiled(e, w, to))
    BY <2>3, RetileKept
  <2>5. Leafed(d) => Leafed(e) BY <1>3, <1>4, SameStill, StillTwice, StillLeafed
  <2>6. Leafed(d) => Leafed(Retile(TransferTiled(e, w, to)))
    BY <1>4, <2>1, <2>4, <2>5, TransferTiledLeafed, StillLeafed
  <2> QED BY <1>1, <1>6, <2>4, <2>6, KeptSame DEF Same
<1>7. CASE ~IsTiled(d, w) /\ IsTagged(d, w)
  <2>1. \A x \in {w} : key[x] \in Keys(L) BY ActiveKeyType
  <2> HIDE DEF key
  <2>2. Kept(l, e, L) /\ Still(l, e)
    <3>1. Kept(l, e, L) BY <1>4, <2>1, LandedKept
    <3>2. e \in Desks(L) BY <1>4 DEF Held
    <3>3. l.tile = e.tile /\ l.groups = e.groups BY <3>2 DEF Landed, Desks
    <3> QED BY <3>1, <3>3 DEF Still
  <2> HIDE DEF l
  <2>3. Kept(l, d, L) /\ Held(l, L) BY <1>5, <2>2, KeptTwice DEF Kept
  <2>4. Held(r, L) /\ Same(r, l) BY <1>2, <2>3, RepinnedKeeps
  <2> HIDE DEF r
  <2>5. Kept(r, d, L) BY <2>3, <2>4, KeptSame, KeptTwice
  <2>6. w \in DOMAIN r.tag BY <1>7, <2>5 DEF Kept, Rearranged, IsTagged
  <2>7. Held(s, L) /\ Same(s, r)
    <3>1. {w} \subseteq DOMAIN r.tile \cup DOMAIN r.tag BY <2>6
    <3> QED BY <2>4, <3>1, ShownKeeps
  <2> HIDE DEF s
  <2>8. Kept(Retile(s), d, L) /\ Still(Retile(s), s)
    BY <2>5, <2>7, KeptSame, KeptTwice, RetileKept
  <2>9. Still(s, d)
    <3>1. Still(s, l) BY <2>4, <2>7, SameStill, StillTwice
    <3>2. Still(e, d) BY <1>3, <1>4, SameStill, StillTwice
    <3> QED BY <2>2, <3>1, <3>2, StillTwice
  <2>10. Leafed(d) => Leafed(Retile(s)) BY <2>8, <2>9, StillTwice, StillLeafed
  <2> QED BY <1>1, <1>7, <2>8, <2>10, KeptSame DEF Same
<1>8. CASE ~IsTiled(d, w) /\ ~IsTagged(d, w) BY <1>1, <1>8, KeptSame DEF Same
<1> QED BY <1>6, <1>7, <1>8

LEMMA DropTileKept ==
  ASSUME NEW L, NEW d, Held(d, L), NEW w, NEW to \in L
  PROVE  Kept(DropTile(d, w, to), d, L) /\ (Leafed(d) => Leafed(DropTile(d, w, to)))
<1>1. Kept(d, d, L) BY KeptSame DEF Same
<1>2. CASE IsTiled(d, w)
  <2>1. Kept(TransferTiled(d, w, to), d, L) BY <1>2, TransferTiledKept DEF IsTiled
  <2>2. Kept(Retile(TransferTiled(d, w, to)), d, L)
        /\ Still(Retile(TransferTiled(d, w, to)), TransferTiled(d, w, to))
    BY <2>1, RetileKept
  <2>3. Leafed(d) => Leafed(Retile(TransferTiled(d, w, to)))
    BY <1>2, <2>2, TransferTiledLeafed, StillLeafed DEF IsTiled
  <2> QED BY <1>1, <2>2, <2>3 DEF DropTile
<1>3. CASE ~IsTiled(d, w) BY <1>1, <1>3 DEF DropTile
<1> QED BY <1>2, <1>3

LEMMA ActivatedKept ==
  ASSUME NEW L, NEW d, Held(d, L), NEW o, NEW n \in Workspace
  PROVE  Kept([d EXCEPT !.active[o] = n], d, L)
<1> DEFINE e == [d EXCEPT !.active[o] = n]
<1>1. d \in Desks(L) /\ d.shown \subseteq DOMAIN d.tile \cup DOMAIN d.tag BY DEF Held
<1>2. /\ e \in Desks(L) /\ e.live = d.live /\ e.mapped = d.mapped /\ e.groups = d.groups
      /\ e.tile = d.tile /\ e.tag = d.tag /\ e.shown = d.shown
  BY <1>1 DEF Desks
<1> HIDE DEF e
<1>3. Kept(e, d, L) BY <1>1, <1>2, RetabbedSame, KeptPlaces
<1> QED BY <1>3 DEF e

\* Tiles, tabs and floaters of one workspace arrive at another.
LEMMA MovedKept ==
  ASSUME NEW L, NEW d, Held(d, L), NEW in, NEW k, NEW to \in Keys(L)
  PROVE  Kept(Moved(d, in, k, to), d, L)
<1> DEFINE F == FloatersOf(d, k)
           key == [w \in F |-> to]
           m == Modes(d, in, to[1])
           r == Repinned(m, in, to[1])
           l == Landed(r, F, key)
           tile == [w \in DOMAIN l.tile |-> IF l.tile[w] = k THEN to ELSE l.tile[w]]
           C == {g \in l.groups : g.home = k}
           G == HomedTo(l.groups, C, to)
           e == [l EXCEPT !.tile = tile, !.groups = G, !.shown = @ \cup F]
<1>1. to[1] \in Output BY DEF Keys, Held
<1>2. Held(m, L) /\ Same(m, d) BY <1>1, ModesKeeps
<1>3. Moved(d, in, k, to) = [l EXCEPT
        !.tile = [w \in DOMAIN @ |-> IF @[w] = k THEN to ELSE @[w]],
        !.groups = {IF g.home = k THEN [g EXCEPT !.home = to] ELSE g : g \in @},
        !.shown = @ \cup F]
  BY DEF Moved
<1>4. F \subseteq DOMAIN d.tag BY DEF FloatersOf
<1> HIDE DEF m
<1>5. Held(r, L) /\ Same(r, m) BY <1>1, <1>2, RepinnedKeeps
<1> HIDE DEF r
<1>6. \A w \in F : key[w] \in Keys(L) OBVIOUS
<1> HIDE DEF key, F
<1>7. Kept(l, r, L) BY <1>5, <1>6, LandedKept
<1> HIDE DEF l
<1>8. Kept(l, d, L)
  <2>1. Kept(r, d, L) BY <1>2, <1>5, SameTwice, KeptSame
  <2> QED BY <1>7, <2>1, KeptTwice
<1>9. Held(l, L) /\ DOMAIN l.tag = DOMAIN d.tag BY <1>8 DEF Kept, Rearranged
<1>10. l \in Desks(L) /\ l.shown \subseteq DOMAIN l.tile \cup DOMAIN l.tag BY <1>9 DEF Held
<1>11. tile \in Maps(Keys(L))
  <2> DEFINE S == {w \in DOMAIN l.tile : l.tile[w] = k}
             u == [w \in S |-> to]
  <2>1. l.tile \in Maps(Keys(L)) BY <1>10 DEF Desks
  <2>2. tile = [w \in DOMAIN l.tile |-> IF w \in S THEN u[w] ELSE l.tile[w]] OBVIOUS
  <2>3. \A w \in S : u[w] \in Keys(L) OBVIOUS
  <2> HIDE DEF S, u, tile
  <2>4. [w \in DOMAIN l.tile |-> IF w \in S THEN u[w] ELSE l.tile[w]] \in Maps(Keys(L))
    BY <2>1, <2>3, Overwritten
  <2> QED BY <2>2, <2>4
<1>12. DOMAIN tile = DOMAIN l.tile OBVIOUS
<1>13. G \subseteq Groups(L) /\ Retabbed(G, l.groups)
  <2>1. l.groups \in SUBSET Groups(L) BY <1>10 DEF Desks
  <2> HIDE DEF C
  <2> QED BY <2>1, SomeHomed
<1>14. {IF g.home = k THEN [g EXCEPT !.home = to] ELSE g : g \in l.groups} = G
  BY DEF HomedTo
<1>15. Moved(d, in, k, to) = e BY <1>3, <1>10, <1>14 DEF Desks
<1> HIDE DEF tile, G
<1>16. F \subseteq DOMAIN l.tag /\ F \subseteq Window BY <1>4, <1>9, <1>10 DEF Desks, Maps
<1>17. /\ e \in Desks(L) /\ e.live = l.live /\ e.mapped = l.mapped /\ e.groups = G
       /\ e.tile = tile /\ e.tag = l.tag /\ e.shown = l.shown \cup F
  BY <1>10, <1>11, <1>13, <1>16 DEF Desks
<1> HIDE DEF e
<1>18. e.shown \subseteq DOMAIN l.tile \cup DOMAIN l.tag BY <1>10, <1>16, <1>17
<1>19. Kept(e, l, L) BY <1>9, <1>12, <1>13, <1>17, <1>18, KeptPlaces
<1> QED BY <1>8, <1>15, <1>19, KeptTwice

LEMMA Lowest ==
  ASSUME NEW S \in SUBSET Nat, S # {}
  PROVE  \E m \in S : \A k \in S : m <= k
<1>1. \E m \in S : \A k \in S : ~ (<<k, m>> \in OpToRel(<, Nat))
  BY NatLessThanWellFounded, WFMin
<1>2. PICK m \in S : \A k \in S : ~ (k < m) BY <1>1, Zenon DEF OpToRel
<1>3. \A k \in S : m <= k BY <1>2
<1> QED BY <1>3

\* The lowest vacant workspace is one.
LEMMA SlotNormal ==
  ASSUME NEW d, NEW n, NEW to, Vacant(d, to) # {}
  PROVE  TransferSlot(d, n, to) \in Normal
<1> DEFINE S == Vacant(d, to)
<1>1. Cardinality(Normal) \in Nat BY NormalAssumption, FS_CardinalityType
<1>2. Normal \subseteq Nat BY <1>1, NormalAssumption
<1>3. S \subseteq Normal BY DEF Vacant
<1>4. S \subseteq Nat /\ S # {} BY <1>2, <1>3
<1>5. TransferSlot(d, n, to) = IF n \in S THEN n ELSE Min(S) BY DEF TransferSlot
<1> HIDE DEF S
<1>6. \E x \in S : \A y \in S : x <= y BY <1>4, Lowest
<1>7. Min(S) \in S BY ONLY <1>6 DEF Min
<1> QED BY <1>3, <1>5, <1>7

LEMMA MoveWorkspaceKept ==
  ASSUME NEW L, NEW d, Held(d, L), NEW from \in Output, NEW to \in L
  PROVE  Kept(MoveWorkspace(d, from, to), d, L)
<1> DEFINE k == ActiveKey(d, from)
           n == TransferSlot(d, k[2], to)
           slot == <<to, n>>
           in == Residents(d, k)
           e == IF \E w \in in : IsFull(d, w) THEN Demoted(d, {}, to) ELSE d
           left == (IF slot = ActiveKey(d, to) THEN {} ELSE TilesOf(e, ActiveKey(d, to)))
                     \cup FloatersOf(e, ActiveKey(d, to))
           h == Hidden(e, left)
           m == Moved(h, in, k, slot)
           a == [m EXCEPT !.active[to] = n]
<1>1. Kept(d, d, L) BY KeptSame DEF Same
<1>2. slot[2] = n OBVIOUS
<1>3. MoveWorkspace(d, from, to)
        = IF \/ from = to \/ {from, to} \cap d.live # {from, to}
             \/ k[2] \in Scratch \/ Vacant(d, to) = {}
          THEN d ELSE Retile(a)
  BY <1>2 DEF MoveWorkspace
<1>4. CASE Vacant(d, to) = {} BY <1>1, <1>3, <1>4
<1>5. CASE Vacant(d, to) # {}
  <2> HIDE DEF k
  <2>1. n \in Workspace BY <1>5, SlotNormal DEF Workspace
  <2> HIDE DEF n
  <2>2. slot \in Keys(L) BY <2>1 DEF Keys
  <2>3. Held(e, L) /\ Same(e, d) BY DemotedKeeps DEF Same
  <2> HIDE DEF e, in, slot
  <2>4. Held(h, L) /\ Same(h, e) BY <2>3, HiddenKeeps
  <2> HIDE DEF h
  <2>5. Kept(h, d, L) BY <2>3, <2>4, SameTwice, KeptSame
  <2>6. Kept(m, h, L) BY <2>2, <2>4, MovedKept
  <2> HIDE DEF m
  <2>7. Kept(a, m, L) BY <2>1, <2>6, ActivatedKept DEF Kept
  <2> HIDE DEF a
  <2>8. Kept(Retile(a), d, L) BY <2>5, <2>6, <2>7, KeptTwice, RetileKept
  <2> QED BY <1>1, <1>3, <2>8
<1> QED BY <1>4, <1>5

\* The tiles get other places.
LEMMA TilesKept ==
  ASSUME NEW L, NEW d, Held(d, L), NEW tile \in Maps(Keys(L)), DOMAIN tile = DOMAIN d.tile
  PROVE  Kept([d EXCEPT !.tile = tile], d, L)
<1> DEFINE e == [d EXCEPT !.tile = tile]
<1>1. d \in Desks(L) /\ d.shown \subseteq DOMAIN d.tile \cup DOMAIN d.tag BY DEF Held
<1>2. /\ e \in Desks(L) /\ e.live = d.live /\ e.mapped = d.mapped /\ e.groups = d.groups
      /\ e.tile = tile /\ e.tag = d.tag /\ e.shown = d.shown
  BY <1>1 DEF Desks
<1> HIDE DEF e
<1>3. Kept(e, d, L) BY <1>1, <1>2, RetabbedSame, KeptPlaces
<1> QED BY <1>3 DEF e

LEMMA SwapKept ==
  ASSUME NEW L, NEW d, Held(d, L), NEW a \in L, NEW b \in L
  PROVE  Kept(Swap(d, a, b), d, L)
<1> DEFINE ka == ActiveKey(d, a)
           kb == ActiveKey(d, b)
           fa == MovingFull(d, ka)
           fb == MovingFull(d, kb)
           d1 == IF fa = {} THEN d ELSE Demoted(d, fb, b)
           e == IF fb = {} THEN d1 ELSE Demoted(d1, fa, a)
           other == [k \in Key |-> IF k = ka THEN kb ELSE IF k = kb THEN ka ELSE k]
           m1 == Modes(e, FloatersOf(e, ka), b)
           toB == FullTo(m1, TilesOf(e, ka), b)
           m2 == Modes(toB, FloatersOf(e, kb), a)
           toA == FullTo(m2, TilesOf(e, kb), a)
           floats == FloatersOf(e, ka) \cup FloatersOf(e, kb)
           tile == [w \in DOMAIN toA.tile |-> other[toA.tile[w]]]
           t == [toA EXCEPT !.tile = tile]
           r == Rehomed(t, other)
           key == [w \in floats |-> other[e.tag[w]]]
           l == Landed(r, floats, key)
           s == Shown(l, floats)
<1>1. Kept(d, d, L) BY KeptSame DEF Same
<1>2. Held(d1, L) /\ Same(d1, d) BY DemotedKeeps DEF Same
<1>3. Held(e, L) /\ Same(e, d)
  <2> HIDE DEF d1
  <2>1. Held(Demoted(d1, fa, a), L) /\ Same(Demoted(d1, fa, a), d1) BY <1>2, DemotedKeeps
  <2> QED BY <1>2, <2>1, SameTwice
<1>4. Swap(d, a, b) = IF a = b THEN d
        ELSE Retile(Shown(Landed(
               Rehomed([toA EXCEPT !.tile = [w \in DOMAIN @ |-> other[@[w]]]], other),
               floats, key), floats))
  BY DEF Swap
<1>5. a \in Output /\ b \in Output /\ \A k \in Keys(L) : k \in Key BY DEF Held, Keys, Key
<1>6. ka \in Keys(L) /\ kb \in Keys(L) BY ActiveKeyType
<1> HIDE DEF ka, kb, d1, e, fa, fb
<1>7. \A k \in Keys(L) : other[k] \in Keys(L) BY <1>5, <1>6
<1> HIDE DEF other
<1>8. e.tile \in Maps(Keys(L)) /\ e.tag \in Maps(Keys(L)) BY <1>3 DEF Held, Desks
<1>9. floats \subseteq DOMAIN e.tag BY DEF FloatersOf
<1>10. Held(toA, L) /\ Same(toA, e)
  <2>1. Held(m1, L) /\ Same(m1, e) BY <1>3, <1>5, ModesKeeps
  <2> HIDE DEF m1
  <2>2. Held(toB, L) /\ Same(toB, m1) BY <1>5, <2>1, FullToKeeps
  <2> HIDE DEF toB
  <2>3. Held(m2, L) /\ Same(m2, toB) BY <1>5, <2>2, ModesKeeps
  <2> HIDE DEF m2
  <2>4. Held(toA, L) /\ Same(toA, m2) BY <1>5, <2>3, FullToKeeps
  <2> QED BY <2>1, <2>2, <2>3, <2>4, SameTwice
<1> HIDE DEF toA
<1>11. toA \in Desks(L) BY <1>10 DEF Held
<1>12. [toA EXCEPT !.tile = [w \in DOMAIN @ |-> other[@[w]]]] = t BY <1>11 DEF Desks
<1>13. tile \in Maps(Keys(L)) /\ DOMAIN tile = DOMAIN toA.tile
  <2>1. toA.tile \in Maps(Keys(L)) BY <1>11 DEF Desks
  <2>2. DOMAIN toA.tile \subseteq Window /\ \A w \in DOMAIN toA.tile : toA.tile[w] \in Keys(L)
    BY <2>1, MapsType
  <2>3. DOMAIN tile = DOMAIN toA.tile /\ tile = [w \in DOMAIN tile |-> tile[w]] OBVIOUS
  <2>4. \A w \in DOMAIN tile : tile[w] \in Keys(L) BY <1>7, <2>2
  <2> HIDE DEF tile
  <2>5. tile \in Maps(Keys(L)) BY <2>2, <2>3, <2>4, MapsType
  <2> QED BY <2>3, <2>5
<1> HIDE DEF tile
<1>14. Kept(t, toA, L) BY <1>10, <1>13, TilesKept
<1> HIDE DEF t
<1>15. Kept(r, t, L) BY <1>7, <1>14, RehomedKept DEF Kept
<1> HIDE DEF r
<1>16. \A w \in floats : key[w] \in Keys(L)
  <2>1. \A w \in floats : e.tag[w] \in Keys(L) BY <1>8, <1>9, MapsType
  <2> QED BY <1>7, <2>1
<1> HIDE DEF key, floats
<1>17. Kept(l, r, L) BY <1>15, <1>16, LandedKept DEF Kept
<1> HIDE DEF l
<1>18. Kept(l, d, L)
  <2>1. Kept(toA, d, L) BY <1>3, <1>10, SameTwice, KeptSame
  <2> QED BY <1>14, <1>15, <1>17, <2>1, KeptTwice
<1>19. Held(s, L) /\ Same(s, l)
  <2>1. floats \subseteq DOMAIN l.tag BY <1>3, <1>9, <1>18 DEF Kept, Rearranged, Same
  <2> QED BY <1>18, <2>1, ShownKeeps DEF Kept
<1> HIDE DEF s
<1>20. Kept(Retile(s), d, L) BY <1>18, <1>19, KeptSame, KeptTwice, RetileKept
<1>21. Swap(d, a, b) = IF a = b THEN d ELSE Retile(s) BY <1>4, <1>12 DEF s, l, r
<1> QED BY <1>1, <1>20, <1>21

-----------------------------------------------------------------------------
(* Outputs come and go *)

\* Every window and group lives on one of the outputs K.
Placed(d, K) ==
  /\ \A w \in DOMAIN d.tile : d.tile[w][1] \in K
  /\ \A w \in DOMAIN d.tag : d.tag[w][1] \in K
  /\ \A g \in d.groups : g.home[1] \in K

LEMMA NarrowMaps ==
  ASSUME NEW L, NEW K, NEW f \in Maps(Keys(L)), \A w \in DOMAIN f : f[w][1] \in K
  PROVE  f \in Maps(Keys(K))
<1>1. f = [w \in DOMAIN f |-> f[w]] /\ DOMAIN f \subseteq Window
      /\ \A w \in DOMAIN f : f[w] \in Keys(L)
  BY MapsType
<1>2. \A w \in DOMAIN f : f[w] \in Keys(K) BY <1>1 DEF Keys
<1> QED BY <1>1, <1>2, MapsType

LEMMA NarrowHeld ==
  ASSUME NEW L, NEW d, Held(d, L), NEW K \in SUBSET Output, Placed(d, K), d.live \subseteq K
  PROVE  Held(d, K)
<1>1. d \in Desks(L) BY DEF Held
<1>2. d.tile \in Maps(Keys(K)) /\ d.tag \in Maps(Keys(K))
  <2>1. d.tile \in Maps(Keys(L)) /\ d.tag \in Maps(Keys(L)) BY <1>1 DEF Desks
  <2> QED BY <2>1, NarrowMaps DEF Placed
<1>3. d.groups \subseteq Groups(K)
  <2>1. ASSUME NEW g \in d.groups PROVE g \in Groups(K)
    <3>1. g \in Groups(L) BY <1>1 DEF Desks
    <3>2. g.home \in Keys(K) BY <3>1 DEF Groups, Keys, Placed
    <3> QED BY <3>1, <3>2 DEF Groups
  <2> QED BY <2>1
<1>4. d \in Desks(K) BY <1>1, <1>2, <1>3 DEF Desks
<1> QED BY <1>4 DEF Held

LEMMA WiderHeld ==
  ASSUME NEW L, NEW d, Held(d, L)
  PROVE  Held(d, Output)
<1>1. d \in Desks(L) /\ L \subseteq Output BY DEF Held
<1>2. Keys(L) \subseteq Keys(Output) BY <1>1 DEF Keys
<1>3. Maps(Keys(L)) \subseteq Maps(Keys(Output)) BY <1>2, WiderMaps
<1>4. Groups(L) \subseteq Groups(Output) BY <1>2 DEF Groups
<1>5. d \in Desks(Output) BY <1>1, <1>3, <1>4 DEF Desks
<1> QED BY <1>5 DEF Held

\* A desk lives where its windows are.
LEMMA HeldPlaced ==
  ASSUME NEW L, NEW d, Held(d, L)
  PROVE  Placed(d, L)
<1>1. d.tile \in Maps(Keys(L)) /\ d.tag \in Maps(Keys(L)) /\ d.groups \subseteq Groups(L)
  BY DEF Held, Desks
<1>2. \A w \in DOMAIN d.tile : d.tile[w] \in Keys(L) BY <1>1, MapsType
<1>3. \A w \in DOMAIN d.tag : d.tag[w] \in Keys(L) BY <1>1, MapsType
<1>4. \A k \in Keys(L) : k[1] \in L BY DEF Keys
<1>5. \A g \in d.groups : g.home \in Keys(L) BY <1>1 DEF Groups
<1> QED BY <1>2, <1>3, <1>4, <1>5 DEF Placed

LEMMA SamePlaced ==
  ASSUME NEW K, NEW d, NEW e, Same(e, d), Placed(d, K)
  PROVE  Placed(e, K)
  BY DEF Same, Placed

\* The map g is f with the windows S on output to.
Sent(g, f, S, to) == \A w \in DOMAIN f : g[w][1] = IF w \in S THEN to ELSE f[w][1]

\* The tiles of S keep their workspace and go to the output `to`.
Shipped(tile, old, S, to) ==
  \A w \in DOMAIN old : tile[w] = IF w \in S THEN <<to, old[w][2]>> ELSE old[w]

\* The windows S, which have a tile or a tag, move to an output.
LEMMA ResettledKept ==
  ASSUME NEW L, NEW d, Held(d, L), NEW S, S \subseteq DOMAIN d.tile \cup DOMAIN d.tag, NEW to \in L
  PROVE  LET e == Resettled(d, S, to)
         IN  /\ Kept(e, d, L) /\ e.groups = d.groups
             /\ Sent(e.tile, d.tile, S, to) /\ Sent(e.tag, d.tag, S, to)
             /\ Shipped(e.tile, d.tile, S, to)
<1> DEFINE key == [w \in S |-> <<to, IF IsTiled(d, w) THEN d.tile[w][2] ELSE d.tag[w][2]>>]
           floats == S \cap DOMAIN d.tag
           open == {w \in floats : w \in d.pinned \/ IsActive(d, key[w])}
           gone == {w \in S : ~IsActive(d, key[w])}
           l == Landed(d, floats, key)
           tile == [w \in DOMAIN l.tile |-> IF w \in S THEN key[w] ELSE l.tile[w]]
           e == [l EXCEPT !.tile = tile, !.shown = (@ \ gone) \cup open]
<1>1. /\ d.shown \subseteq DOMAIN d.tile \cup DOMAIN d.tag
      /\ d.tile \in Maps(Keys(L)) /\ d.tag \in Maps(Keys(L))
  BY DEF Held, Desks
<1>2. Resettled(d, S, to) = [l EXCEPT
        !.tile = [w \in DOMAIN @ |-> IF w \in S THEN key[w] ELSE @[w]],
        !.shown = (@ \ gone) \cup open]
  BY DEF Resettled
<1>3. \A w \in S : key[w] \in Keys(L) /\ key[w][1] = to
  <2>1. \A w \in DOMAIN d.tile : d.tile[w] \in Keys(L) BY <1>1, MapsType
  <2>2. \A w \in DOMAIN d.tag : d.tag[w] \in Keys(L) BY <1>1, MapsType
  <2>3. ASSUME NEW w \in S PROVE key[w] \in Keys(L) /\ key[w][1] = to
    <3>1. (IF IsTiled(d, w) THEN d.tile[w][2] ELSE d.tag[w][2]) \in Workspace
      BY <2>1, <2>2 DEF IsTiled, Keys
    <3> QED BY <3>1 DEF Keys
  <2> QED BY <2>3
<1>4. open \subseteq DOMAIN d.tag /\ floats \subseteq S OBVIOUS
<1>5. \A w \in DOMAIN d.tag : w \in floats <=> w \in S OBVIOUS
<1>20. \A w \in S \cap DOMAIN d.tile : key[w] = <<to, d.tile[w][2]>> BY DEF IsTiled
<1> HIDE DEF key, floats, open, gone
<1>6. /\ Kept(l, d, L) /\ l.tile = d.tile /\ l.groups = d.groups /\ l.shown = d.shown
      /\ l.tag = [w \in DOMAIN d.tag |-> IF w \in floats THEN key[w] ELSE d.tag[w]]
  <2>1. \A w \in floats : key[w] \in Keys(L) BY <1>3, <1>4
  <2>2. Kept(l, d, L) BY <2>1, LandedKept
  <2>3. d \in Desks(L) BY DEF Held
  <2>5. l.tile = d.tile /\ l.groups = d.groups /\ l.shown = d.shown BY <2>3 DEF Landed, Desks
  <2>4. l.tag = [w \in DOMAIN d.tag |-> IF w \in floats THEN key[w] ELSE d.tag[w]]
    BY <2>1, LandedKept
  <2> QED BY <2>2, <2>4, <2>5
<1> HIDE DEF l
<1>7. l \in Desks(L) /\ Held(l, L) BY <1>6 DEF Kept, Held
<1>8. Resettled(d, S, to) = e BY <1>2, <1>7 DEF Desks
<1>9. tile \in Maps(Keys(L))
  <2>1. l.tile \in Maps(Keys(L)) BY <1>7 DEF Desks
  <2>2. \A w \in S : key[w] \in Keys(L) BY <1>3
  <2> QED BY ONLY <2>1, <2>2, Overwritten
<1>10. DOMAIN tile = DOMAIN d.tile BY <1>6
<1>11. \A w \in DOMAIN d.tile : tile[w] = IF w \in S THEN key[w] ELSE d.tile[w] BY <1>6
<1> HIDE DEF tile
<1>12. open \subseteq Window BY <1>1, <1>4, MapsType
<1>13. /\ e \in Desks(L) /\ e.live = l.live /\ e.mapped = l.mapped /\ e.groups = l.groups
       /\ e.tile = tile /\ e.tag = l.tag /\ e.shown = (l.shown \ gone) \cup open
  BY <1>7, <1>9, <1>12 DEF Desks
<1> HIDE DEF e
<1>14. DOMAIN l.tag = DOMAIN d.tag BY <1>6
<1>15. e.shown \subseteq DOMAIN l.tile \cup DOMAIN l.tag BY <1>1, <1>4, <1>6, <1>13, <1>14
<1>16. Kept(e, l, L) BY <1>6, <1>7, <1>10, <1>13, <1>15, RetabbedSame, KeptPlaces
<1>17. Kept(e, d, L) BY <1>6, <1>16, KeptTwice
<1>18. Sent(e.tile, d.tile, S, to) BY <1>3, <1>11, <1>13 DEF Sent
<1>19. Sent(e.tag, d.tag, S, to) BY <1>3, <1>5, <1>6, <1>13 DEF Sent
<1>21. Shipped(e.tile, d.tile, S, to) BY <1>11, <1>13, <1>20 DEF Shipped
<1> QED BY <1>6, <1>8, <1>13, <1>17, <1>18, <1>19, <1>21

\* Where the places of an output are when it is gone.
Fled(from, to) == [k \in Key |-> IF k[1] = from THEN <<to, k[2]>> ELSE k]

\* migrate_output_windows leaves nothing on the output that goes.
LEMMA MigrateKept ==
  ASSUME NEW L, NEW d, Held(d, L), NEW K, Placed(d, K),
         NEW from, NEW to \in L, to \in K, to # from
  PROVE  /\ Kept(Migrate(d, from, to), d, L) /\ Placed(Migrate(d, from, to), K \ {from})
         /\ Relocated(Migrate(d, from, to), d, Fled(from, to))
<1> DEFINE home == [k \in Key |-> IF k[1] = from THEN <<to, k[2]>> ELSE k]
           full == {w \in DOMAIN d.full : d.full[w].output = from}
           mover == IF full = {} THEN {} ELSE {CHOOSE w \in full : TRUE}
           b == Demoted(d, mover, to)
           e == IF full = {} THEN d ELSE FullTo(b, mover, to)
           f == MaxiTo(e, {w \in DOMAIN e.maxi : e.maxi[w] = from}, to)
           in == {w \in DOMAIN f.tile : f.tile[w][1] = from}
                   \cup {w \in DOMAIN f.tag : f.tag[w][1] = from}
           r == Resettled(f, in, to)
           h == Rehomed(r, home)
<1>1. Migrate(d, from, to) = h BY DEF Migrate
<1>18. home = Fled(from, to) BY DEF Fled
<1>2. to \in Output /\ L \subseteq Output BY DEF Held
<1>3. Held(e, L) /\ Same(e, d)
  <2>1. Held(b, L) /\ Same(b, d) BY DemotedKeeps
  <2> HIDE DEF b
  <2>2. Held(FullTo(b, mover, to), L) /\ Same(FullTo(b, mover, to), b) BY <1>2, <2>1, FullToKeeps
  <2>3. Same(FullTo(b, mover, to), d) BY <2>1, <2>2, SameTwice
  <2>4. Same(d, d) BY DEF Same
  <2> QED BY <2>2, <2>3, <2>4
<1> HIDE DEF e
<1>4. Held(f, L) /\ Same(f, e) BY <1>2, <1>3, MaxiToKeeps
<1> HIDE DEF f
<1>5. Same(f, d) BY <1>3, <1>4, SameTwice
<1>6. Placed(f, K) BY <1>5, SamePlaced
<1>7. in \subseteq DOMAIN f.tile \cup DOMAIN f.tag OBVIOUS
<1>8. /\ Kept(r, f, L) /\ r.groups = f.groups
      /\ Sent(r.tile, f.tile, in, to) /\ Sent(r.tag, f.tag, in, to)
      /\ Shipped(r.tile, f.tile, in, to)
  <2> HIDE DEF in
  <2>1. Kept(r, f, L) BY <1>4, <1>7, ResettledKept
  <2>2. r.groups = f.groups BY <1>4, <1>7, ResettledKept
  <2>3. Sent(r.tile, f.tile, in, to) BY <1>4, <1>7, ResettledKept
  <2>4. Sent(r.tag, f.tag, in, to) BY <1>4, <1>7, ResettledKept
  <2>5. Shipped(r.tile, f.tile, in, to) BY <1>4, <1>7, ResettledKept
  <2> QED BY <2>1, <2>2, <2>3, <2>4, <2>5
<1>19. \A w \in DOMAIN f.tile : r.tile[w] = home[f.tile[w]]
  <2>1. DOMAIN f.tile \cap DOMAIN f.tag = {} BY <1>4 DEF Held, Once
  <2>2. \A w \in DOMAIN f.tile : f.tile[w] \in Keys(L) BY <1>4, MapsType DEF Held, Desks
  <2>3. \A w \in DOMAIN f.tile : w \in in <=> f.tile[w][1] = from BY <2>1
  <2>4. \A k \in Keys(L) : home[k] = IF k[1] = from THEN <<to, k[2]>> ELSE k
    BY <1>2 DEF Keys, Key
  <2> HIDE DEF in, home, r
  <2> QED BY <1>8, <2>2, <2>3, <2>4 DEF Shipped
<1> HIDE DEF r
<1>9. \A w \in DOMAIN f.tile : r.tile[w][1] \in K \ {from} BY <1>6, <1>8 DEF Placed, Sent
<1>10. \A w \in DOMAIN f.tag : r.tag[w][1] \in K \ {from} BY <1>6, <1>8 DEF Placed, Sent
<1>11. \A k \in Keys(L) : home[k] \in Keys(L)
                          /\ home[k][1] = IF k[1] = from THEN to ELSE k[1]
  BY <1>2 DEF Keys, Key
<1> HIDE DEF home, in
<1>12. Kept(h, r, L) BY <1>8, <1>11, RehomedKept DEF Kept
<1>13. r \in Desks(L) BY <1>8 DEF Kept, Held
<1>14. /\ h.tile = r.tile /\ h.tag = r.tag
       /\ h.groups = {[g EXCEPT !.home = home[g.home]] : g \in r.groups}
  BY <1>13 DEF Rehomed, Desks
<1> HIDE DEF h
<1>15. \A g \in h.groups : g.home[1] \in K \ {from}
  <2>1. ASSUME NEW g \in r.groups
        PROVE  [g EXCEPT !.home = home[g.home]].home[1] \in K \ {from}
    <3>1. g \in Groups(L) BY <1>13 DEF Desks
    <3>2. g.home \in Keys(L) BY <3>1 DEF Groups, Keys
    <3>3. [g EXCEPT !.home = home[g.home]].home = home[g.home] BY <3>1 DEF Groups
    <3>4. g.home[1] \in K BY <1>6, <1>8 DEF Placed
    <3> QED BY <1>11, <3>2, <3>3, <3>4
  <2> QED BY <1>14, <2>1
<1>16. Placed(h, K \ {from})
  <2>1. DOMAIN r.tile = DOMAIN f.tile /\ DOMAIN r.tag = DOMAIN f.tag BY <1>8 DEF Kept, Rearranged
  <2> QED BY <1>9, <1>10, <1>14, <1>15, <2>1 DEF Placed
<1>17. Kept(h, d, L)
  <2>1. Kept(f, d, L) BY <1>4, <1>5, KeptSame
  <2> QED BY <1>8, <1>12, <2>1, KeptTwice
<1>20. Relocated(h, f, home)
  <2>1. \A w \in DOMAIN f.tile : w \in DOMAIN h.tile /\ h.tile[w] = home[f.tile[w]]
    BY <1>8, <1>14, <1>19 DEF Kept, Rearranged
  <2>2. ASSUME NEW g \in h.groups
        PROVE  \E x \in f.groups : ActiveTab(g) = ActiveTab(x) /\ g.home = home[x.home]
    <3>1. PICK x \in f.groups : g = [x EXCEPT !.home = home[x.home]] BY <1>8, <1>14, <2>2
    <3>2. x \in Groups(L) BY <1>4 DEF Held, Desks
    <3>3. g.home = home[x.home] /\ g.members = x.members /\ g.active = x.active
      BY <3>1, <3>2 DEF Groups
    <3> QED BY <3>3 DEF ActiveTab
  <2> QED BY <2>1, <2>2 DEF Relocated
<1>21. Relocated(h, d, Fled(from, to))
  <2>1. f.tile = d.tile /\ f.groups = d.groups BY <1>5 DEF Same
  <2> QED BY <1>18, <1>20, <2>1 DEF Relocated
<1> QED BY <1>1, <1>16, <1>17, <1>21

\* move_window_to_output
LEMMA RecalledKept ==
  ASSUME NEW L, NEW d, Held(d, L), NEW w \in DOMAIN d.tile \cup DOMAIN d.tag, NEW to \in L
  PROVE  Kept(Recalled(d, w, to), d, L)
<1> DEFINE e == IF IsFull(d, w) THEN Demoted(d, {w}, to) ELSE d
           m == Modes(e, {w}, to)
           r == Resettled(m, {w}, to)
<1>1. Recalled(d, w, to) = r BY DEF Recalled
<1>2. to \in Output BY DEF Held
<1>3. Held(e, L) /\ Same(e, d) BY DemotedKeeps DEF Same
<1> HIDE DEF e
<1>4. Held(m, L) /\ Same(m, e) BY <1>2, <1>3, ModesKeeps
<1> HIDE DEF m
<1>5. Kept(m, d, L) BY <1>3, <1>4, SameTwice, KeptSame
<1>6. {w} \subseteq DOMAIN m.tile \cup DOMAIN m.tag BY <1>5 DEF Kept, Rearranged
<1>7. Kept(r, m, L) BY <1>4, <1>6, ResettledKept
<1> QED BY <1>1, <1>5, <1>7, KeptTwice

\* One output after the other.
Adopting(d, o, orphaned, n, f) ==
  f = [i \in 0 .. n |-> IF i = 0 THEN d ELSE Migrate(f[i - 1], orphaned[i], o)]

LEMMA AdoptingExists ==
  ASSUME NEW d, NEW o, NEW orphaned, NEW n \in Nat
  PROVE  \E f : Adopting(d, o, orphaned, n, f)
<1> DEFINE Bad == {m \in Nat : ~\E f : Adopting(d, o, orphaned, m, f)}
<1>1. SUFFICES ASSUME Bad # {} PROVE FALSE BY Zenon
<1>2. PICK m \in Bad : \A k \in Bad : m <= k
  <2>1. Bad \in SUBSET Nat OBVIOUS
  <2> HIDE DEF Bad
  <2> QED BY <1>1, <2>1, Lowest
<1>3. m \in Nat /\ \A k \in Nat : k < m => k \notin Bad BY <1>2
<1>4. CASE m = 0
  <2> DEFINE f == [i \in 0 .. m |-> d]
  <2>1. f = [i \in 0 .. m |-> IF i = 0 THEN d ELSE Migrate(f[i - 1], orphaned[i], o)]
    BY <1>4
  <2>2. Adopting(d, o, orphaned, m, f) BY <2>1 DEF Adopting
  <2> QED BY <2>2
<1>5. CASE m # 0
  <2>1. m \in Nat /\ m - 1 \in Nat /\ m - 1 < m BY <1>5
  <2>2. m - 1 \notin Bad
    <3> HIDE DEF Bad
    <3> QED BY <1>3, <2>1
  <2>3. PICK g : Adopting(d, o, orphaned, m - 1, g) BY <2>1, <2>2
  <2> DEFINE step(x, i) == Migrate(x, orphaned[i], o)
             f == [i \in 0 .. m |-> IF i = m THEN step(g[m - 1], m) ELSE g[i]]
  <2>4. g = [i \in 0 .. m - 1 |-> IF i = 0 THEN d ELSE step(g[i - 1], i)]
    BY <2>3 DEF Adopting
  <2> HIDE DEF step
  <2>5. f = [i \in 0 .. m |-> IF i = 0 THEN d ELSE step(f[i - 1], i)]
    <3>1. ASSUME NEW i \in 0 .. m
          PROVE  f[i] = IF i = 0 THEN d ELSE step(f[i - 1], i)
      <4>1. CASE i = m BY <1>5, <2>1, <4>1
      <4>2. CASE i # m
        <5>1. i \in 0 .. m - 1 BY <2>1, <3>1, <4>2
        <5>2. f[i] = g[i] BY <4>2
        <5>3. i # 0 => f[i - 1] = g[i - 1] BY <2>1, <5>1
        <5> QED BY <2>4, <5>1, <5>2, <5>3
      <4> QED BY <4>1, <4>2
    <3>2. f = [i \in 0 .. m |-> f[i]] OBVIOUS
    <3> HIDE DEF f
    <3> QED BY <3>1, <3>2
  <2>6. Adopting(d, o, orphaned, m, f) BY <2>5 DEF Adopting, step
  <2> HIDE DEF f
  <2> QED BY <2>6
<1> QED BY <1>4, <1>5

LEMMA AdoptIs ==
  ASSUME NEW d, NEW o, NEW orphaned, Len(orphaned) \in Nat
  PROVE  \E f : /\ Adopting(d, o, orphaned, Len(orphaned), f)
                /\ Adopt(d, o, orphaned) = f[Len(orphaned)]
<1> DEFINE n == Len(orphaned)
           a == CHOOSE f : Adopting(d, o, orphaned, n, f)
<1>1. Adopt(d, o, orphaned) = a[n] BY DEF Adopt, Adopting
<1>2. Adopting(d, o, orphaned, n, a) BY AdoptingExists
<1> QED BY <1>1, <1>2

\* An order of a finite set names each of its elements.
LEMMA Orders ==
  ASSUME NEW S, IsFiniteSet(S), NEW s \in SetToSeqs(S)
  PROVE  /\ Len(s) \in Nat
         /\ \A i \in 1 .. Len(s) : s[i] \in S
         /\ \A x \in S : \E i \in 1 .. Len(s) : s[i] = x
<1> DEFINE n == Cardinality(S)
<1>1. n \in Nat BY FS_CardinalityType
<1>2. s \in [1 .. n -> S] /\ \A i, j \in 1 .. n : i # j => s[i] # s[j] BY DEF SetToSeqs
<1>3. s \in Seq(S) /\ Len(s) = n BY <1>1, <1>2, IsASeq, LenProperties
<1>4. s \in Injection(1 .. n, S) BY <1>2 DEF Injection, IsInjective
<1>5. Cardinality(1 .. n) = n BY <1>1, FS_Interval
<1>6. s \in Surjection(1 .. n, S) BY <1>4, <1>5, FS_Injection
<1>7. \A x \in S : \E i \in 1 .. n : s[i] = x BY <1>6 DEF Surjection
<1> QED BY <1>1, <1>2, <1>3, <1>7

\* adopt_orphaned_output_windows leaves nothing on the outputs it is given.
LEMMA AdoptKept ==
  ASSUME NEW L, NEW d, Held(d, L), NEW K, Placed(d, K), NEW o \in L, o \in K,
         NEW s, Len(s) \in Nat, \A i \in 1 .. Len(s) : s[i] # o
  PROVE  /\ Kept(Adopt(d, o, s), d, L)
         /\ Placed(Adopt(d, o, s), K \ {s[i] : i \in 1 .. Len(s)})
         /\ Leafed(d) => Leafed(Adopt(d, o, s))
<1> DEFINE n == Len(s)
           left(i) == K \ {s[j] : j \in 1 .. i}
<1>1. PICK f : Adopting(d, o, s, n, f) /\ Adopt(d, o, s) = f[n] BY AdoptIs
<1>2. \A i \in 0 .. n : f[i] = IF i = 0 THEN d ELSE Migrate(f[i - 1], s[i], o)
  BY <1>1, Zenon DEF Adopting
<1> DEFINE Bad == {i \in 0 .. n : ~(/\ Kept(f[i], d, L) /\ Placed(f[i], left(i))
                                    /\ Leafed(d) => Leafed(f[i]))}
<1>3. Bad = {}
  <2>1. SUFFICES ASSUME Bad # {} PROVE FALSE OBVIOUS
  <2>2. PICK m \in Bad : \A k \in Bad : m <= k
    <3>1. Bad \in SUBSET Nat OBVIOUS
    <3> HIDE DEF Bad
    <3> QED BY <2>1, <3>1, Lowest
  <2>3. CASE m = 0
    <3>1. f[0] = d BY <1>2, <2>3
    <3>2. Kept(d, d, L) BY KeptSame DEF Same
    <3>3. left(0) = K OBVIOUS
    <3> QED BY <2>2, <2>3, <3>1, <3>2, <3>3
  <2>4. CASE m # 0
    <3>1. m \in 1 .. n /\ m - 1 \in 0 .. n /\ ~(m <= m - 1) BY <2>2, <2>4
    <3>2. m - 1 \notin Bad
      <4> HIDE DEF Bad
      <4> QED BY <2>2, <3>1
    <3>3. /\ Kept(f[m - 1], d, L) /\ Placed(f[m - 1], left(m - 1))
          /\ Leafed(d) => Leafed(f[m - 1])
      BY <3>1, <3>2
    <3>4. f[m] = Migrate(f[m - 1], s[m], o) BY <1>2, <2>4, <3>1
    <3>5. o # s[m] /\ o \in left(m - 1) BY <3>1
    <3>6. left(m - 1) \ {s[m]} = left(m)
      <4>1. 1 .. m = (1 .. m - 1) \cup {m} BY <3>1
      <4> QED BY <4>1
    <3>7. Held(f[m - 1], L) BY <3>3 DEF Kept
    <3> HIDE DEF left
    <3>8. Kept(f[m], f[m - 1], L) /\ Placed(f[m], left(m - 1) \ {s[m]})
      BY <3>3, <3>4, <3>5, <3>7, MigrateKept
    <3>9. Kept(f[m], d, L) BY <3>3, <3>8, KeptTwice
    <3>10. Relocated(f[m], f[m - 1], Fled(s[m], o)) BY <3>3, <3>4, <3>5, <3>7, MigrateKept
    <3>11. Leafed(d) => Leafed(f[m]) BY <3>3, <3>10, RelocatedLeafed
    <3> QED BY <2>2, <3>6, <3>8, <3>9, <3>11
  <2> QED BY <2>3, <2>4
<1>4. Kept(f[n], d, L) /\ Placed(f[n], left(n)) /\ (Leafed(d) => Leafed(f[n]))
  <2>1. n \in 0 .. n OBVIOUS
  <2> HIDE DEF left
  <2> QED BY <1>3, <2>1
<1> QED BY <1>1, <1>4

\* One window after the other.
Recalling(d, o, windows, n, f) ==
  f = [i \in 0 .. n |-> IF i = 0 THEN d ELSE Recalled(f[i - 1], windows[i], o)]

LEMMA RecallingExists ==
  ASSUME NEW d, NEW o, NEW windows, NEW n \in Nat
  PROVE  \E f : Recalling(d, o, windows, n, f)
<1> DEFINE Bad == {m \in Nat : ~\E f : Recalling(d, o, windows, m, f)}
<1>1. SUFFICES ASSUME Bad # {} PROVE FALSE BY Zenon
<1>2. PICK m \in Bad : \A k \in Bad : m <= k
  <2>1. Bad \in SUBSET Nat OBVIOUS
  <2> HIDE DEF Bad
  <2> QED BY <1>1, <2>1, Lowest
<1>3. m \in Nat /\ \A k \in Nat : k < m => k \notin Bad BY <1>2
<1>4. CASE m = 0
  <2> DEFINE f == [i \in 0 .. m |-> d]
  <2>1. f = [i \in 0 .. m |-> IF i = 0 THEN d ELSE Recalled(f[i - 1], windows[i], o)]
    BY <1>4
  <2>2. Recalling(d, o, windows, m, f) BY <2>1 DEF Recalling
  <2> QED BY <2>2
<1>5. CASE m # 0
  <2>1. m \in Nat /\ m - 1 \in Nat /\ m - 1 < m BY <1>5
  <2>2. m - 1 \notin Bad
    <3> HIDE DEF Bad
    <3> QED BY <1>3, <2>1
  <2>3. PICK g : Recalling(d, o, windows, m - 1, g) BY <2>1, <2>2
  <2> DEFINE step(x, i) == Recalled(x, windows[i], o)
             f == [i \in 0 .. m |-> IF i = m THEN step(g[m - 1], m) ELSE g[i]]
  <2>4. g = [i \in 0 .. m - 1 |-> IF i = 0 THEN d ELSE step(g[i - 1], i)]
    BY <2>3 DEF Recalling
  <2> HIDE DEF step
  <2>5. f = [i \in 0 .. m |-> IF i = 0 THEN d ELSE step(f[i - 1], i)]
    <3>1. ASSUME NEW i \in 0 .. m
          PROVE  f[i] = IF i = 0 THEN d ELSE step(f[i - 1], i)
      <4>1. CASE i = m BY <1>5, <2>1, <4>1
      <4>2. CASE i # m
        <5>1. i \in 0 .. m - 1 BY <2>1, <3>1, <4>2
        <5>2. f[i] = g[i] BY <4>2
        <5>3. i # 0 => f[i - 1] = g[i - 1] BY <2>1, <5>1
        <5> QED BY <2>4, <5>1, <5>2, <5>3
      <4> QED BY <4>1, <4>2
    <3>2. f = [i \in 0 .. m |-> f[i]] OBVIOUS
    <3> HIDE DEF f
    <3> QED BY <3>1, <3>2
  <2>6. Recalling(d, o, windows, m, f) BY <2>5 DEF Recalling, step
  <2> HIDE DEF f
  <2> QED BY <2>6
<1> QED BY <1>4, <1>5

LEMMA RecallIs ==
  ASSUME NEW d, NEW o, NEW windows, Len(windows) \in Nat
  PROVE  \E f : /\ Recalling(d, o, windows, Len(windows), f)
                /\ Recall(d, o, windows) = Retile(f[Len(windows)])
<1> DEFINE n == Len(windows)
           a == CHOOSE f : Recalling(d, o, windows, n, f)
<1>1. Recall(d, o, windows) = Retile(a[n]) BY DEF Recall, Recalling
<1>2. Recalling(d, o, windows, n, a) BY RecallingExists
<1> QED BY <1>1, <1>2


\* recall_pinned_windows_to
LEMMA RecallKept ==
  ASSUME NEW L, NEW d, Held(d, L), NEW o \in L,
         NEW s, Len(s) \in Nat, \A i \in 1 .. Len(s) : s[i] \in DOMAIN d.tile \cup DOMAIN d.tag
  PROVE  Kept(Recall(d, o, s), d, L)
<1> DEFINE n == Len(s)
<1>1. PICK f : Recalling(d, o, s, n, f) /\ Recall(d, o, s) = Retile(f[n]) BY RecallIs
<1>2. \A i \in 0 .. n : f[i] = IF i = 0 THEN d ELSE Recalled(f[i - 1], s[i], o)
  BY <1>1, Zenon DEF Recalling
<1> DEFINE Bad == {i \in 0 .. n : ~Kept(f[i], d, L)}
<1>3. Bad = {}
  <2>1. SUFFICES ASSUME Bad # {} PROVE FALSE OBVIOUS
  <2>2. PICK m \in Bad : \A k \in Bad : m <= k
    <3>1. Bad \in SUBSET Nat OBVIOUS
    <3> HIDE DEF Bad
    <3> QED BY <2>1, <3>1, Lowest
  <2>3. CASE m = 0
    <3>1. f[0] = d BY <1>2, <2>3
    <3>2. Kept(d, d, L) BY KeptSame DEF Same
    <3> QED BY <2>2, <2>3, <3>1, <3>2
  <2>4. CASE m # 0
    <3>1. m \in 1 .. n /\ m - 1 \in 0 .. n /\ ~(m <= m - 1) BY <2>2, <2>4
    <3>2. m - 1 \notin Bad
      <4> HIDE DEF Bad
      <4> QED BY <2>2, <3>1
    <3>3. Kept(f[m - 1], d, L) BY <3>1, <3>2
    <3>4. f[m] = Recalled(f[m - 1], s[m], o) BY <1>2, <2>4, <3>1
    <3>5. Held(f[m - 1], L) BY <3>3 DEF Kept
    <3>6. s[m] \in DOMAIN f[m - 1].tile \cup DOMAIN f[m - 1].tag
      BY <3>1, <3>3 DEF Kept, Rearranged
    <3>7. Kept(f[m], f[m - 1], L) BY <3>4, <3>5, <3>6, RecalledKept
    <3>8. Kept(f[m], d, L) BY <3>3, <3>7, KeptTwice
    <3> QED BY <2>2, <3>8
  <2> QED BY <2>3, <2>4
<1>4. Kept(f[n], d, L)
  <2>1. n \in 0 .. n OBVIOUS
  <2> QED BY <1>3, <2>1
<1> QED BY <1>1, <1>4, RetileKept

\* A change of which outputs are lit.
LEMMA LitHeld ==
  ASSUME NEW L, NEW d, Held(d, L), NEW live \in SUBSET L
  PROVE  /\ Held([d EXCEPT !.live = live], L)
         /\ [d EXCEPT !.live = live].live = live
         /\ \A K : Placed([d EXCEPT !.live = live], K) <=> Placed(d, K)
<1> DEFINE e == [d EXCEPT !.live = live]
<1>1. d \in Desks(L) BY DEF Held
<1>2. /\ e \in Desks(L) /\ e.live = live /\ e.mapped = d.mapped /\ e.groups = d.groups
      /\ e.tile = d.tile /\ e.tag = d.tag /\ e.shown = d.shown
  BY <1>1 DEF Desks
<1> HIDE DEF e
<1>3. Held(e, L) BY <1>2 DEF Held, Once, Parked
<1>4. \A K : Placed(e, K) <=> Placed(d, K) BY <1>2 DEF Placed
<1> QED BY <1>2, <1>3, <1>4 DEF e

\* Where the windows of a desk may live: on a lit output while there is one.
Reach(d) == IF d.live = {} THEN Output ELSE d.live

LEMMA DisconnectHeld ==
  ASSUME NEW d, Held(d, Reach(d)), NEW o \in d.live, NEW fallback,
         IF d.live = {o} THEN fallback = NoOutput ELSE fallback \in d.live \ {o}
  PROVE  Held(Disconnect(d, o, fallback), Reach(Disconnect(d, o, fallback)))
<1> DEFINE L == Reach(d)
           e == IF fallback = NoOutput THEN d ELSE Migrate(d, o, fallback)
           live == d.live \ {o}
           K == IF live = {} THEN Output ELSE live
           b == [e EXCEPT !.live = live]
<1>1. L = d.live /\ L \subseteq Output BY DEF Reach, Held
<1>2. Held(e, L) /\ e.live = d.live /\ Placed(e, K)
  <2>1. CASE d.live = {o}
    <3>1. e = d /\ K = Output BY <2>1
    <3>2. Placed(d, L) BY HeldPlaced
    <3>3. Placed(d, Output) BY <1>1, <3>2 DEF Placed
    <3> QED BY <3>1, <3>3
  <2>2. CASE d.live # {o}
    <3>1. fallback \in d.live \ {o} BY <2>2
    <3>2. fallback # NoOutput BY <1>1, <3>1, ScratchAssumption
    <3>3. e = Migrate(d, o, fallback) /\ K = L \ {o} BY <1>1, <3>1, <3>2
    <3>4. Placed(d, L) BY HeldPlaced
    <3>5. fallback \in L /\ fallback # o BY <1>1, <3>1
    <3> HIDE DEF L
    <3>6. Kept(Migrate(d, o, fallback), d, L) /\ Placed(Migrate(d, o, fallback), L \ {o})
      BY <3>4, <3>5, MigrateKept DEF L
    <3> QED BY <3>3, <3>6 DEF Kept, Rearranged
  <2> QED BY <2>1, <2>2
<1>3. e \in Desks(L) BY <1>2 DEF Held
<1>4. Disconnect(d, o, fallback) = Retile(b)
  <2> HIDE DEF L
  <2>1. [e EXCEPT !.live = @ \ {o}] = b BY <1>2, <1>3 DEF Desks
  <2> QED BY <2>1 DEF Disconnect
<1>5. live \in SUBSET L BY <1>1
<1>6. K \in SUBSET Output /\ live \subseteq K BY <1>1
<1> HIDE DEF L, e, live, K
<1>7. Held(b, L) /\ b.live = live /\ Placed(b, K) BY <1>2, <1>5, LitHeld
<1> HIDE DEF b
<1>8. Held(b, K) BY <1>6, <1>7, NarrowHeld
<1>9. Held(Retile(b), K) /\ Retile(b).live = live BY <1>7, <1>8, RetileKeeps DEF Same
<1>10. Reach(Retile(b)) = K BY <1>9 DEF Reach, K
<1> QED BY <1>4, <1>9, <1>10

LEMMA OwnedOutputs ==
  ASSUME NEW L, NEW d, Held(d, L)
  PROVE  Owned(d) \subseteq Output /\ Placed(d, Owned(d))
<1>1. Placed(d, L) /\ L \subseteq Output /\ d \in Desks(L) BY HeldPlaced DEF Held
<1>2. d.full \in Maps(FullscreenEntry) /\ d.maxi \in Maps(Output) BY <1>1 DEF Desks
<1>3. \A w \in DOMAIN d.full : d.full[w] \in FullscreenEntry BY <1>2, MapsType
<1>4. \A w \in DOMAIN d.full : d.full[w].output \in Output BY <1>3 DEF FullscreenEntry
<1>5. \A w \in DOMAIN d.maxi : d.maxi[w] \in Output BY <1>2, MapsType
<1>6. /\ {d.tile[w][1] : w \in DOMAIN d.tile} \subseteq Output
      /\ {d.tag[w][1] : w \in DOMAIN d.tag} \subseteq Output
      /\ {g.home[1] : g \in d.groups} \subseteq Output
  BY <1>1 DEF Placed
<1>7. Owned(d) \subseteq Output BY <1>4, <1>5, <1>6 DEF Owned
<1>8. Placed(d, Owned(d)) BY DEF Placed, Owned
<1> QED BY <1>7, <1>8

LEMMA ConnectHeld ==
  ASSUME NEW d, Held(d, Reach(d)), NEW o \in Output,
         NEW lit, lit = [d EXCEPT !.live = @ \cup {o}],
         NEW orphaned \in SetToSeqs(Owned(lit) \ lit.live),
         NEW e, e = Adopt(lit, o, orphaned),
         NEW displaced \in SetToSeqs(Displaced(e, o))
  PROVE  Held(Recall(e, o, displaced), Reach(Recall(e, o, displaced)))
<1> DEFINE L == lit.live
           K == Owned(lit) \cup L
           gone == Owned(lit) \ L
<1>1. Held(d, Output) BY WiderHeld
<1>2. Held(lit, Output) /\ lit.live = d.live \cup {o}
  <2> DEFINE live == d.live \cup {o}
  <2>1. d \in Desks(Output) /\ live \in SUBSET Output BY <1>1 DEF Held, Desks
  <2>2. lit = [d EXCEPT !.live = live] BY <2>1 DEF Desks
  <2> HIDE DEF live
  <2>3. Held(lit, Output) BY <1>1, <2>1, <2>2, LitHeld
  <2>4. lit.live = live BY <2>1, <2>2 DEF Desks
  <2> QED BY <2>3, <2>4 DEF live
<1>3. L \subseteq Output /\ o \in L BY <1>2 DEF Held, Desks
<1>4. Owned(lit) \subseteq Output /\ Placed(lit, Owned(lit)) BY <1>2, OwnedOutputs
<1>5. Placed(lit, K) BY <1>4 DEF Placed
<1>6. IsFiniteSet(gone) BY <1>4, FiniteAssumption, FS_Subset
<1>7. /\ Len(orphaned) \in Nat /\ \A i \in 1 .. Len(orphaned) : orphaned[i] \in gone
      /\ \A x \in gone : \E i \in 1 .. Len(orphaned) : orphaned[i] = x
  <2> HIDE DEF gone
  <2>1. orphaned \in SetToSeqs(gone) BY DEF gone
  <2> QED BY <1>6, <2>1, Orders
<1>8. \A i \in 1 .. Len(orphaned) : orphaned[i] # o BY <1>3, <1>7
<1>9. K \ {orphaned[i] : i \in 1 .. Len(orphaned)} \subseteq L BY <1>7
<1>10. Kept(e, lit, Output) /\ Placed(e, K \ {orphaned[i] : i \in 1 .. Len(orphaned)})
  <2>1. o \in K BY <1>3
  <2> HIDE DEF K
  <2> QED BY <1>2, <1>5, <1>7, <1>8, <2>1, AdoptKept
<1>11. Placed(e, L) BY <1>9, <1>10 DEF Placed
<1>12. Held(e, Output) /\ e.live = L BY <1>10 DEF Kept, Rearranged
<1>13. Held(e, L) BY <1>3, <1>11, <1>12, NarrowHeld
<1>14. Displaced(e, o) \subseteq DOMAIN e.tile \cup DOMAIN e.tag
  BY DEF Displaced, IsTiled, IsTagged
<1>15. IsFiniteSet(Displaced(e, o))
  <2>1. Displaced(e, o) \subseteq DOMAIN e.pin BY DEF Displaced
  <2>2. e.pin \in Maps(PinOutput) BY <1>12 DEF Held, Desks
  <2>3. DOMAIN e.pin \subseteq Window BY <2>2, MapsType
  <2> QED BY <2>1, <2>3, FiniteAssumption, FS_Subset
<1>16. Len(displaced) \in Nat /\ \A i \in 1 .. Len(displaced) : displaced[i] \in Displaced(e, o)
  BY <1>15, Orders
<1>17. Kept(Recall(e, o, displaced), e, L) BY <1>3, <1>13, <1>14, <1>16, RecallKept
<1>18. Recall(e, o, displaced).live = L BY <1>12, <1>17 DEF Kept, Rearranged
<1>19. Reach(Recall(e, o, displaced)) = L BY <1>3, <1>18 DEF Reach
<1> QED BY <1>17, <1>19 DEF Kept

-----------------------------------------------------------------------------
(* Groups of tabs *)

\* The tabs other groups than g have parked.
Others(d, g) == UNION {ParkedIn(h) : h \in d.groups \ {g}}

LEMMA OthersApart ==
  ASSUME NEW L, NEW d, Held(d, L), NEW g \in d.groups
  PROVE  Parked(d) = Others(d, g) \cup ParkedIn(g) /\ Others(d, g) \cap Members(g) = {}
<1>1. d.groups \in SUBSET Groups(L) /\ Apart(d.groups) BY DEF Held, Desks
<1>2. Parked(d) = Others(d, g) \cup ParkedIn(g) BY DEF Parked, Others
<1>3. ASSUME NEW w \in Others(d, g), w \in Members(g) PROVE FALSE
  <2>1. PICK h \in d.groups \ {g} : w \in ParkedIn(h) BY <1>3 DEF Others
  <2>2. w \in Members(h) /\ w \in Window BY <1>1, <2>1, GroupTabs
  <2> QED BY <1>1, <1>3, <2>1, <2>2 DEF Apart
<1> QED BY <1>2, <1>3

\* The group of a tab.
LEMMA GroupOfTab ==
  ASSUME NEW d, NEW w, IsGrouped(d, w)
  PROVE  GroupOf(d, w) \in d.groups /\ w \in Members(GroupOf(d, w))
  BY DEF IsGrouped, GroupOf

\* Some groups give way to one, whose tabs no other group has.
LEMMA ReplacedApart ==
  ASSUME NEW G, Apart(G), NEW H \in SUBSET G, NEW g,
         Len(g.members) > 1, g.active \in 1 .. Len(g.members),
         \A i, j \in 1 .. Len(g.members) : g.members[i] = g.members[j] => i = j,
         \A h \in G \ H : Members(h) \cap Members(g) = {}
  PROVE  Apart((G \ H) \cup {g})
<1>1. \A h \in (G \ H) \cup {g} :
        /\ Len(h.members) > 1 /\ h.active \in 1 .. Len(h.members)
        /\ \A i, j \in 1 .. Len(h.members) : h.members[i] = h.members[j] => i = j
  BY DEF Apart
<1>2. ASSUME NEW h \in (G \ H) \cup {g}, NEW k \in (G \ H) \cup {g}, NEW w \in Window,
             w \in Members(h), w \in Members(k)
      PROVE  h = k
  <2>1. CASE h \in G \ H /\ k \in G \ H BY <1>2, <2>1 DEF Apart
  <2>2. CASE h = g \/ k = g BY <1>2, <2>2
  <2> QED BY <2>1, <2>2
<1> QED BY <1>1, <1>2 DEF Apart

\* group_activate_tab
LEMMA ActivateTabHeld ==
  ASSUME NEW L, NEW d, Held(d, L), NEW g \in d.groups, NEW tab \in 1 .. Len(g.members)
  PROVE  /\ Held(ActivateTab(d, g, tab), L) /\ ActivateTab(d, g, tab).live = d.live
         /\ Leafed(d) => Leafed(ActivateTab(d, g, tab))
<1> DEFINE old == ActiveTab(g)
           new == g.members[tab]
           g1 == [g EXCEPT !.active = tab]
           G == (d.groups \ {g}) \cup {g1}
           tile == Drop(Put(d.tile, new, d.tile[old]), {old})
           e == [d EXCEPT !.groups = G, !.tile = tile, !.shown = @ \ {old}]
<1>1. d \in Desks(L) /\ d.shown \subseteq DOMAIN d.tile \cup DOMAIN d.tag /\ L \subseteq Output
      /\ Apart(d.groups) /\ Once(d, d.mapped)
  BY DEF Held
<1>2. d.groups \in SUBSET Groups(L) /\ d.tile \in Maps(Keys(L)) BY <1>1 DEF Desks
<1>3. ActivateTab(d, g, tab) = IF tab = g.active \/ ~IsTiled(d, old) THEN d ELSE Retile(e)
  BY <1>1 DEF ActivateTab, Hidden, Desks
<1>4. SUFFICES ASSUME tab # g.active, IsTiled(d, old)
               PROVE  Held(e, L) /\ e.live = d.live /\ (Leafed(d) => Leafed(e))
  <2> HIDE DEF e
  <2>1. Held(e, L) => Still(Retile(e), e) BY RetileKeeps, SameStill
  <2>2. Held(e, L) /\ Leafed(e) => Leafed(Retile(e)) BY <2>1, StillLeafed
  <2> QED BY <1>3, <2>2, RetileKeeps DEF Same
<1>5. /\ Members(g) = {g.members[i] : i \in 1 .. Len(g.members)} /\ Members(g) \subseteq Window
      /\ ParkedIn(g) = Members(g) \ {old}
  BY <1>1, <1>2, GroupTabs DEF ParkedIn
<1>6. g \in Groups(L) /\ Len(g.members) \in Nat BY <1>2 DEF Groups
<1>7. /\ Len(g.members) > 1 /\ g.active \in 1 .. Len(g.members)
      /\ \A i, j \in 1 .. Len(g.members) : g.members[i] = g.members[j] => i = j
  BY <1>1 DEF Apart
<1>8. new \in Members(g) /\ old \in Members(g) /\ new # old BY <1>4, <1>5, <1>7 DEF ActiveTab
<1>9. g1 \in Groups(L) /\ g1.members = g.members /\ g1.active = tab BY <1>6 DEF Groups
<1> HIDE DEF g1
<1>10. Members(g1) = Members(g) /\ ParkedIn(g1) = Members(g) \ {new}
  BY <1>9 DEF Members, ParkedIn, ActiveTab
<1>11. Apart(G)
  <2>1. \A h \in d.groups \ {g} : Members(h) \cap Members(g) = {}
    BY <1>1, <1>5 DEF Apart
  <2>2. \A h \in d.groups \ {g} : Members(h) \cap Members(g1) = {} BY <1>10, <2>1
  <2>3. {g} \in SUBSET d.groups OBVIOUS
  <2> QED BY <1>1, <1>7, <1>9, <2>2, <2>3, ReplacedApart
<1>12. G \subseteq Groups(L) BY <1>2, <1>9
<1>13. UNION {ParkedIn(h) : h \in G} = Others(d, g) \cup (Members(g) \ {new})
  BY <1>10 DEF Others
<1> HIDE DEF G
<1>14. /\ tile \in Maps(Keys(L)) /\ DOMAIN tile = (DOMAIN d.tile \cup {new}) \ {old}
       /\ tile[new] = d.tile[old]
       /\ \A x \in DOMAIN d.tile \ {old, new} : tile[x] = d.tile[x]
  <2>1. d.tile[old] \in Keys(L) BY <1>2, <1>4, MapsType DEF IsTiled
  <2> DEFINE k == d.tile[old]
             p == Put(d.tile, new, k)
  <2>2. k \in Keys(L) /\ new \in Window /\ new # old BY <1>5, <1>8, <2>1
  <2> HIDE DEF k, new, old
  <2>3. p \in Maps(Keys(L)) BY <1>2, <2>2, PutMaps
  <2>4. DOMAIN p = DOMAIN d.tile \cup {new} BY DEF Put
  <2>8. p[new] = k /\ \A x \in DOMAIN d.tile \ {new} : p[x] = d.tile[x] BY DEF Put
  <2>5. tile = Drop(p, {old}) BY DEF k
  <2> HIDE DEF p, tile
  <2>6. tile \in Maps(Keys(L)) BY <2>3, <2>5, DropMaps
  <2>7. DOMAIN tile = DOMAIN p \ {old} /\ \A x \in DOMAIN p \ {old} : tile[x] = p[x]
    BY <2>5 DEF Drop, Restrict
  <2>9. tile[new] = k /\ \A x \in DOMAIN d.tile \ {old, new} : tile[x] = d.tile[x]
    BY <2>2, <2>4, <2>7, <2>8
  <2>10. k = d.tile[old] BY DEF k
  <2> QED BY <2>4, <2>6, <2>7, <2>9, <2>10
<1> HIDE DEF tile
<1>15. /\ e \in Desks(L) /\ e.live = d.live /\ e.mapped = d.mapped /\ e.groups = G
       /\ e.tile = tile /\ e.tag = d.tag /\ e.shown = d.shown \ {old}
  BY <1>1, <1>12, <1>14 DEF Desks
<1> HIDE DEF e
<1>16. Parked(e) = Others(d, g) \cup (Members(g) \ {new}) BY <1>13, <1>15 DEF Parked
<1>17. Parked(d) = Others(d, g) \cup (Members(g) \ {old}) /\ Others(d, g) \cap Members(g) = {}
  BY <1>5, OthersApart
<1>18. old \in DOMAIN d.tile BY <1>4 DEF IsTiled
<1>21. ASSUME Leafed(d) PROVE Leafed(e)
  <2>1. ActiveTab(g1) = new BY <1>9 DEF ActiveTab
  <2>2. g1.home = g.home BY <1>6 DEF g1, Groups
  <2>3. d.tile[old] = g.home BY <1>21 DEF Leafed
  <2>4. \A h \in d.groups \ {g} : ActiveTab(h) \in Members(h) BY <1>1, <1>2, GroupTabs
  <2>5. \A h \in d.groups \ {g} : Members(h) \cap Members(g) = {} BY <1>1, <1>5 DEF Apart
  <2>6. \A h \in d.groups \ {g} :
          ActiveTab(h) \in DOMAIN d.tile \ {old, new} /\ d.tile[ActiveTab(h)] = h.home
    BY <1>8, <1>21, <2>4, <2>5 DEF Leafed
  <2>7. e.groups = (d.groups \ {g}) \cup {g1} BY <1>15 DEF G
  <2>8. new \in DOMAIN tile BY <1>8, <1>14
  <2> HIDE DEF old, new
  <2> QED BY <1>14, <1>15, <2>1, <2>2, <2>3, <2>6, <2>7, <2>8 DEF Leafed
<1> HIDE DEF old, new
<1>19. Once(e, e.mapped) BY <1>1, <1>8, <1>14, <1>15, <1>16, <1>17, <1>18 DEF Once
<1>20. e.shown \subseteq DOMAIN e.tile \cup DOMAIN e.tag BY <1>1, <1>14, <1>15
<1> QED BY <1>1, <1>11, <1>15, <1>19, <1>20, <1>21 DEF Held

\* cycle_tab goes around the end.
LEMMA CycleTabHeld ==
  ASSUME NEW L, NEW d, Held(d, L), NEW w, NEW forward
  PROVE  /\ Held(CycleTab(d, w, forward), L) /\ CycleTab(d, w, forward).live = d.live
         /\ Leafed(d) => Leafed(CycleTab(d, w, forward))
<1> DEFINE g == GroupOf(d, w)
           len == Len(g.members)
           next == IF forward THEN (g.active % len) + 1 ELSE ((g.active + len - 2) % len) + 1
<1>1. CASE ~IsGrouped(d, w) BY <1>1 DEF CycleTab
<1>2. CASE IsGrouped(d, w)
  <2>1. CycleTab(d, w, forward) = ActivateTab(d, g, next) BY <1>2 DEF CycleTab
  <2>2. g \in d.groups BY <1>2, GroupOfTab
  <2>3. g \in Groups(L) /\ len > 1 /\ g.active \in 1 .. len
    BY <2>2 DEF Held, Desks, Apart
  <2>4. len \in Nat /\ g.active \in Nat BY <2>3 DEF Groups
  <2> HIDE DEF g, len
  <2>5. /\ g.active % len \in 0 .. len - 1
        /\ (g.active + len - 2) % len \in 0 .. len - 1
    BY <2>3, <2>4
  <2>6. next \in 1 .. len BY <2>3, <2>4, <2>5
  <2> HIDE DEF next
  <2> QED BY <2>1, <2>2, <2>6, ActivateTabHeld DEF len
<1> QED BY <1>1, <1>2

\* activate_toplevel
LEMMA ActivateHeld ==
  ASSUME NEW L, NEW d, Held(d, L), NEW w \in d.mapped
  PROVE  /\ Held(Activate(d, w), L) /\ Activate(d, w).live = d.live
         /\ Leafed(d) => Leafed(Activate(d, w))
<1> DEFINE key == IF IsGrouped(d, w) THEN GroupOf(d, w).home
                  ELSE IF IsTiled(d, w) THEN d.tile[w] ELSE d.tag[w]
           e == IF ~IsActive(d, key) /\ w \notin d.pinned /\ key[1] \in d.live
                THEN Switch(d, key[1], key[2]) ELSE d
           g == GroupOf(e, w)
           i == CHOOSE j \in DOMAIN g.members : g.members[j] = w
<1>1. /\ d.tile \in Maps(Keys(L)) /\ d.tag \in Maps(Keys(L)) /\ d.groups \subseteq Groups(L)
      /\ Once(d, d.mapped) /\ L \subseteq Output
  BY DEF Held, Desks
<1>2. key \in Keys(L)
  <2>1. CASE IsGrouped(d, w)
    <3>1. GroupOf(d, w) \in Groups(L) BY <1>1, <2>1, GroupOfTab
    <3>2. GroupOf(d, w).home \in Keys(L) BY <3>1 DEF Groups
    <3> QED BY <2>1, <3>2
  <2>2. CASE ~IsGrouped(d, w) /\ IsTiled(d, w) BY <1>1, <2>2, MapsType DEF IsTiled
  <2>3. CASE ~IsGrouped(d, w) /\ ~IsTiled(d, w)
    <3>1. w \notin Parked(d) BY <2>3 DEF Parked, ParkedIn, IsGrouped
    <3>2. w \in DOMAIN d.tag BY <1>1, <2>3, <3>1 DEF Once, IsTiled
    <3> QED BY <1>1, <2>3, <3>2, MapsType
  <2> QED BY <2>1, <2>2, <2>3
<1> HIDE DEF key
<1>3. key[1] \in Output /\ key[2] \in Workspace BY <1>1, <1>2 DEF Keys
<1>4. Held(e, L) /\ e.live = d.live BY <1>3, SwitchKept DEF Kept, Rearranged
<1>8. Still(e, d) BY <1>3, SwitchKept DEF Still
<1>9. Leafed(d) => Leafed(e) BY <1>8, StillLeafed
<1>5. Activate(d, w) = IF ~IsGrouped(e, w) THEN e ELSE ActivateTab(e, g, i)
  BY DEF Activate, key
<1> HIDE DEF e
<1>6. CASE ~IsGrouped(e, w) BY <1>4, <1>5, <1>6, <1>9
<1>7. CASE IsGrouped(e, w)
  <2>1. g \in e.groups /\ w \in Members(g) BY <1>7, GroupOfTab
  <2>2. e.groups \in SUBSET Groups(L) /\ Apart(e.groups) BY <1>4 DEF Held, Desks
  <2>3. g \in Groups(L) BY <2>1, <2>2
  <2> HIDE DEF g
  <2>4. DOMAIN g.members = 1 .. Len(g.members) BY <2>3 DEF Groups
  <2>5. \E j \in DOMAIN g.members : g.members[j] = w BY <2>1 DEF Members, Range
  <2>6. i \in 1 .. Len(g.members) BY <2>4, <2>5
  <2> HIDE DEF i
  <2>7. /\ Held(ActivateTab(e, g, i), L) /\ ActivateTab(e, g, i).live = e.live
        /\ Leafed(e) => Leafed(ActivateTab(e, g, i))
    BY <1>4, <2>1, <2>6, ActivateTabHeld
  <2> QED BY <1>4, <1>5, <1>7, <1>9, <2>7
<1> QED BY <1>6, <1>7

\* group_with: the second window gives up its leaf for a place in the group.
LEMMA GroupWithHeld ==
  ASSUME NEW L, NEW d, Held(d, L), NEW a, NEW b
  PROVE  /\ Held(GroupWith(d, a, b), L) /\ GroupWith(d, a, b).live = d.live
         /\ Leafed(d) => Leafed(GroupWith(d, a, b))
<1> DEFINE g == GroupOf(d, a)
           anchor == IF IsGrouped(d, a) THEN ActiveTab(g) ELSE a
           plain(w) == IsTiled(d, w) /\ ~IsFull(d, w) /\ w \notin d.pseudo
           joined == IF IsGrouped(d, a) THEN [g EXCEPT !.members = Append(@, b)]
                     ELSE [members |-> <<a, b>>, active |-> 1, home |-> d.tile[a]]
           old == IF IsGrouped(d, a) THEN {g} ELSE {}
           G == (d.groups \ old) \cup {joined}
           tile == Drop(d.tile, {b})
           e == [d EXCEPT !.groups = G, !.tile = tile, !.shown = @ \ {b}]
           no == \/ a = b \/ {a, b} \ d.shown # {} \/ ~plain(a) \/ ~plain(b) \/ IsGrouped(d, b)
                 \/ ~IsTiled(d, anchor) \/ d.tile[anchor] # d.tile[b]
<1>1. d \in Desks(L) /\ d.shown \subseteq DOMAIN d.tile \cup DOMAIN d.tag /\ L \subseteq Output
      /\ Apart(d.groups) /\ Once(d, d.mapped)
  BY DEF Held
<1>2. d.groups \in SUBSET Groups(L) /\ d.tile \in Maps(Keys(L)) BY <1>1 DEF Desks
<1>3. GroupWith(d, a, b) = IF no THEN d ELSE Retile(e)
  BY <1>1 DEF GroupWith, Desks
<1>4. SUFFICES ASSUME ~no PROVE Held(e, L) /\ e.live = d.live /\ (Leafed(d) => Leafed(e))
  <2> HIDE DEF e, no
  <2>1. Held(e, L) => Still(Retile(e), e) BY RetileKeeps, SameStill
  <2>2. Held(e, L) /\ Leafed(e) => Leafed(Retile(e)) BY <2>1, StillLeafed
  <2> QED BY <1>3, <2>2, RetileKeeps DEF Same
<1>5. a # b /\ a \in DOMAIN d.tile /\ b \in DOMAIN d.tile /\ ~IsGrouped(d, b)
  BY <1>4 DEF IsTiled
<1>6. a \in Window /\ b \in Window BY <1>2, <1>5, MapsType
<1>7. \A h \in d.groups : b \notin Members(h) BY <1>5 DEF IsGrouped
<1>8. /\ joined \in Groups(L) /\ Len(joined.members) > 1
      /\ joined.active \in 1 .. Len(joined.members)
      /\ \A i, j \in 1 .. Len(joined.members) : joined.members[i] = joined.members[j] => i = j
      /\ \A h \in d.groups \ old : Members(h) \cap Members(joined) = {}
      /\ UNION {ParkedIn(h) : h \in G} = Parked(d) \cup {b}
      /\ \/ ActiveTab(joined) = a /\ joined.home = d.tile[a]
         \/ \E h \in d.groups : ActiveTab(joined) = ActiveTab(h) /\ joined.home = h.home
  <2>1. CASE IsGrouped(d, a)
    <3>1. g \in d.groups BY <2>1, GroupOfTab
    <3>2. /\ Members(g) = {g.members[i] : i \in 1 .. Len(g.members)} /\ Members(g) \subseteq Window
          /\ ActiveTab(g) \in Members(g)
      BY <1>1, <1>2, <3>1, GroupTabs
    <3>3. g \in Groups(L) /\ g.members \in Seq(Window) /\ Len(g.members) \in Nat
      BY <1>2, <3>1 DEF Groups
    <3>4. /\ Len(g.members) > 1 /\ g.active \in 1 .. Len(g.members)
          /\ \A i, j \in 1 .. Len(g.members) : g.members[i] = g.members[j] => i = j
      BY <1>1, <3>1 DEF Apart
    <3> DEFINE m == Append(g.members, b)
    <3>5. joined = [g EXCEPT !.members = m] /\ old = {g} BY <2>1, <3>3 DEF Groups
    <3>6. b \notin Members(g) BY <1>7, <3>1
    <3> HIDE DEF g
    <3>7. /\ m \in Seq(Window) /\ Len(m) = Len(g.members) + 1
          /\ \A i \in 1 .. Len(g.members) : m[i] = g.members[i]
          /\ m[Len(g.members) + 1] = b
      BY <1>6, <3>3
    <3> HIDE DEF m, joined, old
    <3>8. joined \in Groups(L) /\ joined.members = m /\ joined.active = g.active
      BY <3>3, <3>5, <3>7 DEF Groups
    <3>9. Len(m) > 1 /\ g.active \in 1 .. Len(m) BY <3>3, <3>4, <3>7
    <3>10. \A i, j \in 1 .. Len(m) : m[i] = m[j] => i = j
      <4>1. \A i \in 1 .. Len(m) : i \in 1 .. Len(g.members) \/ i = Len(g.members) + 1
        BY <3>3, <3>7
      <4>2. \A i \in 1 .. Len(g.members) : m[i] # b BY <3>2, <3>6, <3>7
      <4> QED BY <3>4, <3>7, <4>1, <4>2
    <3>11. Members(joined) = Members(g) \cup {b}
      <4>1. DOMAIN m = 1 .. Len(g.members) + 1 BY <3>3, <3>7
      <4>2. 1 .. Len(g.members) + 1 = (1 .. Len(g.members)) \cup {Len(g.members) + 1} BY <3>3
      <4>3. {m[i] : i \in 1 .. Len(g.members) + 1} = Members(g) \cup {b} BY <3>2, <3>7, <4>2
      <4> QED BY <3>8, <4>1, <4>3 DEF Members, Range
    <3>12. ActiveTab(joined) = ActiveTab(g) BY <3>4, <3>7, <3>8 DEF ActiveTab
    <3>13. ParkedIn(joined) = ParkedIn(g) \cup {b} BY <3>2, <3>6, <3>11, <3>12 DEF ParkedIn
    <3>14. \A h \in d.groups \ {g} : Members(h) \cap Members(g) = {}
      BY <1>1, <3>1, <3>2 DEF Apart
    <3>15. \A h \in d.groups \ {g} : Members(h) \cap Members(joined) = {}
      BY <1>7, <3>11, <3>14
    <3>16. UNION {ParkedIn(h) : h \in G} = Parked(d) \cup {b}
      BY <3>1, <3>5, <3>13 DEF Parked
    <3>17. joined.home = g.home BY <3>3, <3>5 DEF Groups
    <3> HIDE DEF G
    <3> QED BY <3>1, <3>5, <3>8, <3>9, <3>10, <3>12, <3>15, <3>16, <3>17
  <2>2. CASE ~IsGrouped(d, a)
    <3>1. joined = [members |-> <<a, b>>, active |-> 1, home |-> d.tile[a]] /\ old = {}
      BY <2>2
    <3>2. d.tile[a] \in Keys(L) BY <1>2, <1>5, MapsType
    <3> DEFINE k == d.tile[a]
    <3>3. k \in Keys(L) BY <3>2
    <3>4. joined = [members |-> <<a, b>>, active |-> 1, home |-> k] BY <3>1
    <3> HIDE DEF k, joined, old
    <3>5. joined \in Groups(L) /\ joined.members = <<a, b>> /\ joined.active = 1
      BY <1>6, <3>3, <3>4 DEF Groups
    <3>6. Len(joined.members) = 2 /\ joined.members[1] = a /\ joined.members[2] = b BY <3>5
    <3>7. \A i, j \in 1 .. 2 : joined.members[i] = joined.members[j] => i = j BY <1>5, <3>6
    <3>8. Members(joined) = {a, b}
      <4>1. DOMAIN joined.members = {1, 2} BY <3>5
      <4> QED BY <3>6, <4>1 DEF Members, Range
    <3>9. ParkedIn(joined) = {b} BY <1>5, <3>5, <3>6, <3>8 DEF ParkedIn, ActiveTab
    <3>10. \A h \in d.groups : a \notin Members(h) BY <2>2 DEF IsGrouped
    <3>11. UNION {ParkedIn(h) : h \in G} = Parked(d) \cup {b} BY <3>1, <3>9 DEF Parked
    <3>12. ActiveTab(joined) = a BY <3>5, <3>6 DEF ActiveTab
    <3>13. joined.home = d.tile[a] BY <3>4 DEF k
    <3> HIDE DEF G
    <3> QED BY <1>7, <3>1, <3>5, <3>6, <3>7, <3>8, <3>10, <3>11, <3>12, <3>13
  <2> QED BY <2>1, <2>2
<1>9. Apart(G)
  <2>1. old \in SUBSET d.groups BY GroupOfTab
  <2> HIDE DEF old, joined
  <2> QED BY <1>1, <1>8, <2>1, ReplacedApart
<1>10. G \subseteq Groups(L)
  <2> HIDE DEF old, joined
  <2> QED BY <1>2, <1>8
<1>11. /\ tile \in Maps(Keys(L)) /\ DOMAIN tile = DOMAIN d.tile \ {b}
       /\ \A x \in DOMAIN d.tile \ {b} : tile[x] = d.tile[x]
  BY <1>2, DropMaps DEF Drop, Restrict
<1>17. \A h \in G : h \in d.groups \/ h = joined
  <2> HIDE DEF joined
  <2> QED OBVIOUS
<1>12. UNION {ParkedIn(h) : h \in G} = Parked(d) \cup {b} BY <1>8
<1> HIDE DEF G, tile
<1>13. /\ e \in Desks(L) /\ e.live = d.live /\ e.mapped = d.mapped /\ e.groups = G
       /\ e.tile = tile /\ e.tag = d.tag /\ e.shown = d.shown \ {b}
  BY <1>1, <1>10, <1>11 DEF Desks
<1> HIDE DEF e
<1>14. Parked(e) = Parked(d) \cup {b} BY <1>12, <1>13 DEF Parked
<1>15. Once(e, e.mapped) BY <1>1, <1>5, <1>11, <1>13, <1>14 DEF Once
<1>16. e.shown \subseteq DOMAIN e.tile \cup DOMAIN e.tag BY <1>1, <1>11, <1>13
<1>18. ASSUME Leafed(d) PROVE Leafed(e)
  <2>1. \A h \in d.groups : ActiveTab(h) \in Members(h) BY <1>1, <1>2, GroupTabs
  <2>2. \A h \in d.groups :
          ActiveTab(h) \in DOMAIN d.tile \ {b} /\ d.tile[ActiveTab(h)] = h.home
    BY <1>7, <1>18, <2>1 DEF Leafed
  <2>3. ActiveTab(joined) \in DOMAIN d.tile \ {b} /\ d.tile[ActiveTab(joined)] = joined.home
    <3> HIDE DEF joined
    <3> QED BY <1>5, <1>8, <2>2
  <2> HIDE DEF joined
  <2> QED BY <1>11, <1>13, <1>17, <2>2, <2>3 DEF Leafed
<1> QED BY <1>1, <1>9, <1>13, <1>15, <1>16, <1>18 DEF Held

\* The tabs of a sequence of them.
Tabs(s) == {s[i] : i \in 1 .. Len(s)}

\* The tabs of a group without one of them.
LEMMA WithoutTab ==
  ASSUME NEW s \in Seq(Window), \A i, j \in 1 .. Len(s) : s[i] = s[j] => i = j,
         NEW pos \in 1 .. Len(s), NEW t, t = RemoveAt(s, pos)
  PROVE  /\ t \in Seq(Window) /\ Len(t) = Len(s) - 1
         /\ \A j \in 1 .. Len(t) : t[j] = IF j < pos THEN s[j] ELSE s[j + 1]
         /\ \A i, j \in 1 .. Len(t) : t[i] = t[j] => i = j
         /\ Tabs(t) = Tabs(s) \ {s[pos]}
<1> DEFINE u == SubSeq(s, 1, pos - 1)
           v == SubSeq(s, pos + 1, Len(s))
<1>0. pos \in Nat /\ pos >= 1 /\ pos <= Len(s) /\ Len(s) \in Nat OBVIOUS
<1>1. u \in Seq(Window) /\ Len(u) = pos - 1 /\ \A j \in 1 .. pos - 1 : u[j] = s[j]
  BY <1>0
<1>2. /\ v \in Seq(Window) /\ Len(v) = Len(s) - pos
      /\ \A j \in 1 .. Len(s) - pos : v[j] = s[pos + j]
  BY <1>0
<1>3. t = u \o v BY DEF RemoveAt
<1> HIDE DEF u, v
<1>4. t \in Seq(Window) /\ Len(t) = Len(s) - 1
  <2>1. u \o v \in Seq(Window) /\ Len(u \o v) = Len(u) + Len(v)
    BY <1>1, <1>2, ConcatProperties, Zenon
  <2>2. t \in Seq(Window) /\ Len(t) = Len(u) + Len(v) BY ONLY <1>3, <2>1
  <2>3. Len(u) = pos - 1 /\ Len(v) = Len(s) - pos BY <1>1, <1>2
  <2> QED BY ONLY <1>0, <2>2, <2>3
<1>5. ASSUME NEW j \in 1 .. Len(t) PROVE t[j] = IF j < pos THEN s[j] ELSE s[j + 1]
  <2>1. CASE j < pos BY <2>1, <1>0, <1>1, <1>2, <1>3, <1>4
  <2>2. CASE ~ (j < pos)
    <3>1. t[j] = v[j - (pos - 1)] /\ j - (pos - 1) \in 1 .. Len(s) - pos
      BY <2>2, <1>0, <1>1, <1>2, <1>3, <1>4
    <3> QED BY <3>1, <2>2, <1>2, <1>0
  <2> QED BY <2>1, <2>2
<1>6. ASSUME NEW i \in 1 .. Len(t), NEW j \in 1 .. Len(t), t[i] = t[j] PROVE i = j
  <2> DEFINE I == IF i < pos THEN i ELSE i + 1
             J == IF j < pos THEN j ELSE j + 1
  <2>1. I \in 1 .. Len(s) /\ J \in 1 .. Len(s) /\ s[I] = s[J] BY <1>0, <1>4, <1>5, <1>6
  <2>2. I = J BY <2>1
  <2> QED BY <2>2, <1>0
<1>7. ASSUME NEW j \in 1 .. Len(t)
      PROVE  t[j] # s[pos] /\ \E i \in 1 .. Len(s) : t[j] = s[i]
  <2> DEFINE J == IF j < pos THEN j ELSE j + 1
  <2>1. J \in 1 .. Len(s) /\ J # pos /\ t[j] = s[J] BY <1>0, <1>4, <1>5
  <2> QED BY <2>1
<1>8. ASSUME NEW i \in 1 .. Len(s), s[i] # s[pos]
      PROVE  \E j \in 1 .. Len(t) : s[i] = t[j]
  <2> DEFINE j == IF i < pos THEN i ELSE i - 1
  <2>1. i # pos BY <1>8
  <2>2. j \in 1 .. Len(t) BY <1>0, <1>4, <2>1
  <2>3. t[j] = s[i] BY <1>0, <1>5, <2>1, <2>2
  <2> QED BY <2>2, <2>3
<1>9. Tabs(t) = Tabs(s) \ {s[pos]} BY ONLY <1>7, <1>8 DEF Tabs
<1> QED BY <1>4, <1>5, <1>6, <1>9

\* group_removal_outcome: the group shows a tab it has, and the one it showed
\* if that is still there.
LEMMA NextShown ==
  ASSUME NEW L, NEW g \in Groups(L),
         Len(g.members) > 1, g.active \in 1 .. Len(g.members),
         \A i, j \in 1 .. Len(g.members) : g.members[i] = g.members[j] => i = j,
         NEW pos \in 1 .. Len(g.members), NEW rest, rest = RemoveAt(g.members, pos),
         NEW n, n = NextActive(g, pos)
  PROVE  /\ n \in 1 .. Len(rest)
         /\ pos # g.active => rest[n] = ActiveTab(g)
<1>1. g.members \in Seq(Window) /\ Len(g.members) \in Nat BY DEF Groups
<1>2. /\ Len(rest) = Len(g.members) - 1
      /\ \A j \in 1 .. Len(rest) : rest[j] = IF j < pos THEN g.members[j] ELSE g.members[j + 1]
  <2> DEFINE s == g.members
  <2>1. s \in Seq(Window) /\ pos \in 1 .. Len(s) /\ rest = RemoveAt(s, pos)
        /\ \A i, j \in 1 .. Len(s) : s[i] = s[j] => i = j
    BY <1>1
  <2> HIDE DEF s
  <2>2. Len(rest) = Len(s) - 1 BY <2>1, WithoutTab
  <2>3. \A j \in 1 .. Len(rest) : rest[j] = IF j < pos THEN s[j] ELSE s[j + 1]
    BY <2>1, WithoutTab
  <2> QED BY <2>2, <2>3 DEF s
<1>3. n = LET a == IF pos < g.active THEN g.active - 1 ELSE g.active
          IN IF a > Len(g.members) - 1 THEN 1 ELSE a
  BY DEF NextActive
<1>4. CASE pos < g.active
  <2>1. n = g.active - 1 BY <1>1, <1>3, <1>4
  <2>2. n \in 1 .. Len(rest) BY <1>1, <1>2, <1>4, <2>1
  <2>3. rest[n] = g.members[g.active] BY <1>1, <1>2, <1>4, <2>1, <2>2
  <2> QED BY <2>2, <2>3 DEF ActiveTab
<1>5. CASE pos > g.active
  <2>1. n = g.active BY <1>1, <1>3, <1>5
  <2>2. n \in 1 .. Len(rest) BY <1>1, <1>2, <1>5, <2>1
  <2>3. rest[n] = g.members[g.active] BY <1>1, <1>2, <1>5, <2>1, <2>2
  <2> QED BY <2>2, <2>3 DEF ActiveTab
<1>6. CASE pos = g.active
  BY <1>1, <1>2, <1>3, <1>6
<1>7. pos < g.active \/ pos > g.active \/ pos = g.active BY <1>1
<1> QED BY <1>4, <1>5, <1>6, <1>7

\* The desk but for a window.
Without(d, w) == [d EXCEPT !.mapped = @ \ {w}, !.shown = @ \ {w}]

\* leave_group takes one owner away, the window's: but for the window, the desk
\* is held.
LEMMA LeaveGroupHeld ==
  ASSUME NEW L, NEW d, Held(d, L), NEW w, IsGrouped(d, w), MayLeave(d, w),
         NEW l, l = LeaveGroup(d, w),
         NEW y, y = Without(l, w)
  PROVE  /\ Held(y, L) /\ y.live = d.live /\ y.mapped = d.mapped \ {w} /\ w \in d.mapped
         /\ l \in Desks(L) /\ l.mapped = d.mapped /\ l.live = d.live
         /\ l.shown \subseteq y.shown \cup (d.shown \cap {w})
         /\ ~IsGrouped(l, w) /\ (Leafed(d) => Leafed(l))
<1> DEFINE g == GroupOf(d, w)
           pos == CHOOSE i \in DOMAIN g.members : g.members[i] = w
           rest == RemoveAt(g.members, pos)
           n == NextActive(g, pos)
           heir == rest[n]
           g1 == [g EXCEPT !.members = rest, !.active = n]
           one == IF Len(rest) = 1 THEN {} ELSE {g1}
           G == (d.groups \ {g}) \cup one
           tile == IF ActiveTab(g) = w THEN Drop(Put(d.tile, heir, d.tile[w]), {w}) ELSE d.tile
           e == [d EXCEPT !.groups = G, !.tile = tile]
           f == [e EXCEPT !.mapped = @ \ {w}, !.shown = @ \ {w}]
<1>1. d \in Desks(L) /\ d.shown \subseteq DOMAIN d.tile \cup DOMAIN d.tag /\ L \subseteq Output
      /\ Apart(d.groups) /\ Once(d, d.mapped)
  BY DEF Held
<1>2. d.groups \in SUBSET Groups(L) /\ d.tile \in Maps(Keys(L)) BY <1>1 DEF Desks
<1>3. g \in d.groups /\ w \in Members(g) BY GroupOfTab
<1>4. LeaveGroup(d, w) = Retile(e)
  <2>1. CASE ActiveTab(g) = w
    <3>1. e = [[d EXCEPT !.groups = G] EXCEPT !.tile = Drop(Put(@, heir, @[w]), {w})]
      BY <1>1, <2>1 DEF Desks
    <3> HIDE DEF e
    <3> QED BY <2>1, <3>1 DEF LeaveGroup
  <2>2. CASE ActiveTab(g) # w
    <3>1. e = [d EXCEPT !.groups = G] BY <1>1, <2>2 DEF Desks
    <3> HIDE DEF e
    <3> QED BY <2>2, <3>1 DEF LeaveGroup
  <2> QED BY <2>1, <2>2
<1>5. /\ Members(g) = {g.members[i] : i \in 1 .. Len(g.members)} /\ Members(g) \subseteq Window
      /\ ActiveTab(g) \in Members(g)
  BY <1>1, <1>2, <1>3, GroupTabs
<1>6. g \in Groups(L) /\ g.members \in Seq(Window) /\ Len(g.members) \in Nat
  BY <1>2, <1>3 DEF Groups
<1>7. /\ Len(g.members) > 1 /\ g.active \in 1 .. Len(g.members)
      /\ \A i, j \in 1 .. Len(g.members) : g.members[i] = g.members[j] => i = j
  BY <1>1, <1>3 DEF Apart
<1>8. pos \in 1 .. Len(g.members) /\ g.members[pos] = w
  <2>1. \E i \in DOMAIN g.members : g.members[i] = w BY <1>3 DEF Members, Range
  <2>2. DOMAIN g.members = 1 .. Len(g.members) BY <1>6
  <2> QED BY <2>1, <2>2
<1>9. MayLeave(d, w) = (ActiveTab(g) # w \/ IsTiled(d, w)) BY DEF MayLeave
<1> HIDE DEF g, pos
<1>10. /\ rest \in Seq(Window) /\ Len(rest) = Len(g.members) - 1
       /\ \A i, j \in 1 .. Len(rest) : rest[i] = rest[j] => i = j
       /\ {rest[j] : j \in 1 .. Len(rest)} = Members(g) \ {w}
  <2> DEFINE s == g.members
  <2>1. s \in Seq(Window) /\ pos \in 1 .. Len(s) /\ rest = RemoveAt(s, pos)
        /\ \A i, j \in 1 .. Len(s) : s[i] = s[j] => i = j
    BY <1>6, <1>7, <1>8
  <2> HIDE DEF s, rest
  <2>2. rest \in Seq(Window) BY ONLY <2>1, WithoutTab
  <2>3. Len(rest) = Len(s) - 1 BY <2>1, WithoutTab
  <2>4. \A i, j \in 1 .. Len(rest) : rest[i] = rest[j] => i = j BY <2>1, WithoutTab
  <2>5. Tabs(rest) = Tabs(s) \ {s[pos]} BY <2>1, WithoutTab
  <2>6. Tabs(s) = Members(g) /\ s[pos] = w BY <1>5, <1>8 DEF s, Tabs
  <2>7. Tabs(rest) = Members(g) \ {w} BY ONLY <2>5, <2>6
  <2> QED BY <2>2, <2>3, <2>4, <2>7 DEF s, Tabs
<1>11. n \in 1 .. Len(rest) /\ (pos # g.active => heir = ActiveTab(g))
  <2>1. rest = RemoveAt(g.members, pos) /\ n = NextActive(g, pos) OBVIOUS
  <2> HIDE DEF rest, n
  <2>2. n \in 1 .. Len(rest) BY <1>6, <1>7, <1>8, <2>1, NextShown
  <2>3. pos # g.active => rest[n] = ActiveTab(g) BY <1>6, <1>7, <1>8, <2>1, NextShown
  <2> QED BY <2>2, <2>3
<1> HIDE DEF rest, n, heir
<1>12. heir \in Members(g) \ {w} BY <1>10, <1>11 DEF heir
<1>13. ActiveTab(g) = w <=> pos = g.active BY <1>7, <1>8 DEF ActiveTab
<1>14. g1 \in Groups(L) /\ g1.members = rest /\ g1.active = n
  <2>1. n \in Nat BY <1>10, <1>11, <1>6
  <2> QED BY <1>6, <1>10, <2>1 DEF Groups
<1> HIDE DEF g1
<1>15. Members(g1) = Members(g) \ {w} /\ ParkedIn(g1) = (Members(g) \ {w}) \ {heir}
  <2>1. DOMAIN rest = 1 .. Len(rest) BY <1>10
  <2>2. Members(g1) = Members(g) \ {w} BY <1>10, <1>14, <2>1 DEF Members, Range
  <2> QED BY <1>14, <2>2 DEF ParkedIn, ActiveTab, heir
<1>16. Len(rest) = 1 => (Members(g) \ {w}) \ {heir} = {}
  <2>1. Len(rest) = 1 => n = 1 /\ \A j \in 1 .. Len(rest) : j = 1 BY <1>11
  <2>2. ASSUME NEW x \in Members(g) \ {w}, Len(rest) = 1 PROVE x = heir
    <3>1. PICK j \in 1 .. Len(rest) : x = rest[j] BY <1>10, <2>2
    <3> QED BY <2>1, <2>2, <3>1 DEF heir
  <2> QED BY <2>2
<1>17. Apart(G)
  <2>1. \A h \in d.groups \ {g} : Members(h) \cap Members(g) = {} BY <1>1, <1>3, <1>5 DEF Apart
  <2>2. \A h \in d.groups \ {g} : Members(h) \cap Members(g1) = {} BY <1>15, <2>1
  <2>3. {g} \in SUBSET d.groups BY <1>3
  <2>4. Apart(d.groups \ {g}) BY <1>1 DEF Apart
  <2>5. CASE Len(rest) = 1 BY <2>4, <2>5
  <2>6. CASE Len(rest) # 1
    <3>1. Len(rest) = Len(g.members) - 1 /\ Len(g.members) \in Nat /\ Len(g.members) > 1
      BY <1>6, <1>7, <1>10
    <3>2. Len(rest) \in Nat /\ Len(rest) >= 1 BY ONLY <3>1
    <3>3. \A m \in Nat : m >= 1 /\ m # 1 => m > 1 OBVIOUS
    <3>4. Len(rest) > 1 BY <2>6, <3>2, <3>3, Zenon
    <3>5. Apart((d.groups \ {g}) \cup {g1})
      BY <1>1, <1>10, <1>11, <1>14, <2>2, <2>3, <3>4, ReplacedApart
    <3> QED BY <2>6, <3>5
  <2> QED BY <2>5, <2>6
<1>18. G \subseteq Groups(L) BY <1>2, <1>14
<1>35. \A h \in G : w \notin Members(h)
  BY <1>1, <1>3, <1>5, <1>15 DEF Apart
<1>36. \A h \in G : h \in d.groups \ {g} \/ h = g1
  OBVIOUS
<1>37. ActiveTab(g1) = heir /\ g1.home = g.home
  <2>1. g1.home = g.home BY <1>6 DEF g1, Groups
  <2> QED BY <1>14, <2>1 DEF ActiveTab, heir
<1>19. UNION {ParkedIn(h) : h \in G} = Others(d, g) \cup ((Members(g) \ {w}) \ {heir})
  BY <1>15, <1>16 DEF Others
<1> HIDE DEF G, one
<1>20. /\ tile \in Maps(Keys(L))
       /\ DOMAIN tile = IF ActiveTab(g) = w THEN (DOMAIN d.tile \cup {heir}) \ {w} ELSE DOMAIN d.tile
       /\ \A x \in DOMAIN d.tile \ {heir, w} : tile[x] = d.tile[x]
       /\ ActiveTab(g) = w => tile[heir] = d.tile[w]
       /\ ActiveTab(g) # w => tile = d.tile
  <2>1. CASE ActiveTab(g) # w BY <1>2, <2>1
  <2>2. CASE ActiveTab(g) = w
    <3>1. w \in DOMAIN d.tile BY <1>9, <2>2 DEF IsTiled
    <3>2. d.tile[w] \in Keys(L) BY <1>2, <3>1, MapsType
    <3> DEFINE k == d.tile[w]
               p == Put(d.tile, heir, k)
    <3>3. k \in Keys(L) /\ heir \in Window /\ heir # w BY <1>5, <1>12, <3>2
    <3>4. tile = Drop(p, {w}) BY <2>2
    <3>11. k = d.tile[w] OBVIOUS
    <3> HIDE DEF k, heir, tile
    <3>5. p \in Maps(Keys(L)) BY <1>2, <3>3, PutMaps
    <3>6. DOMAIN p = DOMAIN d.tile \cup {heir} BY DEF Put
    <3>9. p[heir] = k /\ \A x \in DOMAIN d.tile \ {heir} : p[x] = d.tile[x] BY DEF Put
    <3> HIDE DEF p
    <3>7. tile \in Maps(Keys(L)) BY <3>4, <3>5, DropMaps
    <3>8. DOMAIN tile = DOMAIN p \ {w} /\ \A x \in DOMAIN p \ {w} : tile[x] = p[x]
      BY <3>4 DEF Drop, Restrict
    <3>10. tile[heir] = k /\ \A x \in DOMAIN d.tile \ {heir, w} : tile[x] = d.tile[x]
      BY <3>3, <3>6, <3>8, <3>9
    <3> QED BY <2>2, <3>6, <3>7, <3>8, <3>10, <3>11
  <2> QED BY <2>1, <2>2
<1> HIDE DEF tile
<1>21. /\ f \in Desks(L) /\ f.live = d.live /\ f.mapped = d.mapped \ {w} /\ f.groups = G
       /\ f.tile = tile /\ f.tag = d.tag /\ f.shown = d.shown \ {w}
  BY <1>1, <1>18, <1>20 DEF Desks
<1>22. /\ e \in Desks(L) /\ e.live = d.live /\ e.mapped = d.mapped /\ e.tile = tile
       /\ e.shown = d.shown /\ e.active = d.active /\ f.active = d.active /\ e.groups = G
       /\ f = [e EXCEPT !.mapped = @ \ {w}, !.shown = @ \ {w}]
  BY <1>1, <1>18, <1>20 DEF Desks
<1> HIDE DEF e, f
<1>23. /\ Parked(f) = Others(d, g) \cup ((Members(g) \ {w}) \ {heir})
       /\ Parked(d) = Others(d, g) \cup (Members(g) \ {ActiveTab(g)})
       /\ Others(d, g) \cap Members(g) = {}
  BY <1>3, <1>19, <1>21, OthersApart DEF Parked, ParkedIn
<1>24. ActiveTab(g) = w => w \in DOMAIN d.tile BY <1>9 DEF IsTiled
<1>25. ActiveTab(g) # w => heir = ActiveTab(g) BY <1>11, <1>13 DEF heir
<1>26. Once(f, f.mapped)
  <2>1. CASE ActiveTab(g) = w BY <1>1, <1>3, <1>12, <1>20, <1>21, <1>23, <1>24, <2>1 DEF Once
  <2>2. CASE ActiveTab(g) # w BY <1>1, <1>3, <1>12, <1>20, <1>21, <1>23, <1>25, <2>2 DEF Once
  <2> QED BY <2>1, <2>2
<1>27. w \in d.mapped BY <1>1, <1>3, <1>23, <1>24 DEF Once
<1>28. w \notin DOMAIN tile
  <2>1. ActiveTab(g) # w => w \notin DOMAIN d.tile BY <1>1, <1>3, <1>23 DEF Once
  <2> QED BY <1>20, <2>1
<1>29. f.shown \subseteq DOMAIN f.tile \cup DOMAIN f.tag
  BY <1>1, <1>20, <1>21
<1>30. Held(f, L) BY <1>1, <1>17, <1>21, <1>26, <1>29 DEF Held
<1>31. l \in Desks(L) /\ l.mapped = d.mapped /\ l.live = d.live
       /\ l.shown = d.shown \cup {x \in DOMAIN tile : tile[x][1] \in d.live /\ IsActive(e, tile[x])}
       /\ l.tile = tile /\ l.groups = G
  <2> DEFINE R == {x \in DOMAIN tile : tile[x][1] \in d.live /\ IsActive(e, tile[x])}
  <2>1. l = [e EXCEPT !.shown = e.shown \cup R] BY <1>4, <1>22 DEF Retile, Desks
  <2>2. R \subseteq Window BY <1>20, MapsType
  <2> HIDE DEF R
  <2>3. e \in Desks(L) /\ e.shown \subseteq Window BY <1>22 DEF Desks
  <2>4. /\ l \in Desks(L) /\ l.mapped = e.mapped /\ l.live = e.live /\ l.shown = e.shown \cup R
        /\ l.tile = e.tile /\ l.groups = e.groups
    BY <2>1, <2>2, <2>3 DEF Desks
  <2> QED BY <1>22, <2>4 DEF R
<1>32. y = Retile(f)
  <2> DEFINE R == {x \in DOMAIN tile : tile[x][1] \in d.live /\ IsActive(e, tile[x])}
  <2>1. R = {x \in DOMAIN f.tile : f.tile[x][1] \in f.live /\ IsActive(f, f.tile[x])}
    BY <1>21, <1>22 DEF IsActive
  <2>2. Retile(f) = [f EXCEPT !.shown = (d.shown \ {w}) \cup R]
    <3> HIDE DEF R
    <3> QED BY <1>21, <2>1 DEF Retile, Desks
  <2>3. l = [e EXCEPT !.shown = d.shown \cup R]
    <3>1. R = {x \in DOMAIN e.tile : e.tile[x][1] \in e.live /\ IsActive(e, e.tile[x])}
      BY <1>22
    <3> HIDE DEF R
    <3> QED BY <1>4, <1>22, <3>1 DEF Retile, Desks
  <2>4. w \notin R BY <1>28
  <2> HIDE DEF R
  <2>5. (d.shown \cup R) \ {w} = (d.shown \ {w}) \cup R BY <2>4
  <2>6. y = [l EXCEPT !.mapped = d.mapped \ {w}, !.shown = (d.shown \ {w}) \cup R]
    BY <1>22, <2>3, <2>5 DEF Desks, Without
  <2> QED BY <1>22, <2>2, <2>3, <2>6 DEF Desks
<1>33. Held(y, L) /\ y.live = d.live /\ y.mapped = d.mapped \ {w}
  <2>1. Held(Retile(f), L) /\ Same(Retile(f), f) BY <1>30, RetileKeeps
  <2>2. Retile(f).live = f.live /\ Retile(f).mapped = f.mapped BY <2>1 DEF Same
  <2> QED BY ONLY <1>21, <1>32, <2>1, <2>2
<1>34. l.shown \subseteq y.shown \cup (d.shown \cap {w})
  <2>1. y.shown = l.shown \ {w} BY <1>31 DEF Desks, Without
  <2>2. w \in l.shown => w \in d.shown BY <1>28, <1>31
  <2> QED BY <2>1, <2>2
<1>38. ~IsGrouped(l, w) BY <1>31, <1>35 DEF IsGrouped
<1>39. ASSUME Leafed(d) PROVE Leafed(l)
  <2>1. \A h \in d.groups : ActiveTab(h) \in Members(h) BY <1>1, <1>2, GroupTabs
  <2>2. \A h \in d.groups \ {g} : Members(h) \cap Members(g) = {} BY <1>1, <1>3, <1>5 DEF Apart
  <2>3. \A h \in d.groups \ {g} :
          ActiveTab(h) \in DOMAIN d.tile \ {heir, w} /\ d.tile[ActiveTab(h)] = h.home
    BY <1>3, <1>12, <1>39, <2>1, <2>2 DEF Leafed
  <2>4. \A h \in d.groups \ {g} : ActiveTab(h) \in DOMAIN tile /\ tile[ActiveTab(h)] = h.home
    BY <1>20, <2>3
  <2>5. ActiveTab(g) \in DOMAIN d.tile /\ d.tile[ActiveTab(g)] = g.home BY <1>3, <1>39 DEF Leafed
  <2>6. heir \in DOMAIN tile /\ tile[heir] = g.home BY <1>12, <1>20, <1>25, <2>5
  <2>7. \A h \in G : ActiveTab(h) \in DOMAIN tile /\ tile[ActiveTab(h)] = h.home
    BY <1>36, <1>37, <2>4, <2>6
  <2> QED BY <1>31, <2>7 DEF Leafed
<1> QED BY <1>27, <1>31, <1>33, <1>34, <1>38, <1>39

-----------------------------------------------------------------------------
(* Windows come and go *)

\* A window that nothing owns becomes a tile.
LEMMA InsertHeld ==
  ASSUME NEW L, NEW y, Held(y, L), NEW w \in Window, w \notin y.mapped,
         NEW k \in Keys(L), NEW z \in Desks(L),
         z.mapped = y.mapped \cup {w}, z.tile = Put(y.tile, w, k), z.tag = y.tag,
         z.groups = y.groups, z.shown \subseteq y.shown \cup {w}
  PROVE  Held(z, L) /\ w \in DOMAIN z.tile /\ z.tile[w] = k
<1>1. /\ y \in Desks(L) /\ L \subseteq Output /\ Apart(y.groups) /\ Once(y, y.mapped)
      /\ y.shown \subseteq DOMAIN y.tile \cup DOMAIN y.tag
  BY DEF Held
<1>2. y.tile \in Maps(Keys(L)) BY <1>1 DEF Desks
<1>3. DOMAIN z.tile = DOMAIN y.tile \cup {w} /\ z.tile[w] = k BY <1>2, PutMaps
<1>4. Parked(z) = Parked(y) BY DEF Parked
<1>5. w \notin DOMAIN y.tag /\ w \notin Parked(y) BY <1>1 DEF Once
<1>6. Once(z, z.mapped) BY <1>1, <1>3, <1>4, <1>5 DEF Once
<1>7. z.shown \subseteq DOMAIN z.tile \cup DOMAIN z.tag BY <1>1, <1>3
<1> QED BY <1>1, <1>3, <1>6, <1>7 DEF Held

\* A tab that leaves its group becomes a tile where the group is at home.
LEMMA UngroupHeld ==
  ASSUME NEW L, NEW d, Held(d, L), NEW w
  PROVE  /\ Held(Ungroup(d, w), L) /\ Ungroup(d, w).live = d.live
         /\ Leafed(d) => Leafed(Ungroup(d, w))
<1>1. CASE ~IsGrouped(d, w) \/ ~MayLeave(d, w) BY <1>1 DEF Ungroup
<1>2. CASE IsGrouped(d, w) /\ MayLeave(d, w)
  <2> DEFINE l == LeaveGroup(d, w)
             y == Without(l, w)
             k == GroupOf(d, w).home
             z == Tiled(l, w, k)
  <2>1. Ungroup(d, w) = Retile(z) BY <1>2 DEF Ungroup
  <2>2. /\ Held(y, L) /\ y.live = d.live /\ y.mapped = d.mapped \ {w} /\ w \in d.mapped
        /\ l \in Desks(L) /\ l.mapped = d.mapped /\ l.live = d.live
        /\ l.shown \subseteq y.shown \cup (d.shown \cap {w})
        /\ ~IsGrouped(l, w) /\ (Leafed(d) => Leafed(l))
    <3>1. l = LeaveGroup(d, w) /\ y = Without(l, w) OBVIOUS
    <3> HIDE DEF l, y
    <3>2. IsGrouped(d, w) /\ MayLeave(d, w) /\ Held(d, L) BY <1>2
    <3> QED BY ONLY <3>1, <3>2, LeaveGroupHeld
  <2>3. k \in Keys(L)
    <3>1. GroupOf(d, w) \in d.groups BY <1>2, GroupOfTab
    <3> QED BY <3>1 DEF Held, Desks, Groups
  <2>4. w \in Window BY <2>2 DEF Held, Desks
  <2> HIDE DEF k
  <2>5. y.tile = l.tile /\ y.tag = l.tag /\ y.groups = l.groups
    <3> HIDE DEF l
    <3> QED BY <2>2 DEF Desks, Without
  <2> HIDE DEF l
  <2>6. l.tile \in Maps(Keys(L)) BY <2>2 DEF Desks
  <2>7. Put(l.tile, w, k) \in Maps(Keys(L)) BY <2>3, <2>4, <2>6, PutMaps
  <2>8. /\ z \in Desks(L) /\ z.mapped = l.mapped /\ z.tile = Put(l.tile, w, k)
        /\ z.tag = l.tag /\ z.groups = l.groups /\ z.shown = l.shown /\ z.live = l.live
    BY <2>2, <2>7 DEF Tiled, Desks
  <2> HIDE DEF y, z
  <2>9. /\ z.mapped = y.mapped \cup {w} /\ z.tile = Put(y.tile, w, k) /\ z.tag = y.tag
        /\ z.groups = y.groups /\ z.shown \subseteq y.shown \cup {w} /\ w \notin y.mapped
    BY <2>2, <2>5, <2>8
  <2>10. Held(z, L) BY <2>2, <2>3, <2>4, <2>8, <2>9, InsertHeld
  <2>11. Held(Retile(z), L) /\ Same(Retile(z), z) BY <2>10, RetileKeeps
  <2>12. Retile(z).live = z.live BY <2>11 DEF Same
  <2>13. ASSUME Leafed(d) PROVE Leafed(z)
    <3>1. \A x \in DOMAIN l.tile : x \in DOMAIN z.tile /\ (x # w => z.tile[x] = l.tile[x])
      BY <2>8 DEF Put
    <3>2. \A h \in l.groups : ActiveTab(h) \in DOMAIN l.tile /\ l.tile[ActiveTab(h)] = h.home
      BY <2>2, <2>13 DEF Leafed
    <3>3. Apart(l.groups) /\ l.groups \in SUBSET Groups(L) BY <2>2, <2>5 DEF Held, Desks
    <3>4. \A h \in l.groups : ActiveTab(h) \in Members(h) BY <3>3, GroupTabs
    <3>5. \A h \in l.groups : ActiveTab(h) # w BY <2>2, <3>4 DEF IsGrouped
    <3> QED BY <2>8, <3>1, <3>2, <3>5 DEF Leafed
  <2>14. Leafed(d) => Leafed(Retile(z)) BY <2>11, <2>13, SameStill, StillLeafed
  <2> QED BY <2>1, <2>2, <2>8, <2>11, <2>12, <2>14
<1> QED BY <1>1, <1>2

\* The maps forget a window that is hidden and not parked.
LEMMA ForgottenHeld ==
  ASSUME NEW L, NEW d, Held(d, L), NEW w, w \notin Parked(d), w \notin d.shown
  PROVE  /\ Held(Forgotten(d, w), L) /\ Forgotten(d, w).live = d.live
         /\ Loose(Forgotten(d, w), d, w)
<1> DEFINE e == Forgotten(d, w)
<1>1. /\ d \in Desks(L) /\ L \subseteq Output /\ Apart(d.groups) /\ Once(d, d.mapped)
      /\ d.shown \subseteq DOMAIN d.tile \cup DOMAIN d.tag
  BY DEF Held
<1>2. d.tile \in Maps(Keys(L)) /\ d.tag \in Maps(Keys(L)) BY <1>1 DEF Desks
<1>3. d.over \in Maps(Output) /\ d.maxi \in Maps(Output) /\ d.pin \in Maps(PinOutput)
  BY <1>1 DEF Desks
<1>4. d.full \in Maps(FullscreenEntry) BY <1>1 DEF Desks
<1>5. /\ Drop(d.tile, {w}) \in Maps(Keys(L)) /\ DOMAIN Drop(d.tile, {w}) = DOMAIN d.tile \ {w}
      /\ Drop(d.tag, {w}) \in Maps(Keys(L)) /\ DOMAIN Drop(d.tag, {w}) = DOMAIN d.tag \ {w}
  BY <1>2, DropMaps
<1>6. /\ Drop(d.over, {w}) \in Maps(Output) /\ Drop(d.maxi, {w}) \in Maps(Output)
      /\ Drop(d.pin, {w}) \in Maps(PinOutput)
  BY <1>3, DropMaps
<1>7. Drop(d.full, {w}) \in Maps(FullscreenEntry) BY <1>4, DropMaps
<1>8. /\ e \in Desks(L) /\ e.live = d.live /\ e.mapped = d.mapped \ {w}
      /\ e.tile = Drop(d.tile, {w}) /\ e.tag = Drop(d.tag, {w})
      /\ e.groups = d.groups /\ e.shown = d.shown
  BY <1>1, <1>5, <1>6, <1>7 DEF Forgotten, Desks
<1> HIDE DEF e
<1>9. Parked(e) = Parked(d) BY <1>8 DEF Parked
<1>10. Once(e, e.mapped) BY <1>1, <1>5, <1>8, <1>9 DEF Once
<1>11. e.shown \subseteq DOMAIN e.tile \cup DOMAIN e.tag BY <1>1, <1>5, <1>8
<1>12. Held(e, L) BY <1>1, <1>8, <1>10, <1>11 DEF Held
<1>13. Loose(e, d, w) BY <1>8 DEF Loose, Drop, Restrict
<1> QED BY <1>8, <1>12, <1>13 DEF e

\* detach_mapped_toplevel takes the one owner of the window away.
LEMMA UnmapHeld ==
  ASSUME NEW L, NEW d, Held(d, L), NEW w
  PROVE  /\ Held(Unmap(d, w), L) /\ Unmap(d, w).live = d.live
         /\ Leafed(d) => Leafed(Unmap(d, w))
<1> DEFINE h == Hidden(d, {w})
           u == IF IsGrouped(h, w) /\ MayLeave(h, w) THEN LeaveGroup(h, w) ELSE h
           e == Forgotten(u, w)
<1>1. Unmap(d, w) = Retile(e) BY DEF Unmap
<1>2. Held(h, L) /\ Same(h, d) /\ h.shown = d.shown \ {w} BY HiddenKeeps
<1>3. h.live = d.live BY <1>2 DEF Same
<1> HIDE DEF h
<1>7. Leafed(d) => Leafed(h) BY <1>2, SameStill, StillLeafed
<1>4. Held(e, L) /\ e.live = d.live /\ (Leafed(h) => Leafed(e))
  <2>1. CASE IsGrouped(h, w) /\ MayLeave(h, w)
    <3> DEFINE y == Without(u, w)
    <3>1. u = LeaveGroup(h, w) /\ y = Without(u, w) BY <2>1
    <3>2. Held(h, L) /\ IsGrouped(h, w) /\ MayLeave(h, w) BY <1>2, <2>1
    <3> HIDE DEF u, y
    <3>3. /\ Held(y, L) /\ y.live = h.live /\ y.mapped = h.mapped \ {w}
          /\ u \in Desks(L) /\ u.shown \subseteq y.shown \cup (h.shown \cap {w})
          /\ ~IsGrouped(u, w) /\ (Leafed(h) => Leafed(u))
      BY ONLY <3>1, <3>2, LeaveGroupHeld
    <3>4. y.mapped = u.mapped \ {w} /\ y.shown = u.shown \ {w}
      BY <3>1, <3>3 DEF Without, Desks
    <3>5. w \notin u.shown BY <1>2, <3>3, <3>4
    <3>6. y = [u EXCEPT !.mapped = @ \ {w}]
      <4>1. u.shown \ {w} = u.shown /\ u \in Desks(L) BY <3>3, <3>5
      <4> QED BY ONLY <3>1, <4>1 DEF Without, Desks
    <3>7. e = Forgotten(y, w) BY <3>3, <3>6 DEF Forgotten, Desks
    <3>8. w \notin Parked(y) /\ w \notin y.shown BY <3>3, <3>4 DEF Held, Once
    <3>9. /\ Held(Forgotten(y, w), L) /\ Forgotten(y, w).live = y.live
          /\ Loose(Forgotten(y, w), y, w)
      BY ONLY <3>3, <3>8, ForgottenHeld
    <3>10. Still(y, u) BY <3>3, <3>6 DEF Still, Desks
    <3>11. y.groups = u.groups BY <3>10 DEF Still
    <3>12. ~IsGrouped(y, w) BY <3>3, <3>11 DEF IsGrouped
    <3>13. Leafed(h) => Leafed(e)
      BY <3>3, <3>7, <3>9, <3>10, <3>12, StillLeafed, LooseLeafed
    <3> QED BY ONLY <1>3, <3>3, <3>7, <3>9, <3>13
  <2>2. CASE ~ (IsGrouped(h, w) /\ MayLeave(h, w))
    <3>1. u = h BY <2>2
    <3>2. ASSUME w \in Parked(h) PROVE FALSE
      <4>1. PICK g \in h.groups : w \in Members(g) /\ w # ActiveTab(g)
        BY <3>2 DEF Parked, ParkedIn
      <4>2. IsGrouped(h, w) BY <4>1 DEF IsGrouped
      <4>3. GroupOf(h, w) \in h.groups /\ w \in Members(GroupOf(h, w)) BY <4>2, GroupOfTab
      <4>4. w \in Window BY <1>2, <3>2 DEF Held, Once, Desks
      <4>5. GroupOf(h, w) = g BY <1>2, <4>1, <4>3, <4>4 DEF Held, Apart
      <4>6. MayLeave(h, w) BY <4>1, <4>5 DEF MayLeave
      <4> QED BY <2>2, <4>2, <4>6
    <3>3. /\ Held(Forgotten(h, w), L) /\ Forgotten(h, w).live = h.live
          /\ Loose(Forgotten(h, w), h, w)
      BY <1>2, <3>2, ForgottenHeld
    <3>4. ASSUME Leafed(h), IsGrouped(h, w) PROVE FALSE
      <4>1. GroupOf(h, w) \in h.groups BY <3>4, GroupOfTab
      <4>2. ActiveTab(GroupOf(h, w)) \in DOMAIN h.tile BY <3>4, <4>1 DEF Leafed
      <4>3. MayLeave(h, w) BY <4>2 DEF MayLeave, IsTiled
      <4> QED BY <2>2, <3>4, <4>3
    <3>5. Leafed(h) => Leafed(Forgotten(h, w)) BY <1>2, <3>3, <3>4, LooseLeafed
    <3> QED BY <1>3, <3>1, <3>3, <3>5
  <2> QED BY <2>1, <2>2
<1> HIDE DEF e
<1>5. Held(Retile(e), L) /\ Same(Retile(e), e) BY <1>4, RetileKeeps
<1>6. Retile(e).live = e.live BY <1>5 DEF Same
<1>8. Leafed(d) => Leafed(Retile(e)) BY <1>4, <1>5, <1>7, SameStill, StillLeafed
<1> QED BY <1>1, <1>4, <1>5, <1>6, <1>8

\* What the rules make of a window just inserted leaves it one owner.
LEMMA ConvertedHeld ==
  ASSUME NEW L, NEW d, Held(d, L), NEW w \in DOMAIN d.tile,
         NEW k \in Keys(L), NEW rule
  PROVE  /\ Held(Converted(d, w, k, rule), L) /\ Converted(d, w, k, rule).live = d.live
         /\ Loose(Converted(d, w, k, rule), d, w)
<1> DEFINE hidden == ~IsActive(d, k)
           e == IF hidden THEN FloatHidden(d, w, k) ELSE ToggleFloating(d, w, k[1])
           f == IF IsTagged(e, w) THEN [e EXCEPT !.over = Put(@, w, k[1])] ELSE e
           p == [f EXCEPT !.pinned = @ \cup {w}, !.shown = IF hidden THEN @ \cup {w} ELSE @]
           c == Converted(d, w, k, rule)
<1>1. /\ d.tile \in Maps(Keys(L)) /\ L \subseteq Output BY DEF Held, Desks
<1>2. w \in Window /\ k[1] \in L /\ k[1] \in Output
  <2>1. w \in Window BY <1>1, MapsType
  <2> QED BY <1>1, <2>1 DEF Keys
<1>3. c = IF rule.placed = "tile" /\ ~rule.maximize
          THEN IF rule.pseudo THEN TogglePseudo(d, w) ELSE d
          ELSE IF rule.placed # "pin" THEN f ELSE p
  BY DEF Converted
<1>4. Held(e, L) /\ e.live = d.live /\ Loose(e, d, w) /\ (hidden => w \in DOMAIN e.tag)
  <2>1. CASE hidden
    <3>1. e = Untile(d, w, k) BY <2>1 DEF FloatHidden, IsTiled
    <3> QED BY <2>1, <3>1, UntileKeeps
  <2>2. CASE ~hidden
    <3>1. Traded(ToggleFloating(d, w, k[1]), d, L, w) BY <1>2, ToggleFloatingTraded
    <3> QED BY <2>2, <3>1 DEF Traded
  <2> QED BY <2>1, <2>2
<1> HIDE DEF e
<1>5. Held(f, L) /\ f.live = d.live /\ Loose(f, d, w) /\ (hidden => w \in DOMAIN f.tag)
  <2>1. CASE IsTagged(e, w)
    <3>1. f = Nudge(e, w, k[1]) BY <2>1 DEF Nudge
    <3>2. Held(Nudge(e, w, k[1]), L) /\ Same(Nudge(e, w, k[1]), e)
      BY <1>2, <1>4, NudgeKeeps
    <3>3. Loose(f, d, w) BY <1>4, <3>1, <3>2, SameStill, StillLoose, LooseTwice
    <3> QED BY <1>4, <3>1, <3>2, <3>3 DEF Same
  <2>2. CASE ~IsTagged(e, w) BY <1>4, <2>2
  <2> QED BY <2>1, <2>2
<1> HIDE DEF f, hidden
<1>6. Held(p, L) /\ p.live = d.live /\ Loose(p, d, w)
  <2>1. f \in Desks(L) /\ f.shown \subseteq DOMAIN f.tile \cup DOMAIN f.tag BY <1>5 DEF Held
  <2>2. /\ p \in Desks(L) /\ Same(p, f)
        /\ p.shown = IF hidden THEN f.shown \cup {w} ELSE f.shown
    BY <1>2, <2>1 DEF Desks, Same
  <2> HIDE DEF p
  <2>3. p.shown \subseteq DOMAIN f.tile \cup DOMAIN f.tag BY <1>5, <2>1, <2>2
  <2>4. Held(p, L) BY <1>5, <2>2, <2>3, SameHeld
  <2>5. Loose(p, d, w) BY <1>5, <2>2, SameStill, StillLoose, LooseTwice
  <2> QED BY <1>5, <2>2, <2>4, <2>5 DEF Same
<1> HIDE DEF p, c
<1>7. /\ Held(TogglePseudo(d, w), L) /\ TogglePseudo(d, w).live = d.live
      /\ Loose(TogglePseudo(d, w), d, w)
  BY <1>2, TogglePseudoKeeps, SameStill, StillLoose DEF Same
<1>9. Loose(d, d, w) BY DEF Loose
<1>8. Held(c, L) /\ c.live = d.live /\ Loose(c, d, w) BY <1>3, <1>5, <1>6, <1>7, <1>9
<1> QED BY <1>8 DEF c

\* Where a map request finds the window is one of the outputs that own windows.
LEMMA PreferredLive ==
  ASSUME NEW L, NEW d, Held(d, L), NEW w, NEW o \in L
  PROVE  (IF Live(d, Preferred(d, w)) # NoOutput THEN Preferred(d, w) ELSE o) \in L
<1>1. d.live \subseteq L BY DEF Held, Desks
<1> QED BY <1>1 DEF Live

\* map_toplevel gives the window one owner, whatever the rules ask for.
LEMMA MapHeld ==
  ASSUME NEW L, NEW d, Held(d, L), NEW w \in Window, w \notin d.mapped,
         NEW o \in L, NEW n \in Workspace, NEW rule
  PROVE  /\ Held(Map(d, w, o, n, rule), L) /\ Map(d, w, o, n, rule).live = d.live
         /\ Loose(Map(d, w, o, n, rule), d, w)
<1> DEFINE k == <<o, n>>
           z == Tiled([d EXCEPT !.mapped = @ \cup {w}], w, k)
           at(f) == IF Live(f, Preferred(f, w)) # NoOutput THEN Preferred(f, w) ELSE o
           e == Converted(Retile(z), w, k, rule)
           m == IF rule.maximize THEN Maximize(e, w, at(e)) ELSE e
<1>1. d \in Desks(L) /\ L \subseteq Output BY DEF Held
<1>2. k \in Keys(L) BY DEF Keys
<1> HIDE DEF k
<1>3. Put(d.tile, w, k) \in Maps(Keys(L)) BY <1>1, <1>2, PutMaps DEF Desks
<1>4. /\ z \in Desks(L) /\ z.live = d.live /\ z.mapped = d.mapped \cup {w}
      /\ z.tile = Put(d.tile, w, k) /\ z.tag = d.tag /\ z.groups = d.groups
      /\ z.shown = d.shown
  BY <1>1, <1>3 DEF Tiled, Desks
<1>15. Loose(z, d, w) BY <1>4 DEF Loose, Put
<1> HIDE DEF z
<1>5. z.shown \subseteq d.shown \cup {w} BY <1>4
<1>6. Held(z, L) /\ w \in DOMAIN z.tile BY <1>2, <1>4, <1>5, InsertHeld
<1>7. Held(Retile(z), L) /\ Same(Retile(z), z) BY <1>6, RetileKeeps
<1>8. w \in DOMAIN Retile(z).tile /\ Retile(z).live = d.live BY <1>4, <1>6, <1>7 DEF Same
<1>9. Held(e, L) /\ e.live = d.live /\ Loose(e, d, w)
  <2>1. /\ Held(e, L) /\ e.live = Retile(z).live /\ Loose(e, Retile(z), w)
    BY <1>2, <1>7, <1>8, ConvertedHeld
  <2>2. Loose(Retile(z), z, w) BY <1>7, SameStill, StillLoose
  <2> QED BY <1>8, <1>15, <2>1, <2>2, LooseTwice
<1> HIDE DEF e
<1>10. at(e) \in L BY <1>9, PreferredLive
<1>11. Held(m, L) /\ m.live = d.live /\ Loose(m, d, w)
  <2>1. at(e) \in Output BY <1>1, <1>10
  <2> HIDE DEF at
  <2>2. /\ Held(Maximize(e, w, at(e)), L) /\ Maximize(e, w, at(e)).live = e.live
        /\ Loose(Maximize(e, w, at(e)), e, w)
    BY <1>9, <2>1, MaximizeKeeps, SameStill, StillLoose DEF Same
  <2>3. Loose(Maximize(e, w, at(e)), d, w) BY <1>9, <2>2, LooseTwice
  <2> QED BY <1>9, <2>2, <2>3
<1> HIDE DEF m
<1>12. at(m) \in L BY <1>11, PreferredLive
<1>13. Map(d, w, o, n, rule) = IF rule.fullscreen THEN Fullscreen(m, w, at(m)) ELSE m
  BY DEF Map, m, e, z, k
<1> HIDE DEF at
<1>14. /\ Held(Fullscreen(m, w, at(m)), L) /\ Fullscreen(m, w, at(m)).live = m.live
       /\ Loose(Fullscreen(m, w, at(m)), m, w)
  BY <1>11, <1>12, FullscreenKeeps, StillLoose DEF Rearranged
<1>16. Loose(Fullscreen(m, w, at(m)), d, w) BY <1>11, <1>14, LooseTwice
<1> QED BY <1>11, <1>13, <1>14, <1>16

-----------------------------------------------------------------------------
(* The specification *)

\* The inductive invariant.  The windows live on the lit outputs or, when the
\* last one went, where it left them.
Inv ==
  /\ Held(desk, Reach(desk))
  /\ wantsPin \subseteq Window /\ stray \subseteq Window

LEMMA HeldStays ==
  ASSUME NEW d, NEW e, Held(e, Reach(d)), e.live = d.live
  PROVE  Held(e, Reach(e))
  BY DEF Reach

LEMMA EmptyMap ==
  ASSUME NEW V
  PROVE  <<>> \in Maps(V) /\ DOMAIN <<>> = {}
<1>1. <<>> \in Seq(V) /\ Len(<<>>) = 0 OBVIOUS
<1>2. <<>> \in [1 .. Len(<<>>) -> V] /\ DOMAIN <<>> = 1 .. Len(<<>>) BY <1>1
<1>3. 1 .. Len(<<>>) = {} BY <1>1
<1> QED BY <1>2, <1>3 DEF Maps

LEMMA InitHeld == Init => Inv
<1> SUFFICES ASSUME Init PROVE Inv OBVIOUS
<1>1. 1 \in Workspace
  <2>1. IsFiniteSet(Normal) /\ Normal # {} /\ Normal = 1 .. Cardinality(Normal)
    BY NormalAssumption DEF NormalAssumption
  <2>2. Cardinality(Normal) \in Nat BY <2>1, FS_CardinalityType
  <2>3. 1 \in 1 .. Cardinality(Normal) BY <2>1, <2>2
  <2> QED BY <2>1, <2>3 DEF Workspace
<1>2. <<>> \in Maps(Keys(Output)) /\ <<>> \in Maps(Output) /\ <<>> \in Maps(FullscreenEntry)
      /\ <<>> \in Maps(PinOutput) /\ DOMAIN <<>> = {}
  BY EmptyMap
<1>3. [o \in Output |-> 1] \in [Output -> Workspace] BY <1>1
<1>4. /\ desk \in Desks(Output) /\ desk.live = Output /\ desk.groups = {} /\ desk.mapped = {}
      /\ DOMAIN desk.tile = {} /\ DOMAIN desk.tag = {} /\ desk.shown = {}
  BY <1>2, <1>3 DEF Init, Desks
<1>5. Reach(desk) = Output BY <1>4 DEF Reach
<1>6. Apart(desk.groups) /\ Once(desk, desk.mapped) BY <1>4 DEF Apart, Once, Parked
<1>7. Held(desk, Output) BY <1>4, <1>6 DEF Held
<1> QED BY <1>5, <1>7 DEF Inv, Init

LEMMA Aimed ==
  ASSUME Inv
  PROVE  Aimable \subseteq Window /\ desk.shown \subseteq Window /\ desk.mapped \subseteq Window
         /\ desk.live \subseteq Reach(desk) /\ Reach(desk) \subseteq Output
  BY DEF Inv, Aimable, Held, Desks

\* What a handler does to the desk when it leaves the monitors as they are.
Keeping(e) == Held(e, Reach(desk)) /\ e.live = desk.live

LEMMA KeptKeeping ==
  ASSUME NEW e, Kept(e, desk, Reach(desk))
  PROVE  Keeping(e)
  BY DEF Kept, Rearranged, Keeping

LEMMA BecomesHeld ==
  ASSUME Inv, NEW e, Keeping(e), Becomes(e)
  PROVE  Inv'
<1>1. Held(e, Reach(e)) BY HeldStays DEF Keeping
<1>2. desk' = e /\ wantsPin' = wantsPin /\ stray' = {} BY DEF Becomes
<1> QED BY <1>1, <1>2 DEF Inv, Reach

LEMMA SettlesHeld ==
  ASSUME Inv, Keeping(desk'), wantsPin' \subseteq Window, stray' = {}
  PROVE  Inv'
<1>1. Held(desk', Reach(desk')) BY HeldStays DEF Keeping
<1> QED BY <1>1 DEF Inv, Reach

\* What the user does to one window.
LEMMA WindowOpsHeld ==
  ASSUME Inv, NEW w \in Window, NEW b, NEW forward,
         \/ PinToMonitor(w) \/ LeaveTabs(w) \/ NextTab(w, forward) \/ JoinGroup(w, b)
         \/ PseudoTile(w)
         \/ \E n \in Numbers : SendToWorkspace(w, n)
  PROVE  Inv'
<1> DEFINE L == Reach(desk)
<1>1. Held(desk, L) BY DEF Inv
<1> HIDE DEF L
<1>2. CASE PinToMonitor(w)
  <2>1. Keeping(ToggleOutputPin(desk, w))
    BY <1>1, <1>2, ToggleOutputPinKeeps DEF PinToMonitor, Keeping, Same, L
  <2> QED BY <1>2, <2>1, BecomesHeld DEF PinToMonitor
<1>3. CASE LeaveTabs(w)
  <2>1. Keeping(Ungroup(desk, w)) BY <1>1, UngroupHeld DEF Keeping, L
  <2> QED BY <1>3, <2>1, BecomesHeld DEF LeaveTabs
<1>4. CASE NextTab(w, forward)
  <2>1. Keeping(CycleTab(desk, w, forward)) BY <1>1, CycleTabHeld DEF Keeping, L
  <2> QED BY <1>4, <2>1, BecomesHeld DEF NextTab
<1>5. CASE JoinGroup(w, b)
  <2>1. Keeping(GroupWith(desk, w, b)) BY <1>1, GroupWithHeld DEF Keeping, L
  <2> QED BY <1>5, <2>1, BecomesHeld DEF JoinGroup
<1>6. CASE PseudoTile(w)
  <2>1. Keeping(TogglePseudo(desk, w)) BY <1>1, TogglePseudoKeeps DEF Keeping, Same, L
  <2> QED BY <1>6, <2>1, BecomesHeld DEF PseudoTile
<1>7. CASE \E n \in Numbers : SendToWorkspace(w, n)
  <2>1. PICK n \in Numbers : SendToWorkspace(w, n) BY <1>7
  <2>2. n \in Workspace BY NumbersAssumption DEF NumbersAssumption
  <2>3. Keeping(MoveToWorkspace(desk, w, n))
    BY <1>1, <2>2, MoveToWorkspaceKept, KeptKeeping DEF L
  <2> QED BY <2>1, <2>3, BecomesHeld DEF SendToWorkspace
<1> QED BY <1>2, <1>3, <1>4, <1>5, <1>6, <1>7

\* What the user does to one window with an output in hand.
LEMMA PlaceOpsHeld ==
  ASSUME Inv, NEW w \in Window, NEW o \in desk.live,
         \/ SendToMonitor(w, o) \/ DropOnMonitor(w, o) \/ FloatWindow(w, o)
         \/ PinWindow(w, o) \/ NudgeFloat(w, o) \/ DropFloat(w, o)
  PROVE  Inv'
<1> DEFINE L == Reach(desk)
<1>1. Held(desk, L) /\ wantsPin \subseteq Window BY DEF Inv
<1>2. o \in L /\ o \in Output BY Aimed
<1> HIDE DEF L
<1>3. CASE SendToMonitor(w, o)
  <2>1. Keeping(MoveWindowToMonitor(desk, w, o))
    BY <1>1, <1>2, MoveWindowToMonitorKept, KeptKeeping DEF L
  <2> QED BY <1>3, <2>1, BecomesHeld DEF SendToMonitor
<1>4. CASE DropOnMonitor(w, o)
  <2>1. Keeping(DropTile(desk, w, o)) BY <1>1, <1>2, DropTileKept, KeptKeeping DEF L
  <2> QED BY <1>4, <2>1, BecomesHeld DEF DropOnMonitor
<1>5. CASE FloatWindow(w, o)
  <2>1. Traded(ToggleFloating(desk, w, o), desk, L, w) BY <1>1, <1>2, ToggleFloatingTraded
  <2>2. Keeping(desk') BY <1>5, <2>1 DEF FloatWindow, Traded, Keeping, L
  <2>3. wantsPin' \subseteq Window /\ stray' = {} BY <1>1, <1>5 DEF FloatWindow
  <2> QED BY <2>2, <2>3, SettlesHeld
<1>6. CASE PinWindow(w, o)
  <2>1. Held(TogglePin(desk, w, o), L) /\ TogglePin(desk, w, o).live = desk.live
    BY <1>1, <1>2, TogglePinTraded
  <2>2. Keeping(desk') BY <1>6, <2>1 DEF PinWindow, Keeping, L
  <2>3. wantsPin' \subseteq Window /\ stray' = {} BY <1>1, <1>6 DEF PinWindow
  <2> QED BY <2>2, <2>3, SettlesHeld
<1>7. CASE NudgeFloat(w, o)
  <2>1. Keeping(Nudge(desk, w, o)) BY <1>1, <1>2, NudgeKeeps DEF Keeping, Same, L
  <2> QED BY <1>7, <2>1, BecomesHeld DEF NudgeFloat
<1>8. CASE DropFloat(w, o)
  <2>1. Held(Nudge(desk, w, o), L) /\ Nudge(desk, w, o).live = desk.live
    BY <1>1, <1>2, NudgeKeeps DEF Same
  <2>2. Kept(SyncFloating(Nudge(desk, w, o), w), Nudge(desk, w, o), L)
    BY <2>1, SyncFloatingKept
  <2>3. Keeping(SyncFloating(Nudge(desk, w, o), w))
    BY <2>1, <2>2 DEF Keeping, Kept, Rearranged, L
  <2> QED BY <1>8, <2>3, BecomesHeld DEF DropFloat
<1> QED BY <1>3, <1>4, <1>5, <1>6, <1>7, <1>8

\* What the user does to a monitor.
LEMMA MonitorOpsHeld ==
  ASSUME Inv, NEW a \in desk.live, NEW b \in desk.live,
         \/ \E n \in Numbers : SwitchWorkspace(a, n)
         \/ SendWorkspace(a, b) \/ SwapWorkspaces(a, b)
  PROVE  Inv'
<1> DEFINE L == Reach(desk)
<1>1. Held(desk, L) BY DEF Inv
<1>2. a \in L /\ b \in L /\ a \in Output BY Aimed
<1> HIDE DEF L
<1>3. CASE \E n \in Numbers : SwitchWorkspace(a, n)
  <2>1. PICK n \in Numbers : SwitchWorkspace(a, n) BY <1>3
  <2>2. n \in Workspace BY NumbersAssumption DEF NumbersAssumption
  <2>3. Keeping(Switch(desk, a, n)) BY <1>1, <1>2, <2>2, SwitchKept, KeptKeeping DEF L
  <2> QED BY <2>1, <2>3, BecomesHeld DEF SwitchWorkspace
<1>4. CASE SendWorkspace(a, b)
  <2>1. Keeping(MoveWorkspace(desk, a, b)) BY <1>1, <1>2, MoveWorkspaceKept, KeptKeeping DEF L
  <2> QED BY <1>4, <2>1, BecomesHeld DEF SendWorkspace
<1>5. CASE SwapWorkspaces(a, b)
  <2>1. Keeping(Swap(desk, a, b)) BY <1>1, <1>2, SwapKept, KeptKeeping DEF L
  <2> QED BY <1>5, <2>1, BecomesHeld DEF SwapWorkspaces
<1> QED BY <1>3, <1>4, <1>5

LEMMA UserHeld ==
  ASSUME Inv, User
  PROVE  Inv'
<1>1. Aimable \subseteq Window /\ desk.shown \subseteq Window BY Aimed
<1>2. CASE \E w \in Aimable :
             \/ PinToMonitor(w) \/ LeaveTabs(w)
             \/ \E forward \in BOOLEAN : NextTab(w, forward)
             \/ \E b \in desk.shown : JoinGroup(w, b)
             \/ \E o \in desk.live : SendToMonitor(w, o) \/ DropOnMonitor(w, o)
  <2>1. PICK w \in Aimable :
             \/ PinToMonitor(w) \/ LeaveTabs(w)
             \/ \E forward \in BOOLEAN : NextTab(w, forward)
             \/ \E b \in desk.shown : JoinGroup(w, b)
             \/ \E o \in desk.live : SendToMonitor(w, o) \/ DropOnMonitor(w, o)
    BY <1>2
  <2>2. w \in Window BY <1>1
  <2> QED BY <2>1, <2>2, WindowOpsHeld, PlaceOpsHeld
<1>3. CASE \E w \in {x \in Aimable : Plainly(x)} :
             \/ PseudoTile(w)
             \/ \E n \in Numbers : SendToWorkspace(w, n)
             \/ \E o \in desk.live : FloatWindow(w, o) \/ PinWindow(w, o)
  <2>1. PICK w \in Aimable :
             \/ PseudoTile(w)
             \/ \E n \in Numbers : SendToWorkspace(w, n)
             \/ \E o \in desk.live : FloatWindow(w, o) \/ PinWindow(w, o)
    BY <1>3
  <2>2. w \in Window BY <1>1
  <2> QED BY <2>1, <2>2, WindowOpsHeld, PlaceOpsHeld
<1>4. CASE \E w \in desk.shown, o \in desk.live : NudgeFloat(w, o) \/ DropFloat(w, o)
  BY <1>1, <1>4, PlaceOpsHeld
<1>5. CASE \E o \in desk.live, n \in Numbers : SwitchWorkspace(o, n)
  BY <1>5, MonitorOpsHeld
<1>6. CASE \E a, b \in desk.live : SendWorkspace(a, b) \/ SwapWorkspaces(a, b)
  BY <1>6, MonitorOpsHeld
<1> QED BY <1>2, <1>3, <1>4, <1>5, <1>6 DEF User

\* What a client asks for on no output in particular.
LEMMA RequestsHeld ==
  ASSUME Inv, NEW w \in Window,
         \/ RequestUnfullscreen(w) \/ RequestUnmaximize(w)
         \/ CommitFloat(w) \/ ActivateWindow(w) \/ UnmapWindow(w)
  PROVE  Inv'
<1> DEFINE L == Reach(desk)
<1>1. Held(desk, L) /\ wantsPin \subseteq Window BY DEF Inv
<1> HIDE DEF L
<1>2. CASE RequestUnfullscreen(w)
  <2>1. Keeping(Unfullscreen(desk, w)) BY <1>1, UnfullscreenKeeps DEF Keeping, Same, L
  <2> QED BY <1>2, <2>1, BecomesHeld DEF RequestUnfullscreen
<1>3. CASE RequestUnmaximize(w)
  <2>1. Keeping(Unmaximize(desk, w)) BY <1>1, UnmaximizeKeeps DEF Keeping, Same, L
  <2> QED BY <1>3, <2>1, BecomesHeld DEF RequestUnmaximize
<1>4. CASE CommitFloat(w)
  <2>1. Keeping(SyncFloating(desk, w)) BY <1>1, SyncFloatingKept, KeptKeeping DEF L
  <2> QED BY <1>4, <2>1, BecomesHeld DEF CommitFloat
<1>5. CASE ActivateWindow(w)
  <2>1. w \in desk.mapped BY <1>5 DEF ActivateWindow
  <2>2. Keeping(Activate(desk, w)) BY <1>1, <2>1, ActivateHeld DEF Keeping, L
  <2> QED BY <1>5, <2>2, BecomesHeld DEF ActivateWindow
<1>6. CASE UnmapWindow(w)
  <2>1. Held(Unmap(desk, w), L) /\ Unmap(desk, w).live = desk.live BY <1>1, UnmapHeld
  <2>2. Keeping(desk') BY <1>6, <2>1 DEF UnmapWindow, Keeping, L
  <2>3. wantsPin' \subseteq Window /\ stray' = {} BY <1>1, <1>6 DEF UnmapWindow
  <2> QED BY <2>2, <2>3, SettlesHeld
<1> QED BY <1>2, <1>3, <1>4, <1>5, <1>6

\* What a client asks for on an output.
LEMMA OutputRequestsHeld ==
  ASSUME Inv, NEW w \in Window, NEW o \in desk.live,
         \/ RequestFullscreen(w, o) \/ RequestMaximize(w, o)
         \/ \E n \in Numbers, rule \in Rules : MapWindow(w, o, n, rule)
  PROVE  Inv'
<1> DEFINE L == Reach(desk)
<1>1. Held(desk, L) /\ wantsPin \subseteq Window BY DEF Inv
<1>2. o \in L /\ o \in Output BY Aimed
<1> HIDE DEF L
<1>3. CASE RequestFullscreen(w, o)
  <2>1. Keeping(Fullscreen(desk, w, o))
    BY <1>1, <1>2, FullscreenKeeps DEF Keeping, Rearranged, L
  <2> QED BY <1>3, <2>1, BecomesHeld DEF RequestFullscreen
<1>4. CASE RequestMaximize(w, o)
  <2>1. Keeping(Maximize(desk, w, o)) BY <1>1, <1>2, MaximizeKeeps DEF Keeping, Same, L
  <2> QED BY <1>4, <2>1, BecomesHeld DEF RequestMaximize
<1>5. CASE \E n \in Numbers, rule \in Rules : MapWindow(w, o, n, rule)
  <2>1. PICK n \in Numbers, rule \in Rules : MapWindow(w, o, n, rule) BY <1>5
  <2>2. n \in Workspace BY NumbersAssumption DEF NumbersAssumption
  <2>3. w \notin desk.mapped /\ desk' = Map(desk, w, o, n, rule) BY <2>1 DEF MapWindow
  <2>4. Held(Map(desk, w, o, n, rule), L) /\ Map(desk, w, o, n, rule).live = desk.live
    BY <1>1, <1>2, <2>2, <2>3, MapHeld
  <2>5. Keeping(desk') BY <2>3, <2>4 DEF Keeping, L
  <2>6. wantsPin' \subseteq Window /\ stray' = {} BY <1>1, <2>1 DEF MapWindow
  <2> QED BY <2>5, <2>6, SettlesHeld
<1> QED BY <1>3, <1>4, <1>5

LEMMA HotplugHeld ==
  ASSUME Inv, Hotplug
  PROVE  Inv'
<1>1. Held(desk, Reach(desk)) /\ wantsPin \subseteq Window /\ desk.shown \subseteq Window
  BY Aimed DEF Inv
<1>2. ASSUME NEW o \in Output \ desk.live, ConnectOutput(o) PROVE Inv'
  <2> DEFINE lit == [desk EXCEPT !.live = @ \cup {o}]
  <2>1. lit = [desk EXCEPT !.live = @ \cup {o}] OBVIOUS
  <2>2. \E orphaned \in SetToSeqs(Owned(lit) \ lit.live) :
          LET e == Adopt(lit, o, orphaned)
          IN \E displaced \in SetToSeqs(Displaced(e, o)) : desk' = Recall(e, o, displaced)
    BY <1>2 DEF ConnectOutput
  <2> HIDE DEF lit
  <2>3. PICK orphaned \in SetToSeqs(Owned(lit) \ lit.live) :
          \E displaced \in SetToSeqs(Displaced(Adopt(lit, o, orphaned), o)) :
            desk' = Recall(Adopt(lit, o, orphaned), o, displaced)
    BY <2>2
  <2> DEFINE e == Adopt(lit, o, orphaned)
  <2>4. PICK displaced \in SetToSeqs(Displaced(e, o)) : desk' = Recall(e, o, displaced)
    BY <2>3
  <2>5. e = Adopt(lit, o, orphaned) OBVIOUS
  <2> HIDE DEF e
  <2>6. Held(Recall(e, o, displaced), Reach(Recall(e, o, displaced)))
    BY <1>1, <2>1, <2>5, ConnectHeld
  <2>7. Held(desk', Reach(desk')) BY ONLY <2>4, <2>6
  <2>8. wantsPin' = wantsPin /\ stray' \subseteq desk.shown BY <1>2 DEF ConnectOutput
  <2> QED BY <1>1, <2>7, <2>8 DEF Inv, Reach
<1>3. ASSUME NEW o \in desk.live, NEW fallback, DisconnectOutput(o, fallback),
             IF desk.live = {o} THEN fallback = NoOutput ELSE fallback \in desk.live \ {o}
      PROVE  Inv'
  <2>1. Held(Disconnect(desk, o, fallback), Reach(Disconnect(desk, o, fallback)))
    BY <1>1, <1>3, DisconnectHeld
  <2>2. desk' = Disconnect(desk, o, fallback) /\ wantsPin' = wantsPin /\ stray' = {}
    BY <1>3 DEF DisconnectOutput, Becomes
  <2> QED BY <1>1, <2>1, <2>2 DEF Inv, Reach
<1> QED BY <1>2, <1>3 DEF Hotplug

LEMMA NextHeld == Inv /\ [Next]_vars => Inv'
<1> SUFFICES ASSUME Inv, [Next]_vars PROVE Inv' OBVIOUS
<1>1. CASE User BY <1>1, UserHeld
<1>2. CASE Client
  BY <1>2, RequestsHeld, OutputRequestsHeld DEF Client
<1>3. CASE Hotplug BY <1>3, HotplugHeld
<1>4. CASE UNCHANGED vars BY <1>4 DEF vars, Inv, Reach
<1> QED BY <1>1, <1>2, <1>3, <1>4 DEF Next

LEMMA HeldTypes ==
  ASSUME Inv
  PROVE  TypeOK
<1> DEFINE L == Reach(desk)
<1>1. /\ desk \in Desks(L) /\ L \subseteq Output /\ Apart(desk.groups)
      /\ wantsPin \subseteq Window /\ stray \subseteq Window
  BY DEF Inv, Held
<1> HIDE DEF L
<1>2. /\ desk.live \subseteq Output /\ desk.active \in [Output -> Workspace]
      /\ desk.mapped \subseteq Window /\ desk.shown \subseteq Window
      /\ desk.pinned \subseteq Window /\ desk.pseudo \subseteq Window
      /\ desk.tile \in Maps(Keys(L)) /\ desk.tag \in Maps(Keys(L))
      /\ desk.over \in Maps(Output) /\ desk.maxi \in Maps(Output) /\ desk.pin \in Maps(PinOutput)
      /\ desk.full \in Maps(FullscreenEntry) /\ desk.groups \subseteq Groups(L)
  BY <1>1 DEF Desks
<1>3. Keys(L) \subseteq Key BY <1>1 DEF Keys, Key
<1>4. ASSUME NEW V, NEW f \in Maps(V)
      PROVE  f \in [DOMAIN f -> V] /\ DOMAIN f \subseteq Window
  BY DEF Maps
<1>5. Maps(Keys(L)) \subseteq Maps(Key) BY <1>3, WiderMaps
<1>6. desk.tile \in Maps(Key) /\ desk.tag \in Maps(Key) BY <1>2, <1>5
<1>7. \A f \in {desk.tile, desk.tag} : f \in [DOMAIN f -> Key] /\ DOMAIN f \subseteq Window
  <2>1. SUFFICES ASSUME NEW f \in {desk.tile, desk.tag}
                 PROVE  f \in [DOMAIN f -> Key] /\ DOMAIN f \subseteq Window
    OBVIOUS
  <2>2. f \in Maps(Key) BY <1>6
  <2> QED BY ONLY <1>4, <2>2
<1>8. \A f \in {desk.over, desk.maxi, desk.pin} :
        f \in [DOMAIN f -> Output] /\ DOMAIN f \subseteq Window
  <2>1. SUFFICES ASSUME NEW f \in {desk.over, desk.maxi, desk.pin}
                 PROVE  f \in [DOMAIN f -> Output] /\ DOMAIN f \subseteq Window
    OBVIOUS
  <2>2. Maps(PinOutput) \subseteq Maps(Output) BY WiderMaps DEF PinOutput
  <2>3. f \in Maps(Output) BY <1>2, <2>2
  <2> QED BY ONLY <1>4, <2>3
<1>9. desk.full \in [DOMAIN desk.full -> FullscreenEntry] /\ DOMAIN desk.full \subseteq Window
  BY <1>2, <1>4
<1>10. ASSUME NEW g \in desk.groups
       PROVE  /\ g.members \in Seq(Window) /\ g.home \in Key
              /\ Len(g.members) > 1 /\ g.active \in 1 .. Len(g.members)
  <2>1. g.members \in Seq(Window) /\ g.home \in Key BY <1>2, <1>3 DEF Groups
  <2> QED BY <1>1, <2>1 DEF Apart
<1> QED BY <1>1, <1>2, <1>7, <1>8, <1>9, <1>10 DEF TypeOK

LEMMA HeldOnce ==
  ASSUME Inv
  PROVE  OneHome
<1>1. /\ Apart(desk.groups) /\ Once(desk, desk.mapped) BY DEF Inv, Held
<1>2. ASSUME NEW w \in Window
      PROVE  LET owners == (IF IsTiled(desk, w) THEN 1 ELSE 0)
                           + (IF IsTagged(desk, w) THEN 1 ELSE 0)
                           + Cardinality({g \in desk.groups : w \in ParkedIn(g)})
             IN owners = IF w \in desk.mapped THEN 1 ELSE 0
  <2> DEFINE P == {g \in desk.groups : w \in ParkedIn(g)}
  <2>1. Cardinality(P) = IF w \in Parked(desk) THEN 1 ELSE 0
    <3>1. CASE w \in Parked(desk)
      <4>1. PICK g \in desk.groups : w \in ParkedIn(g) BY <3>1 DEF Parked
      <4>2. \A h \in desk.groups : w \in ParkedIn(h) => h = g
        BY <1>1, <4>1 DEF Apart, ParkedIn
      <4>3. P = {g} BY <4>1, <4>2
      <4> HIDE DEF P
      <4> QED BY <3>1, <4>3, FS_Singleton
    <3>2. CASE w \notin Parked(desk)
      <4>1. P = {} BY <3>2 DEF Parked
      <4> HIDE DEF P
      <4> QED BY <3>2, <4>1, FS_EmptySet
    <3> QED BY <3>1, <3>2
  <2> HIDE DEF P
  <2>2. (IF IsTiled(desk, w) THEN 1 ELSE 0) + (IF IsTagged(desk, w) THEN 1 ELSE 0)
          + Cardinality(P) = IF w \in desk.mapped THEN 1 ELSE 0
    BY <1>1, <2>1 DEF Once, IsTiled, IsTagged
  <2> QED BY <2>2 DEF P
<1> QED BY <1>2 DEF OneHome

LEMMA HeldReached ==
  ASSUME Inv
  PROVE  HomesLive
<1>1. Placed(desk, Reach(desk)) BY HeldPlaced DEF Inv
<1>2. desk.live # {} => Reach(desk) = desk.live BY DEF Reach
<1> QED BY <1>1, <1>2 DEF HomesLive, Placed, IsTiled, IsTagged

\* Every mapped window is owned exactly once, by a tree, a floating tag or the
\* group that parks it, and nothing else is owned; and while an output is lit
\* all of it is on lit outputs.  This holds for every handler of the user, the
\* clients and the hotplug code, with every feature of the model, any number of
\* windows, outputs and workspaces, and any rules: no sequence of float, pin,
\* fullscreen, tab, send, swap, unplug and replug loses a window or owns it twice.
THEOREM WindowsAreHeld == Spec => []WindowsHeld
<1>1. Inv => WindowsHeld BY HeldTypes, HeldOnce, HeldReached DEF WindowsHeld
<1> QED BY InitHeld, NextHeld, <1>1, PTL DEF Spec

-----------------------------------------------------------------------------
(* Workspaces that move whole *)

\* Every place is renamed, but for those of pinned windows, and pins only grow.
Renamed(e, d, f) ==
  /\ DOMAIN e.tile = DOMAIN d.tile /\ DOMAIN e.tag = DOMAIN d.tag
  /\ d.pinned \subseteq e.pinned
  /\ \A w \in DOMAIN d.tile : e.tile[w] = f[d.tile[w]]
  /\ \A w \in DOMAIN d.tag \ e.pinned : e.tag[w] = f[d.tag[w]]
  /\ \A g \in d.groups : [g EXCEPT !.home = f[g.home]] \in e.groups

\* The workspaces something lives on; pinned windows live on none.
HomesOf(d) ==
  {d.tile[w] : w \in DOMAIN d.tile} \cup {d.tag[w] : w \in DOMAIN d.tag \ d.pinned}
    \cup {g.home : g \in d.groups}
HomeIn(d, w) ==
  IF IsTiled(d, w) THEN d.tile[w]
  ELSE IF IsTagged(d, w) THEN d.tag[w]
  ELSE GroupOf(d, w).home

\* Two workspaces in use keep two names.
Distinct(d, f) == \A j, k \in HomesOf(d) : f[j] = f[k] => j = k

LEMMA ParkedHome ==
  ASSUME NEW L, NEW d, Held(d, L), NEW w \in d.mapped, ~IsTiled(d, w), ~IsTagged(d, w)
  PROVE  /\ GroupOf(d, w) \in d.groups /\ w \in Members(GroupOf(d, w)) /\ w \in Window
         /\ \A g \in d.groups : w \in Members(g) => g = GroupOf(d, w)
<1>1. w \in Parked(d) BY DEF Held, Once, IsTiled, IsTagged
<1>2. \E g \in d.groups : w \in Members(g) BY <1>1 DEF Parked, ParkedIn
<1>3. GroupOf(d, w) \in d.groups /\ w \in Members(GroupOf(d, w)) BY <1>2 DEF GroupOf
<1>4. w \in Window BY DEF Held, Desks
<1>5. Apart(d.groups) BY DEF Held
<1>6. \A g, h \in d.groups : \A x \in Window : x \in Members(g) /\ x \in Members(h) => g = h
  BY <1>5 DEF Apart
<1> QED BY ONLY <1>3, <1>4, <1>6

LEMMA RenamedHome ==
  ASSUME NEW L, NEW d, NEW e, NEW f, Held(d, L), Held(e, L), Renamed(e, d, f),
         e.mapped = d.mapped, NEW w \in d.mapped \ e.pinned
  PROVE  HomeIn(d, w) \in HomesOf(d) /\ HomeIn(e, w) = f[HomeIn(d, w)]
<1>1. (IsTiled(e, w) <=> IsTiled(d, w)) /\ (IsTagged(e, w) <=> IsTagged(d, w))
  BY DEF Renamed, IsTiled, IsTagged
<1>2. CASE IsTiled(d, w)
  BY <1>1, <1>2 DEF HomeIn, HomesOf, Renamed, IsTiled
<1>3. CASE ~IsTiled(d, w) /\ IsTagged(d, w)
  BY <1>1, <1>3 DEF HomeIn, HomesOf, Renamed, IsTagged
<1>4. CASE ~IsTiled(d, w) /\ ~IsTagged(d, w)
  <2> DEFINE g == GroupOf(d, w)
             h == [g EXCEPT !.home = f[g.home]]
  <2>1. g \in d.groups /\ w \in Members(g) BY <1>4, ParkedHome
  <2>2. h \in e.groups BY <2>1 DEF Renamed
  <2>3. g \in Groups(L) BY <2>1 DEF Held, Desks
  <2> HIDE DEF g
  <2>4. h.members = g.members /\ h.home = f[g.home] BY <2>3 DEF Groups
  <2>5. w \in Members(h) BY <2>1, <2>4 DEF Members
  <2>6. h = GroupOf(e, w) BY <1>1, <1>4, <2>2, <2>5, ParkedHome
  <2>7. HomeIn(d, w) = g.home /\ HomeIn(e, w) = h.home BY <1>1, <1>4, <2>6 DEF HomeIn, g
  <2>8. g.home \in HomesOf(d) BY <2>1 DEF HomesOf
  <2> QED BY <2>4, <2>7, <2>8
<1> QED BY <1>2, <1>3, <1>4

LEMMA RenamedTogether ==
  ASSUME NEW L, NEW d, NEW e, NEW f, Held(d, L), Held(e, L), Renamed(e, d, f),
         e.mapped = d.mapped, Distinct(d, f)
  PROVE  \A v, w \in d.mapped \ e.pinned :
           HomeIn(d, v) = HomeIn(d, w) <=> HomeIn(e, v) = HomeIn(e, w)
<1>1. \A v \in d.mapped \ e.pinned :
        HomeIn(d, v) \in HomesOf(d) /\ HomeIn(e, v) = f[HomeIn(d, v)]
  BY RenamedHome
<1> QED BY ONLY <1>1, Distinct(d, f) DEF Distinct

LEMMA UnrenamedSame ==
  ASSUME NEW L, NEW d, Held(d, L)
  PROVE  \E f : Renamed(d, d, f) /\ Distinct(d, f)
<1> DEFINE f == [k \in HomesOf(d) |-> k]
<1>1. \A w \in DOMAIN d.tile : d.tile[w] = f[d.tile[w]] BY DEF HomesOf
<1>2. \A w \in DOMAIN d.tag \ d.pinned : d.tag[w] = f[d.tag[w]] BY DEF HomesOf
<1>3. ASSUME NEW g \in d.groups PROVE [g EXCEPT !.home = f[g.home]] = g
  <2>1. f[g.home] = g.home BY DEF HomesOf
  <2>2. g \in Groups(L) BY DEF Held, Desks
  <2> HIDE DEF f
  <2> QED BY <2>1, <2>2 DEF Groups
<1>4. Distinct(d, f) BY DEF Distinct
<1> HIDE DEF f
<1>5. Renamed(d, d, f) BY <1>1, <1>2, <1>3 DEF Renamed
<1> QED BY <1>4, <1>5

\* A fullscreen window that makes room may get its pin back; none loses one.
LEMMA DemotedPins ==
  ASSUME NEW L, NEW d, Held(d, L), NEW S, NEW o
  PROVE  d.pinned \subseteq Demoted(d, S, o).pinned
<1>1. d \in Desks(L) BY DEF Held
<1>2. ASSUME NEW w PROVE d.pinned \subseteq Unfullscreen(d, w).pinned
  <2>1. CASE ~IsFull(d, w) BY <2>1 DEF Unfullscreen
  <2>2. CASE IsFull(d, w)
    <3> DEFINE was == d.full[w].wasPinned
               tiled == [d EXCEPT !.full = Drop(@, {w}), !.maxi = Drop(@, {w})]
               other == [d EXCEPT !.full = Drop(@, {w}),
                                  !.shown = IF was /\ IsTagged(d, w) THEN @ \cup {w} ELSE @,
                                  !.pinned = IF was THEN @ \cup {w} ELSE @]
    <3>1. Unfullscreen(d, w) = IF IsTiled(d, w) THEN Retile(tiled) ELSE Retile(other)
      BY <1>1, <2>2 DEF Unfullscreen, Desks
    <3>2. Retile(tiled).pinned = tiled.pinned /\ Retile(other).pinned = other.pinned
      BY <1>1 DEF Retile, Desks
    <3>3. d.pinned \subseteq tiled.pinned /\ d.pinned \subseteq other.pinned
      BY <1>1 DEF Desks
    <3> QED BY <3>1, <3>2, <3>3
  <2> QED BY <2>1, <2>2
<1> DEFINE owners == {x \in DOMAIN d.full \ S : d.full[x].output = o}
           x == CHOOSE y \in owners : TRUE
<1>3. Demoted(d, S, o) = IF owners = {} THEN d ELSE Unfullscreen(d, x) BY DEF Demoted
<1> HIDE DEF owners, x
<1> QED BY <1>2, <1>3

LEMMA PinsStay ==
  ASSUME NEW L, NEW d, d \in Desks(L), NEW S, NEW o, NEW u
  PROVE  /\ Repinned(d, S, o).pinned = d.pinned /\ Landed(d, S, u).pinned = d.pinned
         /\ Rehomed(d, u).pinned = d.pinned /\ Shown(d, S).pinned = d.pinned
         /\ [d EXCEPT !.active[o] = u].pinned = d.pinned
         /\ [d EXCEPT !.tile = u].pinned = d.pinned
  BY DEF Desks, Repinned, Landed, Rehomed, Shown
\* Where everything of a workspace that moves is afterwards.
LEMMA MovedIs ==
  ASSUME NEW L, NEW d, Held(d, L), NEW in, NEW k, NEW to \in Keys(L)
  PROVE  LET e == Moved(d, in, k, to) IN
         /\ e.pinned = d.pinned
         /\ e.tile = [w \in DOMAIN d.tile |-> IF d.tile[w] = k THEN to ELSE d.tile[w]]
         /\ e.tag = [w \in DOMAIN d.tag |-> IF w \in FloatersOf(d, k) THEN to ELSE d.tag[w]]
         /\ e.groups = {IF g.home = k THEN [g EXCEPT !.home = to] ELSE g : g \in d.groups}
<1> DEFINE F == FloatersOf(d, k)
           key == [w \in F |-> to]
           m == Modes(d, in, to[1])
           r == Repinned(m, in, to[1])
           l == Landed(r, F, key)
           e == Moved(d, in, k, to)
<1>1. to[1] \in Output BY DEF Keys, Held
<1>2. Held(m, L) /\ Same(m, d) /\ m.pinned = d.pinned BY <1>1, ModesKeeps
<1>3. e = [l EXCEPT
        !.tile = [w \in DOMAIN @ |-> IF @[w] = k THEN to ELSE @[w]],
        !.groups = {IF g.home = k THEN [g EXCEPT !.home = to] ELSE g : g \in @},
        !.shown = @ \cup F]
  BY DEF Moved
<1> HIDE DEF m
<1>4. Held(r, L) /\ Same(r, m) /\ r.pinned = m.pinned
  <2>1. m \in Desks(L) BY <1>2 DEF Held
  <2> QED BY <1>1, <1>2, <2>1, RepinnedKeeps, PinsStay
<1> HIDE DEF r, e, F
<1>5. \A w \in F : key[w] \in Keys(L) OBVIOUS
<1>6. /\ l.tile = r.tile /\ l.groups = r.groups
      /\ l.tag = [w \in DOMAIN r.tag |-> IF w \in F THEN to ELSE r.tag[w]]
  <2>1. /\ Landed(r, F, key).tile = r.tile /\ Landed(r, F, key).groups = r.groups
        /\ Landed(r, F, key).tag = [w \in DOMAIN r.tag |-> IF w \in F THEN key[w] ELSE r.tag[w]]
    <3> HIDE DEF key, l
    <3> QED BY <1>4, <1>5, LandedKept
  <2>2. \A w \in F : key[w] = to OBVIOUS
  <2> HIDE DEF key
  <2>3. l.tag = [w \in DOMAIN r.tag |-> IF w \in F THEN key[w] ELSE r.tag[w]] BY <2>1
  <2>4. l.tile = r.tile /\ l.groups = r.groups BY <2>1
  <2> HIDE DEF l
  <2> QED BY <2>2, <2>3, <2>4
<1>7. l \in Desks(L) /\ l.pinned = r.pinned
  <2> HIDE DEF key
  <2>1. r \in Desks(L) BY <1>4 DEF Held
  <2>2. Held(l, L) BY <1>4, <1>5, LandedKept DEF Kept
  <2> QED BY <2>1, <2>2, PinsStay DEF Held
<1> HIDE DEF l
<1>8. /\ e.pinned = l.pinned /\ e.tag = l.tag
      /\ e.tile = [w \in DOMAIN l.tile |-> IF l.tile[w] = k THEN to ELSE l.tile[w]]
      /\ e.groups = {IF g.home = k THEN [g EXCEPT !.home = to] ELSE g : g \in l.groups}
  BY <1>3, <1>7 DEF Desks
<1>9. l.tile = d.tile /\ l.groups = d.groups /\ r.tag = d.tag /\ l.pinned = d.pinned
  BY <1>2, <1>4, <1>6, <1>7 DEF Same
<1> QED BY <1>6, <1>8, <1>9 DEF F, e

\* The slot of a workspace that arrives is vacant: nothing lives there.
LEMMA SlotVacant ==
  ASSUME NEW d, NEW n, NEW to, Vacant(d, to) # {}
  PROVE  <<to, TransferSlot(d, n, to)>> \notin HomesOf(d)
<1> DEFINE S == Vacant(d, to)
           m == TransferSlot(d, n, to)
<1>1. m \in S
  <2>1. Cardinality(Normal) \in Nat BY NormalAssumption, FS_CardinalityType
  <2>2. S \subseteq Nat /\ S # {} BY <2>1, NormalAssumption DEF Vacant
  <2>3. m = IF n \in S THEN n ELSE Min(S) BY DEF TransferSlot
  <2> HIDE DEF S, m
  <2>4. \E x \in S : \A y \in S : x <= y BY <2>2, Lowest
  <2>5. Min(S) \in S BY ONLY <2>4 DEF Min
  <2> QED BY <2>3, <2>5
<1> HIDE DEF m
<1>2. m \notin Scratch BY <1>1, ScratchAssumption DEF Vacant
<1>3. ASSUME <<to, m>> \in HomesOf(d) PROVE m \in Occupied(d, to)
  BY <1>2, <1>3 DEF HomesOf, Occupied
<1> QED BY <1>1, <1>3 DEF Vacant, m

LEMMA MoveRenames ==
  ASSUME NEW L, NEW d, Held(d, L), NEW from \in Output, NEW to \in L
  PROVE  \E f : Renamed(MoveWorkspace(d, from, to), d, f) /\ Distinct(d, f)
<1> DEFINE k == ActiveKey(d, from)
           n == TransferSlot(d, k[2], to)
           slot == <<to, n>>
           in == Residents(d, k)
           e == IF \E w \in in : IsFull(d, w) THEN Demoted(d, {}, to) ELSE d
           left == (IF slot = ActiveKey(d, to) THEN {} ELSE TilesOf(e, ActiveKey(d, to)))
                     \cup FloatersOf(e, ActiveKey(d, to))
           h == Hidden(e, left)
           m == Moved(h, in, k, slot)
           a == [m EXCEPT !.active[to] = n]
           f == [x \in HomesOf(d) |-> IF x = k THEN slot ELSE x]
<1>1. slot[2] = n OBVIOUS
<1>2. MoveWorkspace(d, from, to)
        = IF \/ from = to \/ {from, to} \cap d.live # {from, to}
             \/ k[2] \in Scratch \/ Vacant(d, to) = {}
          THEN d ELSE Retile(a)
  BY <1>1 DEF MoveWorkspace
<1>3. CASE MoveWorkspace(d, from, to) = d BY <1>3, UnrenamedSame
<1>4. CASE Vacant(d, to) # {} /\ MoveWorkspace(d, from, to) = Retile(a)
  <2>1. slot \notin HomesOf(d) BY <1>4, SlotVacant
  <2> HIDE DEF k
  <2>2. n \in Workspace BY <1>4, SlotNormal DEF Workspace
  <2> HIDE DEF n
  <2>3. slot \in Keys(L) BY <2>2 DEF Keys
  <2>4. Held(e, L) /\ Same(e, d) /\ d.pinned \subseteq e.pinned
    BY DemotedKeeps, DemotedPins DEF Same
  <2> HIDE DEF e, in, slot
  <2>5. Held(h, L) /\ Same(h, e) /\ h.pinned = e.pinned BY <2>4, HiddenKeeps
  <2> HIDE DEF h
  <2>6. /\ m.pinned = h.pinned
        /\ m.tile = [w \in DOMAIN h.tile |-> IF h.tile[w] = k THEN slot ELSE h.tile[w]]
        /\ m.tag = [w \in DOMAIN h.tag |-> IF w \in FloatersOf(h, k) THEN slot ELSE h.tag[w]]
        /\ m.groups = {IF g.home = k THEN [g EXCEPT !.home = slot] ELSE g : g \in h.groups}
    BY <2>3, <2>5, MovedIs
  <2>7. Held(m, L) BY <2>3, <2>5, MovedKept DEF Kept
  <2> HIDE DEF m
  <2>8. /\ Held(a, L) /\ a.pinned = m.pinned
        /\ a.tile = m.tile /\ a.tag = m.tag /\ a.groups = m.groups
    <3>1. m \in Desks(L) BY <2>7 DEF Held
    <3>2. Held(a, L) BY <2>2, <2>7, ActivatedKept DEF Kept
    <3> QED BY <3>1, <3>2 DEF Desks
  <2> HIDE DEF a
  <2>9. Same(Retile(a), a) /\ Retile(a).pinned = a.pinned BY <2>8, RetileKeeps
  <2> DEFINE z == Retile(a)
  <2>10. /\ d.pinned \subseteq z.pinned /\ z.pinned = h.pinned
         /\ h.tile = d.tile /\ h.tag = d.tag /\ h.groups = d.groups
         /\ z.tile = m.tile /\ z.tag = m.tag /\ z.groups = m.groups
    BY <2>4, <2>5, <2>6, <2>8, <2>9 DEF Same
  <2> HIDE DEF z
  <2>11. /\ z.tile = [w \in DOMAIN d.tile |-> IF d.tile[w] = k THEN slot ELSE d.tile[w]]
         /\ z.tag = [w \in DOMAIN d.tag |-> IF w \in FloatersOf(h, k) THEN slot ELSE d.tag[w]]
         /\ z.groups = {IF g.home = k THEN [g EXCEPT !.home = slot] ELSE g : g \in d.groups}
    BY <2>6, <2>10
  <2>12. \A w \in DOMAIN d.tag \ z.pinned : w \in FloatersOf(h, k) <=> d.tag[w] = k
    BY <2>10 DEF FloatersOf
  <2>13. DOMAIN z.tile = DOMAIN d.tile /\ DOMAIN z.tag = DOMAIN d.tag BY <2>11
  <2>14. \A w \in DOMAIN d.tile : z.tile[w] = f[d.tile[w]]
    <3>1. \A w \in DOMAIN d.tile : d.tile[w] \in HomesOf(d) BY DEF HomesOf
    <3> QED BY <2>11, <3>1
  <2>15. \A w \in DOMAIN d.tag \ z.pinned : z.tag[w] = f[d.tag[w]]
    <3>1. \A w \in DOMAIN d.tag \ z.pinned : d.tag[w] \in HomesOf(d) BY <2>10 DEF HomesOf
    <3> QED BY <2>11, <2>12, <3>1
  <2>16. ASSUME NEW g \in d.groups PROVE [g EXCEPT !.home = f[g.home]] \in z.groups
    <3>1. g.home \in HomesOf(d) BY DEF HomesOf
    <3>2. f[g.home] = IF g.home = k THEN slot ELSE g.home BY <3>1
    <3>3. g \in Groups(L) BY DEF Held, Desks
    <3> HIDE DEF f
    <3>4. [g EXCEPT !.home = f[g.home]] = IF g.home = k THEN [g EXCEPT !.home = slot] ELSE g
      BY <3>2, <3>3 DEF Groups
    <3> QED BY <2>11, <3>4
  <2>17. Distinct(d, f) BY <2>1 DEF Distinct
  <2> HIDE DEF f
  <2>18. Renamed(z, d, f) BY <2>10, <2>13, <2>14, <2>15, <2>16 DEF Renamed
  <2> QED BY <1>4, <2>17, <2>18 DEF z
<1> QED BY <1>2, <1>3, <1>4

LEMMA HomesAreKeys ==
  ASSUME NEW L, NEW d, Held(d, L)
  PROVE  HomesOf(d) \subseteq Key
<1>1. /\ d.tile \in Maps(Keys(L)) /\ d.tag \in Maps(Keys(L)) /\ d.groups \subseteq Groups(L)
      /\ L \subseteq Output
  BY DEF Held, Desks
<1>2. \A w \in DOMAIN d.tile : d.tile[w] \in Keys(L) BY <1>1, MapsType
<1>3. \A w \in DOMAIN d.tag : d.tag[w] \in Keys(L) BY <1>1, MapsType
<1>4. \A g \in d.groups : g.home \in Keys(L) BY <1>1 DEF Groups
<1>5. Keys(L) \subseteq Key BY <1>1 DEF Keys, Key
<1>6. ASSUME NEW x \in HomesOf(d) PROVE x \in Key
  <2>1. x \in Keys(L) BY <1>2, <1>3, <1>4 DEF HomesOf
  <2> QED BY <1>5, <2>1
<1> QED BY <1>6

\* Two workspaces change places.
Exchanged(j, k) == [x \in Key |-> IF x = j THEN k ELSE IF x = k THEN j ELSE x]

LEMMA ExchangedApart ==
  ASSUME NEW j \in Key, NEW k \in Key
  PROVE  \A x, y \in Key : Exchanged(j, k)[x] = Exchanged(j, k)[y] => x = y
  BY DEF Exchanged

LEMMA RehomedIs ==
  ASSUME NEW L, NEW d \in Desks(L), NEW home
  PROVE  /\ Rehomed(d, home).tile = d.tile /\ Rehomed(d, home).tag = d.tag
         /\ Rehomed(d, home).pinned = d.pinned
         /\ Rehomed(d, home).groups = {[g EXCEPT !.home = home[g.home]] : g \in d.groups}
  BY DEF Rehomed, Desks

LEMMA SwapRenames ==
  ASSUME NEW L, NEW d, Held(d, L), NEW a \in L, NEW b \in L
  PROVE  \E f : Renamed(Swap(d, a, b), d, f) /\ Distinct(d, f)
<1> DEFINE ka == ActiveKey(d, a)
           kb == ActiveKey(d, b)
           fa == MovingFull(d, ka)
           fb == MovingFull(d, kb)
           d1 == IF fa = {} THEN d ELSE Demoted(d, fb, b)
           e == IF fb = {} THEN d1 ELSE Demoted(d1, fa, a)
           other == Exchanged(ka, kb)
           m1 == Modes(e, FloatersOf(e, ka), b)
           toB == FullTo(m1, TilesOf(e, ka), b)
           m2 == Modes(toB, FloatersOf(e, kb), a)
           toA == FullTo(m2, TilesOf(e, kb), a)
           floats == FloatersOf(e, ka) \cup FloatersOf(e, kb)
           tile == [w \in DOMAIN toA.tile |-> other[toA.tile[w]]]
           t == [toA EXCEPT !.tile = tile]
           r == Rehomed(t, other)
           key == [w \in floats |-> other[e.tag[w]]]
           l == Landed(r, floats, key)
           s == Shown(l, floats)
           z == Retile(s)
<1>1. Held(d1, L) /\ Same(d1, d) /\ d.pinned \subseteq d1.pinned
  BY DemotedKeeps, DemotedPins DEF Same
<1>2. Held(e, L) /\ Same(e, d) /\ d.pinned \subseteq e.pinned
  <2> HIDE DEF d1
  <2>1. Held(Demoted(d1, fa, a), L) /\ Same(Demoted(d1, fa, a), d1)
        /\ d1.pinned \subseteq Demoted(d1, fa, a).pinned
    BY <1>1, DemotedKeeps, DemotedPins
  <2> QED BY <1>1, <2>1, SameTwice
<1>3. Swap(d, a, b) = IF a = b THEN d
        ELSE Retile(Shown(Landed(
               Rehomed([toA EXCEPT !.tile = [w \in DOMAIN @ |-> other[@[w]]]], other),
               floats, key), floats))
  BY DEF Swap, Exchanged
<1>4. a \in Output /\ b \in Output /\ Keys(L) \subseteq Key BY DEF Held, Keys, Key
<1>5. ka \in Keys(L) /\ kb \in Keys(L) BY ActiveKeyType
<1> HIDE DEF ka, kb, d1, e, fa, fb
<1>6. /\ \A x \in Key : other[x] = IF x = ka THEN kb ELSE IF x = kb THEN ka ELSE x
      /\ \A x \in Keys(L) : other[x] \in Keys(L)
  BY <1>4, <1>5 DEF Exchanged
<1>7. Distinct(d, other)
  <2>1. ka \in Key /\ kb \in Key BY <1>4, <1>5
  <2>2. \A x, y \in Key : other[x] = other[y] => x = y BY <2>1, ExchangedApart
  <2> QED BY <2>2, HomesAreKeys DEF Distinct
<1> HIDE DEF other
<1>8. e.tile \in Maps(Keys(L)) /\ e.tag \in Maps(Keys(L)) BY <1>2 DEF Held, Desks
<1>9. floats \subseteq DOMAIN e.tag BY DEF FloatersOf
<1>10. Held(toA, L) /\ Same(toA, e) /\ toA.pinned = e.pinned
  <2>1. Held(m1, L) /\ Same(m1, e) /\ m1.pinned = e.pinned BY <1>2, <1>4, ModesKeeps
  <2> HIDE DEF m1
  <2>2. Held(toB, L) /\ Same(toB, m1) /\ toB.pinned = m1.pinned BY <1>4, <2>1, FullToKeeps
  <2> HIDE DEF toB
  <2>3. Held(m2, L) /\ Same(m2, toB) /\ m2.pinned = toB.pinned BY <1>4, <2>2, ModesKeeps
  <2> HIDE DEF m2
  <2>4. Held(toA, L) /\ Same(toA, m2) /\ toA.pinned = m2.pinned BY <1>4, <2>3, FullToKeeps
  <2> QED BY <2>1, <2>2, <2>3, <2>4, SameTwice
<1> HIDE DEF toA
<1>11. toA \in Desks(L) BY <1>10 DEF Held
<1>12. [toA EXCEPT !.tile = [w \in DOMAIN @ |-> other[@[w]]]] = t BY <1>11 DEF Desks
<1>13. tile \in Maps(Keys(L)) /\ DOMAIN tile = DOMAIN toA.tile
  <2>1. toA.tile \in Maps(Keys(L)) BY <1>11 DEF Desks
  <2>2. DOMAIN toA.tile \subseteq Window /\ \A w \in DOMAIN toA.tile : toA.tile[w] \in Keys(L)
    BY <2>1, MapsType
  <2>3. DOMAIN tile = DOMAIN toA.tile /\ tile = [w \in DOMAIN tile |-> tile[w]] OBVIOUS
  <2>4. \A w \in DOMAIN tile : tile[w] \in Keys(L) BY <1>6, <2>2
  <2> HIDE DEF tile
  <2>5. tile \in Maps(Keys(L)) BY <2>2, <2>3, <2>4, MapsType
  <2> QED BY <2>3, <2>5
<1>14. tile = [w \in DOMAIN toA.tile |-> other[toA.tile[w]]] OBVIOUS
<1> HIDE DEF tile
<1>15. t.tile = tile /\ t.tag = toA.tag /\ t.groups = toA.groups /\ t.pinned = toA.pinned
  BY <1>11 DEF Desks
<1>16. Held(t, L) BY <1>10, <1>13, TilesKept DEF Kept
<1> HIDE DEF t
<1>17. /\ r.tile = t.tile /\ r.tag = t.tag /\ r.pinned = t.pinned
       /\ r.groups = {[g EXCEPT !.home = other[g.home]] : g \in t.groups}
  <2>1. t \in Desks(L) BY <1>16 DEF Held
  <2> QED BY <2>1, RehomedIs
<1>18. Held(r, L) BY <1>6, <1>16, RehomedKept DEF Kept
<1> HIDE DEF r
<1>19. \A w \in floats : key[w] \in Keys(L) /\ key[w] = other[e.tag[w]]
  <2>1. \A w \in floats : e.tag[w] \in Keys(L) BY <1>8, <1>9, MapsType
  <2> QED BY <1>6, <2>1
<1> HIDE DEF key, floats
<1>20. Held(l, L) /\ l.pinned = r.pinned
  <2>1. r \in Desks(L) BY <1>18 DEF Held
  <2>2. Held(l, L) BY <1>18, <1>19, LandedKept DEF Kept
  <2> QED BY <2>1, <2>2, PinsStay
<1>21. /\ l.tile = r.tile /\ l.groups = r.groups
       /\ l.tag = [w \in DOMAIN r.tag |-> IF w \in floats THEN key[w] ELSE r.tag[w]]
  <2>1. /\ Landed(r, floats, key).tile = r.tile /\ Landed(r, floats, key).groups = r.groups
        /\ Landed(r, floats, key).tag
             = [w \in DOMAIN r.tag |-> IF w \in floats THEN key[w] ELSE r.tag[w]]
    <3> HIDE DEF l
    <3> QED BY <1>18, <1>19, LandedKept
  <2>2. l = Landed(r, floats, key) OBVIOUS
  <2> HIDE DEF l
  <2> QED BY <2>1, <2>2
<1> HIDE DEF l
<1>22. Held(s, L) /\ Same(s, l) /\ s.pinned = l.pinned
  <2>1. r.tag = e.tag BY <1>10, <1>15, <1>17 DEF Same
  <2>2. floats \subseteq DOMAIN l.tag BY <1>9, <1>21, <2>1
  <2>3. l \in Desks(L) BY <1>20 DEF Held
  <2> QED BY <1>20, <2>2, <2>3, ShownKeeps, PinsStay
<1> HIDE DEF s
<1>23. Same(z, s) /\ z.pinned = s.pinned BY <1>22, RetileKeeps
<1> HIDE DEF z
<1>24. /\ z.tile = [w \in DOMAIN d.tile |-> other[d.tile[w]]]
       /\ z.tag = [w \in DOMAIN d.tag |-> IF w \in floats THEN key[w] ELSE d.tag[w]]
       /\ z.groups = {[g EXCEPT !.home = other[g.home]] : g \in d.groups}
       /\ z.pinned = e.pinned /\ e.tag = d.tag
  <2>1. toA.tile = d.tile /\ toA.tag = d.tag /\ toA.groups = d.groups /\ e.tag = d.tag
    BY <1>2, <1>10 DEF Same
  <2>2. z.tile = l.tile /\ z.tag = l.tag /\ z.groups = l.groups /\ z.pinned = l.pinned
    BY <1>22, <1>23 DEF Same
  <2>3. z.tile = [w \in DOMAIN d.tile |-> other[d.tile[w]]]
    BY <1>14, <1>15, <1>17, <1>21, <2>1, <2>2
  <2>4. z.tag = [w \in DOMAIN d.tag |-> IF w \in floats THEN key[w] ELSE d.tag[w]]
    BY <1>15, <1>17, <1>21, <2>1, <2>2
  <2>5. z.groups = {[g EXCEPT !.home = other[g.home]] : g \in d.groups}
    BY <1>15, <1>17, <1>21, <2>1, <2>2
  <2>6. z.pinned = e.pinned BY <1>10, <1>15, <1>17, <1>20, <2>2
  <2> QED BY <2>1, <2>3, <2>4, <2>5, <2>6
<1>25. \A w \in DOMAIN d.tag \ z.pinned : z.tag[w] = other[d.tag[w]]
  <2>1. SUFFICES ASSUME NEW w \in DOMAIN d.tag \ z.pinned PROVE z.tag[w] = other[d.tag[w]]
    OBVIOUS
  <2>2. d.tag[w] \in Key BY <1>4, <1>8, <1>24, MapsType
  <2>3. CASE w \in floats BY <1>19, <1>24, <2>3
  <2>4. CASE w \notin floats
    <3>1. d.tag[w] # ka /\ d.tag[w] # kb BY <1>24, <2>4 DEF floats, FloatersOf
    <3> QED BY <1>6, <1>24, <2>2, <2>4, <3>1
  <2> QED BY <2>3, <2>4
<1>26. Renamed(z, d, other) BY <1>2, <1>24, <1>25 DEF Renamed
<1>27. Swap(d, a, b) = IF a = b THEN d ELSE z BY <1>3, <1>12 DEF z, s, l, r
<1>28. CASE a = b BY <1>27, <1>28, UnrenamedSame
<1>29. CASE a # b BY <1>7, <1>26, <1>27, <1>29
<1> QED BY <1>28, <1>29

\* A handler that renames the places of the desk keeps together what was.
LEMMA RenamedStay ==
  ASSUME Inv, NEW e, Kept(e, desk, Reach(desk)), desk' = e,
         \E f : Renamed(e, desk, f) /\ Distinct(desk, f)
  PROVE  StayTogether
<1>1. PICK f : Renamed(e, desk, f) /\ Distinct(desk, f) OBVIOUS
<1>2. Held(desk, Reach(desk)) /\ Held(e, Reach(desk)) /\ e.mapped = desk.mapped
  BY DEF Inv, Kept, Rearranged
<1>3. \A v, w \in desk.mapped \ e.pinned :
        HomeIn(desk, v) = HomeIn(desk, w) <=> HomeIn(e, v) = HomeIn(e, w)
  BY <1>1, <1>2, RenamedTogether
<1>4. \A w : Home(w) = HomeIn(desk, w) BY DEF Home, HomeIn
<1>5. \A w : Home(w)' = HomeIn(e, w) BY DEF Home, HomeIn
<1> QED BY <1>3, <1>4, <1>5 DEF StayTogether

LEMMA TransferTogether ==
  ASSUME Inv, Transfer
  PROVE  StayTogether
<1>1. PICK a \in desk.live, b \in desk.live : SendWorkspace(a, b) \/ SwapWorkspaces(a, b)
  BY DEF Transfer
<1> DEFINE L == Reach(desk)
<1>2. a \in L /\ b \in L /\ a \in Output /\ Held(desk, L) BY Aimed DEF Inv
<1>3. CASE SendWorkspace(a, b)
  <2>1. desk' = MoveWorkspace(desk, a, b) BY <1>3 DEF SendWorkspace, Becomes
  <2>2. Kept(MoveWorkspace(desk, a, b), desk, L) BY <1>2, MoveWorkspaceKept
  <2>3. \E f : Renamed(MoveWorkspace(desk, a, b), desk, f) /\ Distinct(desk, f)
    BY <1>2, MoveRenames
  <2> QED BY <2>1, <2>2, <2>3, RenamedStay
<1>4. CASE SwapWorkspaces(a, b)
  <2>1. desk' = Swap(desk, a, b) BY <1>4 DEF SwapWorkspaces, Becomes
  <2>2. Kept(Swap(desk, a, b), desk, L) BY <1>2, SwapKept
  <2>3. \E f : Renamed(Swap(desk, a, b), desk, f) /\ Distinct(desk, f) BY <1>2, SwapRenames
  <2> QED BY <2>1, <2>2, <2>3, RenamedStay
<1> QED BY <1>1, <1>3, <1>4

\* move_workspace_to_monitor and swap_workspaces take a workspace as a whole:
\* tiles, floaters and parked tabs that shared a workspace share one afterwards,
\* and what lived on two still lives on two - the slot a workspace is sent to is
\* one that nothing, not even a parked tab, lives on.  For any number of windows,
\* outputs and workspaces, and whatever happened before.
THEOREM WorkspacesMoveWhole == Spec => WorkspaceMovesWhole
<1>1. Inv /\ [Next]_vars => [StayTogether \/ ~Transfer]_vars BY TransferTogether
<1>2. Spec => []Inv BY InitHeld, NextHeld, PTL DEF Spec
<1> QED BY <1>1, <1>2, PTL DEF Spec, WorkspaceMovesWhole

-----------------------------------------------------------------------------
(* The leaf of a group *)

LEMMA RenamedLeafed ==
  ASSUME NEW L, NEW d, NEW e, NEW f, Kept(e, d, L), Renamed(e, d, f), Held(d, L), Leafed(d)
  PROVE  Leafed(e)
<1>1. /\ e.groups \in SUBSET Groups(L) /\ Apart(e.groups) /\ d.groups \in SUBSET Groups(L)
      /\ Retabbed(e.groups, d.groups)
  BY DEF Kept, Rearranged, Held, Desks
<1>2. ASSUME NEW g \in e.groups
      PROVE  ActiveTab(g) \in DOMAIN e.tile /\ e.tile[ActiveTab(g)] = g.home
  <2>1. PICK h \in d.groups : g.members = h.members /\ g.active = h.active
    BY <1>1 DEF Retabbed
  <2> DEFINE h1 == [h EXCEPT !.home = f[h.home]]
  <2>2. h1 \in e.groups BY DEF Renamed
  <2>3. h1.members = h.members /\ h1.home = f[h.home] BY <1>1 DEF Groups
  <2> HIDE DEF h1
  <2>4. ActiveTab(g) \in Members(g) /\ Members(g) = Members(h1) /\ ActiveTab(g) = ActiveTab(h)
    BY <1>1, <2>1, <2>3, GroupTabs DEF Members, ActiveTab
  <2>5. ActiveTab(g) \in Window BY <1>1, <2>4, GroupTabs
  <2>6. g = h1 BY <1>1, <2>2, <2>4, <2>5 DEF Apart
  <2>7. ActiveTab(h) \in DOMAIN d.tile /\ d.tile[ActiveTab(h)] = h.home BY DEF Leafed
  <2> QED BY <2>3, <2>4, <2>6, <2>7 DEF Renamed
<1> QED BY <1>2 DEF Leafed

\* A window that no map owns is the tab of no group.
LEMMA UnmappedLoose ==
  ASSUME NEW L, NEW d, Held(d, L), Leafed(d), NEW w, w \notin d.mapped
  PROVE  ~IsGrouped(d, w)
<1> SUFFICES ASSUME NEW g \in d.groups, w \in Members(g) PROVE FALSE BY DEF IsGrouped
<1>1. d.mapped = DOMAIN d.tile \cup DOMAIN d.tag \cup Parked(d) BY DEF Held, Once
<1>2. w = ActiveTab(g) \/ w \in Parked(d) BY DEF Parked, ParkedIn
<1> QED BY <1>1, <1>2 DEF Leafed

LEMMA DisconnectLeafed ==
  ASSUME NEW d, Held(d, Reach(d)), Leafed(d), NEW o \in d.live, NEW fallback,
         IF d.live = {o} THEN fallback = NoOutput ELSE fallback \in d.live \ {o}
  PROVE  Leafed(Disconnect(d, o, fallback))
<1> DEFINE e == IF fallback = NoOutput THEN d ELSE Migrate(d, o, fallback)
           b == [e EXCEPT !.live = @ \ {o}]
<1>1. Reach(d) = d.live BY DEF Reach
<1>2. Disconnect(d, o, fallback) = Retile(b) BY DEF Disconnect
<1>3. Held(e, Reach(d)) /\ Leafed(e)
  <2>1. CASE fallback = NoOutput BY <2>1
  <2>2. CASE fallback # NoOutput
    <3>1. fallback \in d.live \ {o} BY <2>2
    <3>2. Placed(d, Reach(d)) BY HeldPlaced
    <3>3. fallback \in Reach(d) /\ fallback # o BY <1>1, <3>1
    <3>4. /\ Kept(Migrate(d, o, fallback), d, Reach(d))
          /\ Relocated(Migrate(d, o, fallback), d, Fled(o, fallback))
      BY <3>2, <3>3, MigrateKept
    <3> QED BY <2>2, <3>4, RelocatedLeafed DEF Kept
  <2> QED BY <2>1, <2>2
<1> HIDE DEF e
<1>4. e \in Desks(Reach(d)) BY <1>3 DEF Held
<1>5. Still(Retile(b), b) /\ Still(b, e) BY <1>4 DEF Retile, Still, Desks
<1> QED BY <1>2, <1>3, <1>5, StillTwice, StillLeafed

\* Without pins to outputs nothing is recalled.
LEMMA NothingRecalled ==
  ASSUME NEW L, NEW e, Held(e, L), "outputPins" \notin Features, NEW o,
         NEW displaced \in SetToSeqs(Displaced(e, o))
  PROVE  Recall(e, o, displaced) = Retile(e)
<1>1. e.pin \in Maps(PinOutput) BY DEF Held, Desks
<1>2. \A w \in DOMAIN e.pin : e.pin[w] \in PinOutput BY <1>1, MapsType
<1>3. PinOutput = {} BY DEF PinOutput
<1>4. Displaced(e, o) = {} BY <1>2, <1>3 DEF Displaced
<1>5. IsFiniteSet(Displaced(e, o)) BY <1>4, FS_EmptySet
<1>6. /\ Len(displaced) \in Nat
      /\ \A i \in 1 .. Len(displaced) : displaced[i] \in Displaced(e, o)
  BY <1>5, Orders
<1>7. Len(displaced) = 0
  <2>1. Len(displaced) > 0 => 1 \in 1 .. Len(displaced) BY <1>6
  <2> QED BY <1>4, <1>6, <2>1
<1>8. PICK f : /\ Recalling(e, o, displaced, Len(displaced), f)
               /\ Recall(e, o, displaced) = Retile(f[Len(displaced)])
  BY <1>6, RecallIs
<1>9. f[0] = e BY <1>7, <1>8 DEF Recalling
<1> QED BY <1>7, <1>8, <1>9

LEMMA ConnectLeafed ==
  ASSUME NEW d, Held(d, Reach(d)), Leafed(d), "outputPins" \notin Features, NEW o \in Output,
         NEW lit, lit = [d EXCEPT !.live = @ \cup {o}],
         NEW orphaned \in SetToSeqs(Owned(lit) \ lit.live),
         NEW e, e = Adopt(lit, o, orphaned),
         NEW displaced \in SetToSeqs(Displaced(e, o))
  PROVE  Leafed(Recall(e, o, displaced))
<1> DEFINE gone == Owned(lit) \ lit.live
<1>1. Held(d, Output) BY WiderHeld
<1>2. Held(lit, Output) /\ o \in lit.live /\ Still(lit, d)
  <2> DEFINE live == d.live \cup {o}
  <2>1. d \in Desks(Output) /\ live \in SUBSET Output BY <1>1 DEF Held, Desks
  <2>2. lit = [d EXCEPT !.live = live] BY <2>1 DEF Desks
  <2>5. o \in live OBVIOUS
  <2> HIDE DEF live
  <2>3. Held(lit, Output) BY <1>1, <2>1, <2>2, LitHeld
  <2>4. lit.live = live /\ Still(lit, d) BY <2>1, <2>2 DEF Desks, Still
  <2> QED BY <2>3, <2>4, <2>5
<1>3. Owned(lit) \subseteq Output BY <1>2, OwnedOutputs
<1>4. IsFiniteSet(gone) BY <1>3, FiniteAssumption, FS_Subset
<1>5. Len(orphaned) \in Nat /\ \A i \in 1 .. Len(orphaned) : orphaned[i] \in gone
  <2> HIDE DEF gone
  <2>1. orphaned \in SetToSeqs(gone) BY DEF gone
  <2> QED BY <1>4, <2>1, Orders
<1>6. \A i \in 1 .. Len(orphaned) : orphaned[i] # o BY <1>2, <1>5
<1>7. Placed(lit, Output) BY <1>2, HeldPlaced
<1>8. Leafed(lit) BY <1>2, StillLeafed
<1>9. Kept(e, lit, Output) /\ Leafed(e) BY <1>2, <1>5, <1>6, <1>7, <1>8, AdoptKept
<1>10. Held(e, Output) BY <1>9 DEF Kept
<1>11. Recall(e, o, displaced) = Retile(e) BY <1>10, NothingRecalled
<1>12. Still(Retile(e), e) BY <1>10, RetileKeeps, SameStill
<1> QED BY <1>9, <1>11, <1>12, StillLeafed

LEMMA UserLeafed ==
  ASSUME Inv, Leafed(desk), User, "tabModes" \notin Features, "outputPins" \notin Features
  PROVE  Leafed(desk')
<1> DEFINE L == Reach(desk)
<1>1. Held(desk, L) BY DEF Inv
<1>2. /\ desk.live \subseteq L /\ desk.live \subseteq Output
      /\ Aimable \subseteq Window /\ desk.shown \subseteq Window
  BY Aimed
<1> HIDE DEF L
<1>3. ASSUME NEW w \in Aimable, LeaveTabs(w) PROVE Leafed(desk')
  BY <1>1, <1>3, UngroupHeld DEF LeaveTabs, Becomes
<1>4. ASSUME NEW w \in Aimable, NEW forward \in BOOLEAN, NextTab(w, forward) PROVE Leafed(desk')
  BY <1>1, <1>4, CycleTabHeld DEF NextTab, Becomes
<1>5. ASSUME NEW w \in Aimable, NEW b \in desk.shown, JoinGroup(w, b) PROVE Leafed(desk')
  BY <1>1, <1>5, GroupWithHeld DEF JoinGroup, Becomes
<1>6. ASSUME NEW w \in Aimable, NEW o \in desk.live, SendToMonitor(w, o) PROVE Leafed(desk')
  BY <1>1, <1>2, <1>6, MoveWindowToMonitorKept DEF SendToMonitor, Becomes
<1>7. ASSUME NEW w \in Aimable, NEW o \in desk.live, DropOnMonitor(w, o) PROVE Leafed(desk')
  BY <1>1, <1>2, <1>7, DropTileKept DEF DropOnMonitor, Becomes
<1>8. ASSUME NEW w \in Aimable, Plainly(w),
             \/ PseudoTile(w) \/ \E n \in Numbers : SendToWorkspace(w, n)
             \/ \E o \in desk.live : FloatWindow(w, o) \/ PinWindow(w, o)
      PROVE  Leafed(desk')
  <2>1. ~IsGrouped(desk, w) /\ w \in Window BY <1>2, <1>8 DEF Plainly
  <2>2. Loose(desk', desk, w)
    <3>1. CASE PseudoTile(w)
      BY <1>1, <2>1, <3>1, TogglePseudoKeeps, SameStill, StillLoose DEF PseudoTile, Becomes
    <3>2. CASE \E n \in Numbers : SendToWorkspace(w, n)
      <4>1. PICK n \in Numbers : SendToWorkspace(w, n) BY <3>2
      <4>2. n \in Workspace BY NumbersAssumption DEF NumbersAssumption
      <4> QED BY <1>1, <4>1, <4>2, MoveToWorkspaceKept DEF SendToWorkspace, Becomes
    <3>3. ASSUME NEW o \in desk.live, FloatWindow(w, o) PROVE Loose(desk', desk, w)
      <4>1. Traded(ToggleFloating(desk, w, o), desk, L, w)
        BY <1>1, <1>2, ToggleFloatingTraded
      <4> QED BY <3>3, <4>1 DEF FloatWindow, Traded
    <3>4. ASSUME NEW o \in desk.live, PinWindow(w, o) PROVE Loose(desk', desk, w)
      BY <1>1, <1>2, <2>1, <3>4, TogglePinTraded DEF PinWindow
    <3> QED BY <1>8, <3>1, <3>2, <3>3, <3>4
  <2> QED BY <1>1, <2>1, <2>2, LooseLeafed
<1>9. ASSUME NEW w \in desk.shown, NEW o \in desk.live, NudgeFloat(w, o) \/ DropFloat(w, o)
      PROVE  Leafed(desk')
  <2>1. w \in Window /\ o \in Output BY <1>2
  <2>2. Held(Nudge(desk, w, o), L) /\ Still(Nudge(desk, w, o), desk)
    BY <1>1, <2>1, NudgeKeeps, SameStill
  <2>3. Still(SyncFloating(Nudge(desk, w, o), w), Nudge(desk, w, o))
    BY <2>2, SyncFloatingKept
  <2>4. Still(SyncFloating(Nudge(desk, w, o), w), desk) BY <2>2, <2>3, StillTwice
  <2> QED BY <1>9, <2>2, <2>4, StillLeafed DEF NudgeFloat, DropFloat, Becomes
<1>10. ASSUME NEW o \in desk.live, NEW n \in Numbers, SwitchWorkspace(o, n) PROVE Leafed(desk')
  <2>1. o \in Output /\ n \in Workspace BY <1>2, NumbersAssumption DEF NumbersAssumption
  <2>2. Still(Switch(desk, o, n), desk) BY <1>1, <2>1, SwitchKept
  <2> QED BY <1>10, <2>2, StillLeafed DEF SwitchWorkspace, Becomes
<1>11. ASSUME NEW a \in desk.live, NEW b \in desk.live, SendWorkspace(a, b) PROVE Leafed(desk')
  <2>1. a \in Output /\ b \in L BY <1>2
  <2>2. Kept(MoveWorkspace(desk, a, b), desk, L) BY <1>1, <2>1, MoveWorkspaceKept
  <2>3. \E f : Renamed(MoveWorkspace(desk, a, b), desk, f) BY <1>1, <2>1, MoveRenames
  <2>4. Leafed(MoveWorkspace(desk, a, b)) BY <1>1, <2>2, <2>3, RenamedLeafed
  <2> QED BY <1>11, <2>4 DEF SendWorkspace, Becomes
<1>12. ASSUME NEW a \in desk.live, NEW b \in desk.live, SwapWorkspaces(a, b) PROVE Leafed(desk')
  <2>1. a \in L /\ b \in L BY <1>2
  <2>2. Kept(Swap(desk, a, b), desk, L) BY <1>1, <2>1, SwapKept
  <2>3. \E f : Renamed(Swap(desk, a, b), desk, f) BY <1>1, <2>1, SwapRenames
  <2>4. Leafed(Swap(desk, a, b)) BY <1>1, <2>2, <2>3, RenamedLeafed
  <2> QED BY <1>12, <2>4 DEF SwapWorkspaces, Becomes
<1>13. \A w : ~PinToMonitor(w) BY DEF PinToMonitor
<1> QED BY <1>3, <1>4, <1>5, <1>6, <1>7, <1>8, <1>9, <1>10, <1>11, <1>12, <1>13 DEF User

LEMMA ClientLeafed ==
  ASSUME Inv, Leafed(desk), NEW w \in Window,
         \/ RequestUnfullscreen(w) \/ RequestUnmaximize(w)
         \/ CommitFloat(w) \/ ActivateWindow(w) \/ UnmapWindow(w)
         \/ \E o \in desk.live :
              \/ RequestFullscreen(w, o) \/ RequestMaximize(w, o)
              \/ \E n \in Numbers, rule \in Rules : MapWindow(w, o, n, rule)
  PROVE  Leafed(desk')
<1> DEFINE L == Reach(desk)
<1>1. Held(desk, L) BY DEF Inv
<1>2. desk.live \subseteq L /\ desk.live \subseteq Output BY Aimed
<1> HIDE DEF L
<1>3. CASE RequestUnfullscreen(w)
  BY <1>1, <1>3, UnfullscreenKeeps, SameStill, StillLeafed DEF RequestUnfullscreen, Becomes
<1>4. CASE RequestUnmaximize(w)
  BY <1>1, <1>4, UnmaximizeKeeps, SameStill, StillLeafed DEF RequestUnmaximize, Becomes
<1>5. CASE CommitFloat(w)
  BY <1>1, <1>5, SyncFloatingKept, StillLeafed DEF CommitFloat, Becomes
<1>6. CASE ActivateWindow(w) BY <1>1, <1>6, ActivateHeld DEF ActivateWindow, Becomes
<1>7. CASE UnmapWindow(w) BY <1>1, <1>7, UnmapHeld DEF UnmapWindow
<1>8. ASSUME NEW o \in desk.live, RequestFullscreen(w, o) PROVE Leafed(desk')
  BY <1>1, <1>2, <1>8, FullscreenKeeps, StillLeafed DEF RequestFullscreen, Becomes
<1>9. ASSUME NEW o \in desk.live, RequestMaximize(w, o) PROVE Leafed(desk')
  BY <1>1, <1>2, <1>9, MaximizeKeeps, SameStill, StillLeafed DEF RequestMaximize, Becomes
<1>10. ASSUME NEW o \in desk.live, NEW n \in Numbers, NEW rule \in Rules, MapWindow(w, o, n, rule)
       PROVE  Leafed(desk')
  <2>1. w \notin desk.mapped /\ desk' = Map(desk, w, o, n, rule) BY <1>10 DEF MapWindow
  <2>2. n \in Workspace /\ o \in L BY <1>2, NumbersAssumption DEF NumbersAssumption
  <2>3. Loose(Map(desk, w, o, n, rule), desk, w) BY <1>1, <2>1, <2>2, MapHeld
  <2>4. ~IsGrouped(desk, w) BY <1>1, <2>1, UnmappedLoose
  <2> QED BY <1>1, <2>1, <2>3, <2>4, LooseLeafed
<1> QED BY <1>3, <1>4, <1>5, <1>6, <1>7, <1>8, <1>9, <1>10

LEMMA HotplugLeafed ==
  ASSUME Inv, Leafed(desk), Hotplug, "outputPins" \notin Features
  PROVE  Leafed(desk')
<1>1. Held(desk, Reach(desk)) BY DEF Inv
<1>2. ASSUME NEW o \in Output \ desk.live, ConnectOutput(o) PROVE Leafed(desk')
  <2> DEFINE lit == [desk EXCEPT !.live = @ \cup {o}]
  <2>1. lit = [desk EXCEPT !.live = @ \cup {o}] OBVIOUS
  <2>2. \E orphaned \in SetToSeqs(Owned(lit) \ lit.live) :
          LET e == Adopt(lit, o, orphaned)
          IN \E displaced \in SetToSeqs(Displaced(e, o)) : desk' = Recall(e, o, displaced)
    BY <1>2 DEF ConnectOutput
  <2> HIDE DEF lit
  <2>3. PICK orphaned \in SetToSeqs(Owned(lit) \ lit.live) :
          \E displaced \in SetToSeqs(Displaced(Adopt(lit, o, orphaned), o)) :
            desk' = Recall(Adopt(lit, o, orphaned), o, displaced)
    BY <2>2
  <2> DEFINE e == Adopt(lit, o, orphaned)
  <2>4. PICK displaced \in SetToSeqs(Displaced(e, o)) : desk' = Recall(e, o, displaced)
    BY <2>3
  <2>5. e = Adopt(lit, o, orphaned) OBVIOUS
  <2> HIDE DEF e
  <2>6. Leafed(Recall(e, o, displaced)) BY <1>1, <2>1, <2>5, ConnectLeafed
  <2> QED BY ONLY <2>4, <2>6
<1>3. ASSUME NEW o \in desk.live, NEW fallback, DisconnectOutput(o, fallback),
             IF desk.live = {o} THEN fallback = NoOutput ELSE fallback \in desk.live \ {o}
      PROVE  Leafed(desk')
  <2>1. Leafed(Disconnect(desk, o, fallback)) BY <1>1, <1>3, DisconnectLeafed
  <2> QED BY <1>3, <2>1 DEF DisconnectOutput, Becomes
<1> QED BY <1>2, <1>3 DEF Hotplug

LEMMA LeafedStays ==
  ASSUME "tabModes" \notin Features, "outputPins" \notin Features
  PROVE  Inv /\ Leafed(desk) /\ [Next]_vars => (Inv /\ Leafed(desk))'
<1> SUFFICES ASSUME Inv, Leafed(desk), [Next]_vars PROVE Leafed(desk)' BY NextHeld
<1>1. CASE User BY <1>1, UserLeafed
<1>2. CASE Client
  <2>1. PICK w \in Window :
          \/ RequestUnfullscreen(w) \/ RequestUnmaximize(w)
          \/ CommitFloat(w) \/ ActivateWindow(w) \/ UnmapWindow(w)
          \/ \E o \in desk.live :
               \/ RequestFullscreen(w, o) \/ RequestMaximize(w, o)
               \/ \E n \in Numbers, rule \in Rules : MapWindow(w, o, n, rule)
    BY <1>2 DEF Client
  <2> QED BY <2>1, ClientLeafed
<1>3. CASE Hotplug BY <1>3, HotplugLeafed
<1>4. CASE UNCHANGED vars BY <1>4 DEF vars
<1> QED BY <1>1, <1>2, <1>3, <1>4 DEF Next

\* The visible tab of a group holds the leaf, and the leaf stands where the group
\* is at home, so that an activation opens the right workspace and a tab that
\* leaves is inserted beside its group: through every switch, transfer, exchange,
\* migration and adoption of workspaces, every change of the tabs, and every map
\* and unmap.  Two operations the code does not keep from a tab are excepted: what
\* forgets the group of a tab it takes for a plain window (float, pin, a send to a
\* workspace), and the recall of a pinned tab to its output, which leaves the
\* group behind.
THEOREM TabsKeepTheirLeaf ==
  ASSUME "tabModes" \notin Features, "outputPins" \notin Features
  PROVE  Spec => []GroupAtLeaf
<1>1. Init => Inv /\ Leafed(desk)
  <2>1. Init => Leafed(desk) BY DEF Init, Leafed
  <2> QED BY <2>1, InitHeld
<1>2. Inv /\ Leafed(desk) /\ [Next]_vars => (Inv /\ Leafed(desk))' BY LeafedStays
<1>3. Inv /\ Leafed(desk) => GroupAtLeaf BY DEF Leafed, GroupAtLeaf, IsTiled
<1> QED BY <1>1, <1>2, <1>3, PTL DEF Spec

-----------------------------------------------------------------------------
(* What is shown, and how *)

\* Only floaters are pinned, and not in fullscreen.
PinsFloat(d) == d.pinned \subseteq DOMAIN d.tag \ DOMAIN d.full

\* Only tiles are pseudo-tiled.
PseudoAt(d) == d.pseudo \subseteq DOMAIN d.tile

\* Only floaters are maximized, on the output that owns them.
MaxiAt(d) == \A w \in DOMAIN d.maxi : w \in DOMAIN d.tag /\ d.tag[w][1] = d.maxi[w]

\* A fullscreen window covers the output that owns it, and has no pin to come
\* back to if it is a tile.
FullAt(d) ==
  \A w \in DOMAIN d.full :
    \/ w \in DOMAIN d.tile /\ d.tile[w][1] = d.full[w].output /\ ~d.full[w].wasPinned
    \/ w \in DOMAIN d.tag /\ d.tag[w][1] = d.full[w].output

\* An output has one fullscreen window.
FullOnce(d) == \A v, w \in DOMAIN d.full : d.full[v].output = d.full[w].output => v = w

\* A floater lies on the output that owns it.
OverAt(d) == \A w \in DOMAIN d.tag : w \in DOMAIN d.over /\ d.over[w] = d.tag[w][1]

\* A tab has no mode.
Untabbed(d) == \A g \in d.groups : \A w \in Members(g) : w \notin DOMAIN d.full /\ w \notin d.pseudo

Moded(d) ==
  /\ PinsFloat(d) /\ PseudoAt(d) /\ MaxiAt(d) /\ FullAt(d) /\ FullOnce(d)
  /\ OverAt(d) /\ Untabbed(d)

\* No tile of a closed workspace is shown, and just the floaters of the open
\* ones and the pinned ones.
InView(d) ==
  /\ \A w \in DOMAIN d.tile : w \in d.shown => IsActive(d, d.tile[w])
  /\ \A w \in DOMAIN d.tag : w \in d.shown <=> IsActive(d, d.tag[w]) \/ w \in d.pinned

\* Every tile of an open workspace is shown on an output that is lit.
LitTiles(d) ==
  \A w \in DOMAIN d.tile : d.tile[w][1] \in d.live /\ IsActive(d, d.tile[w]) => w \in d.shown

Agree(d) == Moded(d) /\ InView(d)
Settled(d) == Agree(d) /\ LitTiles(d)

\* The windows the desk takes to be meant to be pinned.
Pins(d) == d.pinned \cup {w \in DOMAIN d.full : d.full[w].wasPinned}

\* The same places and the same modes.
SameModes(e, d) ==
  /\ e.tile = d.tile /\ e.tag = d.tag /\ e.over = d.over /\ e.groups = d.groups
  /\ e.full = d.full /\ e.maxi = d.maxi /\ e.pinned = d.pinned /\ e.pseudo = d.pseudo

LEMMA SameModesModed ==
  ASSUME NEW d, NEW e, SameModes(e, d)
  PROVE  (Moded(d) => Moded(e)) /\ Pins(e) = Pins(d)
<1> USE DEF SameModes
<1>1. Pins(e) = Pins(d) BY DEF Pins
<1>2. Moded(d) => PinsFloat(e) /\ PseudoAt(e) /\ MaxiAt(e) /\ FullAt(e)
  BY DEF Moded, PinsFloat, PseudoAt, MaxiAt, FullAt
<1>3. Moded(d) => FullOnce(e) /\ OverAt(e) /\ Untabbed(e)
  BY DEF Moded, FullOnce, OverAt, Untabbed
<1> QED BY <1>1, <1>2, <1>3 DEF Moded

\* retile shows the tiles that belong in view.
LEMMA RetileSettles ==
  ASSUME NEW L, NEW d, Held(d, L)
  PROVE  /\ SameModes(Retile(d), d) /\ Retile(d).live = d.live /\ Retile(d).active = d.active
         /\ Pins(Retile(d)) = Pins(d)
         /\ Agree(d) => Settled(Retile(d))
<1> DEFINE e == Retile(d)
           open == {w \in DOMAIN d.tile : d.tile[w][1] \in d.live /\ IsActive(d, d.tile[w])}
<1>1. d \in Desks(L) BY DEF Held
<1>2. /\ SameModes(e, d) /\ e.live = d.live /\ e.active = d.active
      /\ e.shown = d.shown \cup open
  BY <1>1 DEF Retile, Desks, SameModes
<1>3. Pins(e) = Pins(d) /\ (Moded(d) => Moded(e)) BY <1>2, SameModesModed
<1>4. DOMAIN d.tile \cap DOMAIN d.tag = {} BY DEF Held, Once
<1> HIDE DEF e
<1>5. \A k : IsActive(e, k) <=> IsActive(d, k) BY <1>2 DEF IsActive
<1>6. e.tile = d.tile /\ e.tag = d.tag /\ e.pinned = d.pinned BY <1>2 DEF SameModes
<1>7. InView(d) => InView(e) BY <1>2, <1>4, <1>5, <1>6 DEF InView
<1>8. LitTiles(e) BY <1>2, <1>5, <1>6 DEF LitTiles
<1> QED BY <1>2, <1>3, <1>7, <1>8 DEF Settled, Agree, e

LEMMA DeskMaps ==
  ASSUME NEW L, NEW d, Held(d, L)
  PROVE  /\ d \in Desks(L) /\ L \subseteq Output
         /\ d.tile \in Maps(Keys(L)) /\ d.tag \in Maps(Keys(L)) /\ d.over \in Maps(Output)
         /\ d.full \in Maps(FullscreenEntry) /\ d.maxi \in Maps(Output)
         /\ DOMAIN d.full \subseteq Window /\ DOMAIN d.tile \subseteq Window
         /\ DOMAIN d.tag \subseteq Window /\ DOMAIN d.maxi \subseteq Window
         /\ DOMAIN d.over \subseteq Window
         /\ DOMAIN d.tile \cap DOMAIN d.tag = {}
         /\ d.shown \subseteq DOMAIN d.tile \cup DOMAIN d.tag
         /\ d.shown \subseteq Window /\ d.pinned \subseteq Window /\ d.pseudo \subseteq Window
         /\ d.live \subseteq L /\ d.active \in [Output -> Workspace]
<1>1. /\ d \in Desks(L) /\ L \subseteq Output
      /\ d.shown \subseteq DOMAIN d.tile \cup DOMAIN d.tag
      /\ DOMAIN d.tile \cap DOMAIN d.tag = {}
  BY DEF Held, Once
<1>2. /\ d.tile \in Maps(Keys(L)) /\ d.tag \in Maps(Keys(L)) /\ d.over \in Maps(Output)
      /\ d.full \in Maps(FullscreenEntry) /\ d.maxi \in Maps(Output)
      /\ d.shown \subseteq Window /\ d.pinned \subseteq Window /\ d.pseudo \subseteq Window
      /\ d.live \subseteq L /\ d.active \in [Output -> Workspace]
  BY <1>1 DEF Desks
<1>3. /\ DOMAIN d.full \subseteq Window /\ DOMAIN d.tile \subseteq Window
      /\ DOMAIN d.tag \subseteq Window /\ DOMAIN d.maxi \subseteq Window
      /\ DOMAIN d.over \subseteq Window
  BY <1>2 DEF Maps
<1> QED BY <1>1, <1>2, <1>3

\* The desk e is d with the window w out of fullscreen.
Eased(e, d, w) ==
  /\ Same(e, d) /\ e.over = d.over /\ e.pseudo = d.pseudo
  /\ DOMAIN e.full = DOMAIN d.full \ {w}
  /\ \A x \in DOMAIN d.full \ {w} : e.full[x] = d.full[x]
  /\ DOMAIN e.maxi = DOMAIN d.maxi /\ \A x \in DOMAIN d.maxi : e.maxi[x] = d.maxi[x]
  /\ e.pinned = d.pinned \cup {x \in {w} : d.full[w].wasPinned}

LEMMA EasedModed ==
  ASSUME NEW d, NEW w \in DOMAIN d.full, NEW e, Eased(e, d, w), Moded(d),
         DOMAIN d.tile \cap DOMAIN d.tag = {}
  PROVE  Moded(e) /\ Pins(e) = Pins(d)
<1> USE DEF Eased, Same
<1>1. PinsFloat(e) BY DEF PinsFloat, Moded, FullAt
<1>2. PseudoAt(e) /\ MaxiAt(e) /\ FullAt(e) /\ FullOnce(e) /\ OverAt(e)
  BY DEF PseudoAt, MaxiAt, FullAt, FullOnce, OverAt, Moded
<1>3. Untabbed(e) BY DEF Untabbed, Moded
<1>4. Pins(e) = Pins(d) BY DEF Pins
<1> QED BY <1>1, <1>2, <1>3, <1>4 DEF Moded

LEMMA SameModesEased ==
  ASSUME NEW d, NEW w, NEW f, NEW e, Eased(f, d, w), SameModes(e, f), Same(e, f)
  PROVE  Eased(e, d, w)
BY DEF Eased, SameModes, Same

\* A window that leaves fullscreen falls back into its tile, or gets its pin back.
LEMMA UnfullscreenAgrees ==
  ASSUME NEW L, NEW d, Held(d, L), Agree(d), NEW w \in DOMAIN d.full
  PROVE  /\ Settled(Unfullscreen(d, w)) /\ Pins(Unfullscreen(d, w)) = Pins(d)
         /\ Eased(Unfullscreen(d, w), d, w)
<1>1. /\ d \in Desks(L) /\ DOMAIN d.tile \cap DOMAIN d.tag = {} /\ DOMAIN d.full \subseteq Window
      /\ d.full \in Maps(FullscreenEntry) /\ d.maxi \in Maps(Output)
      /\ d.shown \subseteq DOMAIN d.tile \cup DOMAIN d.tag /\ d.shown \subseteq Window
      /\ d.pinned \subseteq Window
  BY DeskMaps
<1> DEFINE was == d.full[w].wasPinned
           shown == IF was /\ IsTagged(d, w) THEN d.shown \cup {w} ELSE d.shown
           pinned == IF was THEN d.pinned \cup {w} ELSE d.pinned
           full == Drop(d.full, {w})
           maxi == Drop(d.maxi, {w})
           tiled == [d EXCEPT !.full = full, !.maxi = maxi]
           other == [d EXCEPT !.full = full, !.shown = shown, !.pinned = pinned]
<1>2. Unfullscreen(d, w) = IF IsTiled(d, w) THEN Retile(tiled) ELSE Retile(other)
  BY <1>1 DEF Unfullscreen, Desks, IsTagged, IsFull
<1>3. /\ full \in Maps(FullscreenEntry) /\ DOMAIN full = DOMAIN d.full \ {w}
      /\ \A x \in DOMAIN d.full \ {w} : full[x] = d.full[x]
  <2>1. d.full \in Maps(FullscreenEntry) BY <1>1
  <2> QED BY ONLY <2>1, DropMaps
<1>4. /\ maxi \in Maps(Output) /\ DOMAIN maxi = DOMAIN d.maxi \ {w}
      /\ \A x \in DOMAIN d.maxi \ {w} : maxi[x] = d.maxi[x]
  <2>1. d.maxi \in Maps(Output) BY <1>1
  <2> QED BY ONLY <2>1, DropMaps
<1> HIDE DEF full, maxi
<1>5. CASE IsTiled(d, w)
  <2>1. w \in DOMAIN d.tile /\ w \notin DOMAIN d.tag BY <1>1, <1>5 DEF IsTiled
  <2>2. ~was /\ w \notin DOMAIN d.maxi BY <2>1 DEF Agree, Moded, FullAt, MaxiAt
  <2>3. /\ tiled \in Desks(L) /\ Same(tiled, d) /\ tiled.shown = d.shown /\ tiled.full = full
        /\ tiled.maxi = maxi /\ tiled.over = d.over /\ tiled.pseudo = d.pseudo
        /\ tiled.pinned = d.pinned
    BY <1>1, <1>3, <1>4 DEF Desks, Same
  <2> HIDE DEF tiled
  <2>4. Held(tiled, L) BY <1>1, <2>3, SameHeld
  <2>5. Eased(tiled, d, w)
    <3>1. DOMAIN maxi = DOMAIN d.maxi /\ \A x \in DOMAIN d.maxi : maxi[x] = d.maxi[x] BY <1>4, <2>2
    <3> QED BY <1>3, <2>2, <2>3, <3>1 DEF Eased
  <2>6. InView(tiled)
    BY <2>3 DEF Agree, InView, Same, IsActive
  <2>7. Moded(tiled) /\ Pins(tiled) = Pins(d) BY <1>1, <2>5, EasedModed DEF Agree
  <2>8. Unfullscreen(d, w) = Retile(tiled) BY <1>2, <1>5
  <2> QED BY <2>4, <2>5, <2>6, <2>7, <2>8, RetileSettles, RetileKeeps, SameModesEased DEF Agree
<1>6. CASE ~IsTiled(d, w)
  <2>1. w \in DOMAIN d.tag /\ w \notin DOMAIN d.tile BY <1>6 DEF Agree, Moded, FullAt, IsTiled
  <2>2. shown \subseteq Window /\ pinned \subseteq Window
        /\ shown \subseteq DOMAIN d.tile \cup DOMAIN d.tag
    BY <1>1 DEF IsTagged
  <2>3. shown = d.shown \cup {x \in {w} : was} /\ pinned = d.pinned \cup {x \in {w} : was}
    BY <2>1 DEF IsTagged
  <2> HIDE DEF shown, pinned
  <2>4. /\ other \in Desks(L) /\ Same(other, d) /\ other.shown = shown /\ other.full = full
        /\ other.maxi = d.maxi /\ other.over = d.over /\ other.pseudo = d.pseudo
        /\ other.pinned = pinned
    BY <1>1, <1>3, <2>2 DEF Desks, Same
  <2> HIDE DEF other
  <2>5. Held(other, L) BY <2>2, <2>4, SameHeld
  <2>6. Eased(other, d, w) BY <1>3, <2>3, <2>4 DEF Eased
  <2>7. InView(other)
    BY <2>1, <2>3, <2>4 DEF Agree, InView, Same, IsActive
  <2>8. Moded(other) /\ Pins(other) = Pins(d) BY <1>1, <2>6, EasedModed DEF Agree
  <2>9. Unfullscreen(d, w) = Retile(other) BY <1>2, <1>6
  <2> QED BY <2>5, <2>6, <2>7, <2>8, <2>9, RetileSettles, RetileKeeps, SameModesEased DEF Agree
<1> QED BY <1>5, <1>6

\* The fullscreen window of an output makes room: the windows S are as they were.
RoomMade(e, d, S, o) ==
  /\ Same(e, d) /\ e.over = d.over /\ e.pseudo = d.pseudo
  /\ DOMAIN e.full = {x \in DOMAIN d.full : x \in S \/ d.full[x].output # o}
  /\ \A x \in DOMAIN e.full : e.full[x] = d.full[x]
  /\ DOMAIN e.maxi = DOMAIN d.maxi /\ \A x \in DOMAIN d.maxi : e.maxi[x] = d.maxi[x]
  /\ \A x \in e.pinned : \/ x \in d.pinned
                         \/ x \in DOMAIN d.full \ S /\ d.full[x].output = o
  /\ d.pinned \subseteq e.pinned /\ d.shown \subseteq e.shown

LEMMA UnfullscreenShows ==
  ASSUME NEW L, NEW d, Held(d, L), NEW w \in DOMAIN d.full
  PROVE  d.shown \subseteq Unfullscreen(d, w).shown
<1>1. d \in Desks(L) BY DEF Held
<1> DEFINE was == d.full[w].wasPinned
           shown == IF was /\ IsTagged(d, w) THEN d.shown \cup {w} ELSE d.shown
           pinned == IF was THEN d.pinned \cup {w} ELSE d.pinned
           tiled == [d EXCEPT !.full = Drop(@, {w}), !.maxi = Drop(@, {w})]
           other == [d EXCEPT !.full = Drop(@, {w}), !.shown = shown, !.pinned = pinned]
<1>2. Unfullscreen(d, w) = IF IsTiled(d, w) THEN Retile(tiled) ELSE Retile(other)
  BY <1>1 DEF Unfullscreen, Desks, IsTagged, IsFull
<1>3. \A f : Retile(f).shown = Retile(f).shown OBVIOUS
<1>4. d.shown \subseteq Retile(tiled).shown
  BY <1>1 DEF Retile, Desks
<1>5. d.shown \subseteq Retile(other).shown
  BY <1>1 DEF Retile, Desks
<1> QED BY <1>2, <1>4, <1>5

LEMMA DemotedAgrees ==
  ASSUME NEW L, NEW d, Held(d, L), Agree(d), NEW S, NEW o
  PROVE  LET e == Demoted(d, S, o) IN
         /\ Held(e, L) /\ Agree(e) /\ Pins(e) = Pins(d) /\ RoomMade(e, d, S, o)
         /\ LitTiles(d) => LitTiles(e)
<1> DEFINE owners == {x \in DOMAIN d.full \ S : d.full[x].output = o}
           x == CHOOSE y \in owners : TRUE
           e == Demoted(d, S, o)
<1>1. e = IF owners = {} THEN d ELSE Unfullscreen(d, x) BY DEF Demoted
<1>2. Held(e, L) BY DemotedKeeps
<1>3. CASE owners = {}
  <2>1. e = d BY <1>1, <1>3
  <2>2. RoomMade(d, d, S, o)
    <3>1. DOMAIN d.full = {y \in DOMAIN d.full : y \in S \/ d.full[y].output # o} BY <1>3
    <3>2. Same(d, d) BY DEF Same
    <3> QED BY <3>1, <3>2 DEF RoomMade
  <2> HIDE DEF e
  <2> QED BY <1>2, <2>1, <2>2 DEF e
<1>4. CASE owners # {}
  <2>1. x \in owners BY <1>4
  <2>2. e = Unfullscreen(d, x) BY <1>1, <1>4
  <2>3. x \in DOMAIN d.full /\ x \notin S /\ d.full[x].output = o BY <2>1
  <2>4. \A y \in owners : y = x BY <2>3 DEF Agree, Moded, FullOnce
  <2> HIDE DEF x, e
  <2>5. Settled(e) /\ Pins(e) = Pins(d) /\ Eased(e, d, x) BY <2>2, <2>3, UnfullscreenAgrees
  <2>6. d.shown \subseteq e.shown BY <2>2, <2>3, UnfullscreenShows
  <2>7. DOMAIN e.full = {y \in DOMAIN d.full : y \in S \/ d.full[y].output # o}
    BY <2>3, <2>4, <2>5 DEF Eased
  <2>8. RoomMade(e, d, S, o) BY <2>3, <2>5, <2>6, <2>7 DEF Eased, RoomMade
  <2> QED BY <1>2, <2>5, <2>8 DEF Settled, e
<1> QED BY <1>3, <1>4

\* A desk is a record, however its fields are set.
IsDesk(d) ==
  {"live", "active", "mapped", "tile", "tag", "over", "pinned", "pseudo", "shown",
   "full", "maxi", "groups", "pin"} \subseteq DOMAIN d

LEMMA HeldIsDesk ==
  ASSUME NEW L, NEW d, Held(d, L)
  PROVE  IsDesk(d)
BY DEF Held, Desks, IsDesk

LEMMA RetileShows ==
  ASSUME NEW d, IsDesk(d), DOMAIN d.tile \cap DOMAIN d.tag = {}
  PROVE  /\ SameModes(Retile(d), d) /\ Retile(d).live = d.live /\ Retile(d).active = d.active
         /\ IsDesk(Retile(d)) /\ Pins(Retile(d)) = Pins(d)
         /\ Agree(d) => Settled(Retile(d))
<1> DEFINE e == Retile(d)
           open == {w \in DOMAIN d.tile : d.tile[w][1] \in d.live /\ IsActive(d, d.tile[w])}
<1>2. /\ SameModes(e, d) /\ e.live = d.live /\ e.active = d.active /\ IsDesk(e)
      /\ e.shown = d.shown \cup open
  BY DEF Retile, IsDesk, SameModes
<1>3. Pins(e) = Pins(d) /\ (Moded(d) => Moded(e)) BY <1>2, SameModesModed
<1> HIDE DEF e
<1>5. \A k : IsActive(e, k) <=> IsActive(d, k) BY <1>2 DEF IsActive
<1>6. e.tile = d.tile /\ e.tag = d.tag /\ e.pinned = d.pinned BY <1>2 DEF SameModes
<1>7. InView(d) => InView(e) BY <1>2, <1>5, <1>6 DEF InView
<1>8. LitTiles(e) BY <1>2, <1>5, <1>6 DEF LitTiles
<1> QED BY <1>2, <1>3, <1>7, <1>8 DEF Settled, Agree, e

\* Where a window with a tile or a tag is at home.
At(d, w) == IF IsTiled(d, w) THEN d.tile[w] ELSE d.tag[w]
Homed(d) == DOMAIN d.tile \cup DOMAIN d.tag

\* rendered_output_for_surface and preferred_output_for_toplevel find the owner.
LEMMA RenderedAt ==
  ASSUME NEW L, NEW d, Held(d, L), Agree(d), NEW w \in Homed(d)
  PROVE  /\ Rendered(d, w) = IF w \in d.shown THEN Live(d, At(d, w)[1]) ELSE NoOutput
         /\ Preferred(d, w) = At(d, w)[1]
         /\ At(d, w) \in Keys(L) /\ At(d, w)[1] \in L /\ At(d, w)[1] # NoOutput
<1>1. /\ d.tile \in Maps(Keys(L)) /\ d.tag \in Maps(Keys(L)) /\ L \subseteq Output
      /\ DOMAIN d.tile \cap DOMAIN d.tag = {}
  BY DeskMaps
<1>2. At(d, w) \in Keys(L)
  <2>1. CASE IsTiled(d, w)
    <3>1. w \in DOMAIN d.tile BY <2>1 DEF IsTiled
    <3>2. d.tile[w] \in Keys(L) BY ONLY <1>1, <3>1, MapsType
    <3> QED BY <2>1, <3>2 DEF At
  <2>2. CASE ~IsTiled(d, w)
    <3>1. w \in DOMAIN d.tag BY <2>2 DEF IsTiled, Homed
    <3>2. d.tag[w] \in Keys(L) BY ONLY <1>1, <3>1, MapsType
    <3> QED BY <2>2, <3>2 DEF At
  <2> QED BY <2>1, <2>2
<1>3. At(d, w)[1] \in L /\ At(d, w)[1] # NoOutput
  BY <1>1, <1>2, ScratchAssumption DEF Keys
<1>4. Rendered(d, w) = IF w \in d.shown THEN Live(d, At(d, w)[1]) ELSE NoOutput
  <2>1. CASE IsTiled(d, w) BY <2>1 DEF Rendered, At
  <2>2. CASE ~IsTiled(d, w)
    <3>1. w \in DOMAIN d.tag /\ At(d, w) = d.tag[w] BY <2>2 DEF IsTiled, Homed, At
    <3>2. IsFull(d, w) => d.full[w].output = d.tag[w][1]
      BY <2>2 DEF Agree, Moded, FullAt, IsFull, IsTiled
    <3>3. IsMaxi(d, w) => d.maxi[w] = d.tag[w][1] BY DEF Agree, Moded, MaxiAt, IsMaxi
    <3>4. d.over[w] = d.tag[w][1] BY <3>1 DEF Agree, Moded, OverAt
    <3> QED BY <2>2, <3>1, <3>2, <3>3, <3>4 DEF Rendered
  <2> QED BY <2>1, <2>2
<1>5. Preferred(d, w) = At(d, w)[1]
  BY <1>3, <1>4 DEF Preferred, Live, At, IsTiled, IsTagged, Homed
<1> QED BY <1>2, <1>3, <1>4, <1>5

LEMMA IsActiveSame ==
  ASSUME NEW d, NEW e, e.active = d.active
  PROVE  \A k : IsActive(e, k) <=> IsActive(d, k)
BY DEF IsActive

\* do_fullscreen_request on the output the window is on.
LEMMA FullscreenAgrees ==
  ASSUME NEW L, NEW d, Held(d, L), Settled(d), NEW w \in Homed(d), ~IsGrouped(d, w),
         NEW o, o = At(d, w)[1]
  PROVE  /\ Settled(Fullscreen(d, w, o)) /\ Pins(Fullscreen(d, w, o)) = Pins(d)
<1> DEFINE e == Demoted(d, {w}, o)
           was == w \in e.pinned \/ (IsFull(e, w) /\ e.full[w].wasPinned)
           rect == \/ IsFull(e, w) /\ e.full[w].hasRect
                   \/ IsMaxi(e, w)
                   \/ w \in e.mapped /\ ~IsTiled(e, w) /\ w \in e.shown
           tag == IF was /\ IsTagged(e, w) THEN Put(e.tag, w, ActiveKey(e, o)) ELSE e.tag
           entry == [output |-> o, wasPinned |-> was, pinFloated |-> FALSE, hasRect |-> rect]
           full == Put(e.full, w, entry)
           r == [e EXCEPT !.pinned = @ \ {w}, !.tag = tag, !.full = full]
<1>1. /\ Held(e, L) /\ Agree(e) /\ Pins(e) = Pins(d) /\ RoomMade(e, d, {w}, o)
  BY DemotedAgrees DEF Settled
<1>2. Held(d, L) /\ Agree(d) /\ IsDesk(d) /\ DOMAIN d.tile \cap DOMAIN d.tag = {}
  BY DeskMaps, HeldIsDesk DEF Settled
<1>3. CASE IsFull(d, w) /\ d.full[w].output = o
  <2>1. Fullscreen(d, w, o) = Retile(d) BY <1>3 DEF Fullscreen
  <2> QED BY <1>2, <2>1, RetileShows
<1>4. CASE ~(IsFull(d, w) /\ d.full[w].output = o)
  <2>1. w \notin DOMAIN d.full
    BY <1>2, <1>4 DEF IsFull, Agree, Moded, FullAt, At, IsTiled
  <2>2. /\ IsDesk(e) /\ w \notin DOMAIN e.full /\ Same(e, d)
        /\ \A x \in DOMAIN e.full : e.full[x].output # o
    BY <1>1, <2>1, HeldIsDesk DEF RoomMade
  <2>3. Fullscreen(d, w, o) = Retile(r)
    <3>1. IsDesk(e) BY <2>2
    <3> HIDE DEF e
    <3>2. r = [e EXCEPT !.pinned = @ \ {w},
                      !.tag = IF was /\ IsTagged(e, w) THEN Put(@, w, ActiveKey(e, o)) ELSE @,
                      !.full = Put(@, w, [output |-> o, wasPinned |-> was,
                                          pinFloated |-> FALSE, hasRect |-> rect])]
      BY <3>1 DEF IsDesk
    <3> QED BY <1>4, <3>2 DEF Fullscreen, e
  <2> HIDE DEF e, rect
  <2>4. was <=> w \in e.pinned BY <2>2 DEF IsFull
  <2>5. w \in e.pinned => w \in DOMAIN e.tag BY <1>1 DEF Agree, Moded, PinsFloat
  <2>6. At(e, w) = At(d, w) BY <2>2 DEF Same, At, IsTiled
  <2>7. entry.output = o /\ entry.wasPinned = was OBVIOUS
  <2> HIDE DEF was, entry
  <2>8. /\ DOMAIN full = DOMAIN e.full \cup {w} /\ full[w] = entry
        /\ \A x \in DOMAIN e.full : full[x] = e.full[x]
    BY <2>2 DEF Put
  <2>9. /\ DOMAIN tag = DOMAIN e.tag
        /\ \A x \in DOMAIN e.tag : x # w => tag[x] = e.tag[x]
        /\ w \in e.pinned => tag[w] = ActiveKey(e, o)
        /\ w \notin e.pinned => tag = e.tag
    BY <2>4, <2>5 DEF Put, IsTagged
  <2> HIDE DEF full, tag
  <2>10. /\ IsDesk(r) /\ r.tile = e.tile /\ r.tag = tag /\ r.over = e.over /\ r.full = full
         /\ r.maxi = e.maxi /\ r.pinned = e.pinned \ {w} /\ r.pseudo = e.pseudo
         /\ r.groups = e.groups /\ r.shown = e.shown /\ r.active = e.active
    BY <2>2 DEF IsDesk
  <2> HIDE DEF r
  <2>11. DOMAIN e.tile \cap DOMAIN e.tag = {} BY <1>1, DeskMaps
  <2>12. w \in DOMAIN e.tag => e.tag[w][1] = o BY <2>6, <2>11 DEF At, IsTiled
  <2>13. w \in DOMAIN e.tile => e.tile[w][1] = o BY <2>6 DEF At, IsTiled
  <2>14. w \in DOMAIN e.tile \cup DOMAIN e.tag BY <2>2 DEF Same, Homed
  <2>15. \A x \in DOMAIN e.tag : tag[x][1] = e.tag[x][1]
    BY <2>9, <2>12 DEF ActiveKey
  <2>16. PinsFloat(r) /\ PseudoAt(r) /\ MaxiAt(r) /\ OverAt(r)
    BY <1>1, <2>8, <2>9, <2>10, <2>15 DEF Agree, Moded, PinsFloat, PseudoAt, MaxiAt, OverAt
  <2>17. FullAt(r)
    <3> SUFFICES ASSUME NEW x \in DOMAIN r.full
                 PROVE  \/ x \in DOMAIN r.tile /\ r.tile[x][1] = r.full[x].output /\ ~r.full[x].wasPinned
                        \/ x \in DOMAIN r.tag /\ r.tag[x][1] = r.full[x].output
      BY DEF FullAt
    <3>1. CASE x = w BY <3>1, <2>4, <2>5, <2>7, <2>8, <2>9, <2>10, <2>11, <2>12, <2>13, <2>14, <2>15
    <3>2. CASE x # w
      <4>1. x \in DOMAIN e.full /\ r.full[x] = e.full[x] BY <3>2, <2>8, <2>10
      <4> QED BY <4>1, <1>1, <2>9, <2>10, <2>15 DEF Agree, Moded, FullAt
    <3> QED BY <3>1, <3>2
  <2>18. FullOnce(r)
    BY <1>1, <2>2, <2>7, <2>8, <2>10 DEF Agree, Moded, FullOnce
  <2>19. Untabbed(r)
    <3>1. e.groups = d.groups BY <2>2 DEF Same
    <3> QED BY <1>1, <2>8, <2>10, <3>1 DEF Agree, Moded, Untabbed, IsGrouped
  <2>20. InView(r)
    <3>1. w \in e.pinned => IsActive(e, tag[w]) BY <2>9 DEF IsActive, ActiveKey
    <3>2. \A k : IsActive(r, k) <=> IsActive(e, k) BY <2>10, IsActiveSame
    <3> QED BY <1>1, <2>5, <2>9, <2>10, <3>1, <3>2 DEF Agree, InView
  <2>21. Pins(r) = Pins(e)
    BY <2>2, <2>4, <2>7, <2>8, <2>10 DEF Pins
  <2>22. Agree(r) BY <2>16, <2>17, <2>18, <2>19, <2>20 DEF Agree, Moded
  <2>23. DOMAIN r.tile \cap DOMAIN r.tag = {} BY <2>9, <2>10, <2>11
  <2> QED BY <1>1, <2>3, <2>10, <2>21, <2>22, <2>23, RetileShows DEF e
<1> QED BY <1>3, <1>4

\* A floater that is shown belongs to the open workspace of an output, perhaps
\* without its pin.
Settling(e, d, w, o) ==
  /\ e.tile = d.tile /\ e.live = d.live /\ e.active = d.active /\ e.groups = d.groups
  /\ e.full = d.full /\ e.maxi = d.maxi /\ e.pseudo = d.pseudo /\ e.shown = d.shown \cup {w}
  /\ DOMAIN e.tag = DOMAIN d.tag /\ \A x \in DOMAIN d.tag \ {w} : e.tag[x] = d.tag[x]
  /\ e.tag[w] = ActiveKey(d, o)
  /\ w \in DOMAIN e.over /\ e.over[w] = o
  /\ \A x \in DOMAIN d.over \ {w} : x \in DOMAIN e.over /\ e.over[x] = d.over[x]
  /\ e.pinned \subseteq d.pinned /\ d.pinned \ {w} \subseteq e.pinned

LEMMA SettlingAgrees ==
  ASSUME NEW d, DOMAIN d.tile \cap DOMAIN d.tag = {}, NEW w \in DOMAIN d.tag, NEW o, NEW e,
         Settling(e, d, w, o),
         d.tag[w][1] = o \/ (w \notin DOMAIN d.full /\ w \notin DOMAIN d.maxi)
  PROVE  /\ Agree(d) => Agree(e)
         /\ LitTiles(d) => LitTiles(e)
<1> USE DEF Settling
<1>1. e.tag[w][1] = o BY DEF ActiveKey
<1>2. \A k : IsActive(e, k) <=> IsActive(d, k) BY IsActiveSame
<1>3. IsActive(e, e.tag[w]) BY <1>2 DEF IsActive, ActiveKey
<1>4. Moded(d) => PinsFloat(e) /\ PseudoAt(e) /\ MaxiAt(e)
  BY <1>1 DEF Moded, PinsFloat, PseudoAt, MaxiAt
<1>5. Moded(d) => FullAt(e)
  BY <1>1 DEF Moded, FullAt
<1>6. Moded(d) => FullOnce(e) /\ OverAt(e) /\ Untabbed(e)
  BY <1>1 DEF Moded, FullOnce, OverAt, Untabbed
<1>7. InView(d) => InView(e) BY <1>2, <1>3 DEF InView
<1>8. LitTiles(d) => LitTiles(e) BY <1>2 DEF LitTiles
<1> QED BY <1>4, <1>5, <1>6, <1>7, <1>8 DEF Agree, Moded

\* do_maximize_request on the output the window is on.
LEMMA MaximizeAgrees ==
  ASSUME NEW L, NEW d, Held(d, L), Settled(d), NEW w, ~IsGrouped(d, w),
         NEW o, w \in Homed(d) => o = At(d, w)[1]
  PROVE  Settled(Maximize(d, w, o)) /\ Pins(Maximize(d, w, o)) = Pins(d)
<1> DEFINE free == [d EXCEPT !.maxi = Drop(@, {w})]
           big == [d EXCEPT !.maxi = Put(@, w, o)]
<1>1. /\ IsDesk(d) /\ Agree(d) /\ LitTiles(d) /\ DOMAIN d.tile \cap DOMAIN d.tag = {}
      /\ d.maxi \in Maps(Output)
  BY HeldIsDesk, DeskMaps DEF Settled
<1>2. DOMAIN Drop(d.maxi, {w}) = DOMAIN d.maxi \ {w}
      /\ \A x \in DOMAIN d.maxi \ {w} : Drop(d.maxi, {w})[x] = d.maxi[x]
  <2>1. d.maxi \in Maps(Output) BY <1>1
  <2> QED BY ONLY <2>1, DropMaps
<1>3. \A x : /\ DOMAIN Put(d.maxi, w, x) = DOMAIN d.maxi \cup {w} /\ Put(d.maxi, w, x)[w] = x
             /\ \A y \in DOMAIN d.maxi \ {w} : Put(d.maxi, w, x)[y] = d.maxi[y]
  BY DEF Put
<1>4. \A m : LET e == [d EXCEPT !.maxi = m] IN
        /\ e.tile = d.tile /\ e.tag = d.tag /\ e.over = d.over /\ e.groups = d.groups
        /\ e.full = d.full /\ e.maxi = m /\ e.pinned = d.pinned /\ e.pseudo = d.pseudo
        /\ e.shown = d.shown /\ e.active = d.active /\ e.live = d.live /\ IsDesk(e)
  BY <1>1 DEF IsDesk
<1>5. \A m : LET e == [d EXCEPT !.maxi = m] IN
        MaxiAt(e) => Agree(e) /\ LitTiles(e) /\ Pins(e) = Pins(d)
  <2> SUFFICES ASSUME NEW m, NEW e, e = [d EXCEPT !.maxi = m], MaxiAt(e)
               PROVE  Agree(e) /\ LitTiles(e) /\ Pins(e) = Pins(d)
    OBVIOUS
  <2>1. /\ e.tile = d.tile /\ e.tag = d.tag /\ e.over = d.over /\ e.groups = d.groups
        /\ e.full = d.full /\ e.pinned = d.pinned /\ e.pseudo = d.pseudo
        /\ e.shown = d.shown /\ e.active = d.active /\ e.live = d.live
    BY <1>4
  <2>2. \A k : IsActive(e, k) <=> IsActive(d, k) BY <2>1, IsActiveSame
  <2>3. PinsFloat(e) /\ PseudoAt(e) /\ FullAt(e) /\ FullOnce(e) /\ OverAt(e) /\ Untabbed(e)
    BY <1>1, <2>1 DEF Agree, Moded, PinsFloat, PseudoAt, FullAt, FullOnce, OverAt, Untabbed
  <2>4. InView(e) /\ LitTiles(e) BY <1>1, <2>1, <2>2 DEF Agree, InView, LitTiles
  <2>5. Pins(e) = Pins(d) BY <2>1 DEF Pins
  <2> QED BY <2>3, <2>4, <2>5 DEF Agree, Moded
<1>6. Settled(free) /\ Pins(free) = Pins(d)
  <2>1. MaxiAt(free) BY <1>1, <1>2, <1>4 DEF Agree, Moded, MaxiAt
  <2> QED BY <1>5, <2>1 DEF Settled
<1>7. ~(IsTiled(d, w) \/ w \notin d.mapped) => w \in DOMAIN d.tag
  BY DEF Held, Once, Parked, ParkedIn, IsGrouped, IsTiled
<1>8. ASSUME w \in DOMAIN d.tag
      PROVE  Settled(Retile(big)) /\ Pins(Retile(big)) = Pins(d)
  <2>1. At(d, w) = d.tag[w] /\ o = d.tag[w][1] BY <1>1, <1>8 DEF At, IsTiled, Homed
  <2>2. MaxiAt(big)
    BY <1>1, <1>3, <1>4, <1>8, <2>1 DEF Agree, Moded, MaxiAt
  <2>3. Agree(big) /\ Pins(big) = Pins(d) BY <1>5, <2>2
  <2>4. IsDesk(big) /\ DOMAIN big.tile \cap DOMAIN big.tag = {} BY <1>1, <1>4
  <2> HIDE DEF big
  <2> QED BY <2>3, <2>4, RetileShows
<1>9. Settled(Retile(d)) /\ Pins(Retile(d)) = Pins(d) BY <1>1, RetileShows
<1> HIDE DEF free, big
<1>10. Maximize(d, w, o) = IF IsTiled(d, w) \/ w \notin d.mapped THEN free
                           ELSE IF IsMaxi(d, w) THEN Retile(d)
                           ELSE IF \/ IsFull(d, w) /\ d.full[w].hasRect
                                   \/ w \in d.shown
                                   \/ IsTagged(d, w)
                           THEN Retile(big) ELSE d
  BY DEF Maximize, free, big
<1> QED BY <1>6, <1>7, <1>8, <1>9, <1>10

LEMMA UnmaximizeAgrees ==
  ASSUME NEW L, NEW d, Held(d, L), Settled(d), NEW w
  PROVE  Settled(Unmaximize(d, w)) /\ Pins(Unmaximize(d, w)) = Pins(d)
<1> DEFINE e == [d EXCEPT !.maxi = Drop(@, {w})]
<1>1. /\ IsDesk(d) /\ Agree(d) /\ LitTiles(d) /\ DOMAIN d.tile \cap DOMAIN d.tag = {}
      /\ d.maxi \in Maps(Output)
  BY HeldIsDesk, DeskMaps DEF Settled
<1>2. DOMAIN Drop(d.maxi, {w}) = DOMAIN d.maxi \ {w}
      /\ \A x \in DOMAIN d.maxi \ {w} : Drop(d.maxi, {w})[x] = d.maxi[x]
  <2>1. d.maxi \in Maps(Output) BY <1>1
  <2> QED BY ONLY <2>1, DropMaps
<1>3. /\ e.tile = d.tile /\ e.tag = d.tag /\ e.over = d.over /\ e.groups = d.groups
      /\ e.full = d.full /\ e.maxi = Drop(d.maxi, {w}) /\ e.pinned = d.pinned /\ e.pseudo = d.pseudo
      /\ e.shown = d.shown /\ e.active = d.active /\ e.live = d.live /\ IsDesk(e)
  BY <1>1 DEF IsDesk
<1>4. Unmaximize(d, w) = IF IsFull(d, w) THEN e ELSE Retile(e) BY DEF Unmaximize
<1> HIDE DEF e
<1>5. \A k : IsActive(e, k) <=> IsActive(d, k) BY <1>3, IsActiveSame
<1>6. PinsFloat(e) /\ PseudoAt(e) /\ FullAt(e) /\ FullOnce(e) /\ OverAt(e) /\ Untabbed(e)
  BY <1>1, <1>3 DEF Agree, Moded, PinsFloat, PseudoAt, FullAt, FullOnce, OverAt, Untabbed
<1>7. MaxiAt(e) BY <1>1, <1>2, <1>3 DEF Agree, Moded, MaxiAt
<1>8. InView(e) /\ LitTiles(e) BY <1>1, <1>3, <1>5 DEF Agree, InView, LitTiles
<1>9. Pins(e) = Pins(d) BY <1>3 DEF Pins
<1>10. Settled(e) BY <1>6, <1>7, <1>8 DEF Settled, Agree, Moded
<1> QED BY <1>1, <1>3, <1>4, <1>9, <1>10, RetileShows DEF Settled

\* toggle_pseudo_tile of a window that is no tab.
LEMMA TogglePseudoAgrees ==
  ASSUME NEW L, NEW d, Held(d, L), Settled(d), NEW w, ~IsGrouped(d, w)
  PROVE  Settled(TogglePseudo(d, w)) /\ Pins(TogglePseudo(d, w)) = Pins(d)
<1> DEFINE pseudo == IF w \in d.pseudo THEN d.pseudo \ {w} ELSE d.pseudo \cup {w}
           e == [d EXCEPT !.pseudo = pseudo]
<1>1. /\ IsDesk(d) /\ Agree(d) /\ LitTiles(d) /\ DOMAIN d.tile \cap DOMAIN d.tag = {}
  BY HeldIsDesk, DeskMaps DEF Settled
<1>2. TogglePseudo(d, w) = IF ~IsTiled(d, w) THEN d ELSE Retile(e)
  BY <1>1 DEF TogglePseudo, IsDesk
<1>3. pseudo \subseteq d.pseudo \cup {w} OBVIOUS
<1> HIDE DEF pseudo
<1>4. /\ e.tile = d.tile /\ e.tag = d.tag /\ e.over = d.over /\ e.groups = d.groups
      /\ e.full = d.full /\ e.maxi = d.maxi /\ e.pinned = d.pinned /\ e.pseudo = pseudo
      /\ e.shown = d.shown /\ e.active = d.active /\ e.live = d.live /\ IsDesk(e)
  BY <1>1 DEF IsDesk
<1> HIDE DEF e
<1>5. \A k : IsActive(e, k) <=> IsActive(d, k) BY <1>4, IsActiveSame
<1>6. PinsFloat(e) /\ MaxiAt(e) /\ FullAt(e) /\ FullOnce(e) /\ OverAt(e)
  BY <1>1, <1>4 DEF Agree, Moded, PinsFloat, MaxiAt, FullAt, FullOnce, OverAt
<1>7. Untabbed(e) BY <1>1, <1>3, <1>4 DEF Agree, Moded, Untabbed, IsGrouped
<1>8. IsTiled(d, w) => PseudoAt(e) BY <1>1, <1>3, <1>4 DEF Agree, Moded, PseudoAt, IsTiled
<1>9. InView(e) BY <1>1, <1>4, <1>5 DEF Agree, InView
<1>10. Pins(e) = Pins(d) BY <1>4 DEF Pins
<1> QED BY <1>1, <1>2, <1>4, <1>6, <1>7, <1>8, <1>9, <1>10, RetileShows DEF Settled, Agree, Moded

\* sync_visible_floating_window leaves a floater where it is or gives it to the
\* open workspace of the output it lies on.
LEMMA SyncFloatingAgrees ==
  ASSUME NEW L, NEW d, Held(d, L), Settled(d), d.live = {} \/ d.live = L, NEW w
  PROVE  Settled(SyncFloating(d, w)) /\ Pins(SyncFloating(d, w)) = Pins(d)
<1>1. /\ IsDesk(d) /\ Agree(d) /\ LitTiles(d) /\ DOMAIN d.tile \cap DOMAIN d.tag = {}
  BY HeldIsDesk, DeskMaps DEF Settled
<1> DEFINE idle == IsFull(d, w) \/ IsMaxi(d, w) \/ ~IsTagged(d, w) \/ w \notin d.shown
           at == IF Rendered(d, w) # NoOutput THEN Rendered(d, w) ELSE Live(d, d.tag[w][1])
           o == IF at # NoOutput \/ d.live = {} THEN at ELSE CHOOSE x \in d.live : TRUE
           e == Tagged(d, w, ActiveKey(d, o))
<1>2. SyncFloating(d, w) = IF idle THEN d ELSE IF o = NoOutput THEN d ELSE e
  BY DEF SyncFloating
<1>3. CASE idle BY <1>2, <1>3
<1>4. CASE ~idle
  <2>1. w \in DOMAIN d.tag /\ w \in d.shown /\ w \in Homed(d) BY <1>4 DEF IsTagged, Homed
  <2>2. At(d, w) = d.tag[w] BY <1>1, <2>1 DEF At, IsTiled
  <2>3. /\ Rendered(d, w) = Live(d, d.tag[w][1])
        /\ d.tag[w][1] \in L /\ d.tag[w][1] # NoOutput
    BY <1>1, <2>1, <2>2, RenderedAt
  <2>4. o = NoOutput \/ o = d.tag[w][1] BY <2>3 DEF Live
  <2> HIDE DEF o
  <2>5. ASSUME o = d.tag[w][1] PROVE Settled(e) /\ Pins(e) = Pins(d)
    <3>1. w \in DOMAIN d.over /\ d.over[w] = o BY <1>1, <2>1, <2>5 DEF Agree, Moded, OverAt
    <3>2. /\ DOMAIN Put(d.tag, w, ActiveKey(d, o)) = DOMAIN d.tag
          /\ Put(d.tag, w, ActiveKey(d, o))[w] = ActiveKey(d, o)
          /\ \A x \in DOMAIN d.tag \ {w} : Put(d.tag, w, ActiveKey(d, o))[x] = d.tag[x]
      BY <2>1 DEF Put
    <3>3. /\ e.tile = d.tile /\ e.tag = Put(d.tag, w, ActiveKey(d, o)) /\ e.over = d.over
          /\ e.groups = d.groups
          /\ e.full = d.full /\ e.maxi = d.maxi /\ e.pinned = d.pinned /\ e.pseudo = d.pseudo
          /\ e.shown = d.shown /\ e.active = d.active /\ e.live = d.live
      BY <1>1 DEF IsDesk, Tagged
    <3> HIDE DEF e
    <3>4. Settling(e, d, w, o) BY <2>1, <3>1, <3>2, <3>3 DEF Settling
    <3>5. Pins(e) = Pins(d) BY <3>3 DEF Pins
    <3> QED BY <1>1, <2>1, <2>5, <3>4, <3>5, SettlingAgrees DEF Settled
  <2> QED BY <1>2, <1>4, <2>4, <2>5
<1> QED BY <1>3, <1>4

\* A floater that is dropped belongs to the output it is dropped on.
LEMMA DroppedAgrees ==
  ASSUME NEW L, NEW d, Held(d, L), Settled(d), NEW w \in d.shown, NEW o \in d.live,
         ~IsTiled(d, w), ~IsFull(d, w), ~IsMaxi(d, w)
  PROVE  LET e == SyncFloating(Nudge(d, w, o), w) IN Settled(e) /\ Pins(e) = Pins(d)
<1>1. /\ IsDesk(d) /\ Agree(d) /\ LitTiles(d) /\ DOMAIN d.tile \cap DOMAIN d.tag = {}
      /\ w \in DOMAIN d.tag /\ o \in Output /\ o # NoOutput
  BY HeldIsDesk, DeskMaps, ScratchAssumption DEF Settled, IsTiled
<1> DEFINE f == Nudge(d, w, o)
           e == Tagged(f, w, ActiveKey(f, o))
<1>2. /\ DOMAIN Put(d.over, w, o) = DOMAIN d.over \cup {w} /\ Put(d.over, w, o)[w] = o
      /\ \A x \in DOMAIN d.over \ {w} : Put(d.over, w, o)[x] = d.over[x]
  BY DEF Put
<1>3. /\ f.tile = d.tile /\ f.tag = d.tag /\ f.over = Put(d.over, w, o) /\ f.groups = d.groups
      /\ f.full = d.full /\ f.maxi = d.maxi /\ f.pinned = d.pinned /\ f.pseudo = d.pseudo
      /\ f.shown = d.shown /\ f.active = d.active /\ f.live = d.live /\ IsDesk(f)
  BY <1>1 DEF IsDesk, Nudge
<1> HIDE DEF f
<1>4. Rendered(f, w) = o
  BY <1>2, <1>3 DEF Rendered, Live, IsTiled, IsFull, IsMaxi
<1>5. SyncFloating(f, w) = e
  BY <1>1, <1>3, <1>4 DEF SyncFloating, IsFull, IsMaxi, IsTagged
<1>6. /\ e.tile = d.tile /\ e.tag = Put(d.tag, w, ActiveKey(f, o)) /\ e.over = Put(d.over, w, o)
      /\ e.groups = d.groups
      /\ e.full = d.full /\ e.maxi = d.maxi /\ e.pinned = d.pinned /\ e.pseudo = d.pseudo
      /\ e.shown = d.shown /\ e.active = d.active /\ e.live = d.live
  BY <1>3 DEF IsDesk, Tagged
<1>7. ActiveKey(f, o) = ActiveKey(d, o) BY <1>3 DEF ActiveKey
<1>8. /\ DOMAIN Put(d.tag, w, ActiveKey(d, o)) = DOMAIN d.tag
      /\ Put(d.tag, w, ActiveKey(d, o))[w] = ActiveKey(d, o)
      /\ \A x \in DOMAIN d.tag \ {w} : Put(d.tag, w, ActiveKey(d, o))[x] = d.tag[x]
  BY <1>1 DEF Put
<1> HIDE DEF e
<1>9. Settling(e, d, w, o) BY <1>2, <1>6, <1>7, <1>8 DEF Settling
<1>10. Pins(e) = Pins(d) BY <1>6 DEF Pins
<1> QED BY <1>1, <1>5, <1>9, <1>10, SettlingAgrees DEF Settled, IsFull, IsMaxi, f

\* The windows of the mode stay, and so do their outputs; but for w they keep
\* what they come back to.
SameCovers(e, d, w) ==
  /\ DOMAIN e.full = DOMAIN d.full
  /\ \A x \in DOMAIN d.full : e.full[x].output = d.full[x].output
  /\ \A x \in DOMAIN d.full \ {w} : e.full[x].wasPinned = d.full[x].wasPinned

LEMMA EntriesOf ==
  ASSUME NEW L, NEW d, Held(d, L), NEW w \in DOMAIN d.full
  PROVE  d.full[w] \in FullscreenEntry
<1>1. d.full \in Maps(FullscreenEntry) BY DeskMaps
<1> QED BY ONLY <1>1, w \in DOMAIN d.full, MapsType

LEMMA DropIs ==
  ASSUME NEW V, NEW f \in Maps(V), NEW S
  PROVE  DOMAIN Drop(f, S) = DOMAIN f \ S /\ \A x \in DOMAIN f \ S : Drop(f, S)[x] = f[x]
BY DropMaps

LEMMA PutIs ==
  ASSUME NEW f, NEW w, NEW v
  PROVE  /\ DOMAIN Put(f, w, v) = DOMAIN f \cup {w} /\ Put(f, w, v)[w] = v
         /\ \A x \in DOMAIN f \ {w} : Put(f, w, v)[x] = f[x]
BY DEF Put

\* A tile that is shown floats where it is.
Floated(e, d, w) ==
  /\ e.live = d.live /\ e.active = d.active /\ e.groups = d.groups /\ e.maxi = d.maxi
  /\ DOMAIN e.tile = DOMAIN d.tile \ {w} /\ \A x \in DOMAIN d.tile \ {w} : e.tile[x] = d.tile[x]
  /\ DOMAIN e.tag = DOMAIN d.tag \cup {w} /\ \A x \in DOMAIN d.tag \ {w} : e.tag[x] = d.tag[x]
  /\ e.tag[w] = d.tile[w]
  /\ w \in DOMAIN e.over /\ e.over[w] = d.tile[w][1]
  /\ \A x \in DOMAIN d.over \ {w} : x \in DOMAIN e.over /\ e.over[x] = d.over[x]
  /\ e.pinned = d.pinned /\ e.pseudo = d.pseudo \ {w} /\ e.shown = d.shown
  /\ SameCovers(e, d, w) /\ (w \in DOMAIN d.full => e.full[w].wasPinned = d.full[w].wasPinned)

LEMMA FloatedAgrees ==
  ASSUME NEW d, DOMAIN d.tile \cap DOMAIN d.tag = {}, Agree(d), NEW w \in DOMAIN d.tile, NEW e,
         Floated(e, d, w), IsActive(d, d.tile[w]) <=> w \in d.shown
  PROVE  Agree(e) /\ Pins(e) = Pins(d)
<1> USE DEF Floated, SameCovers
<1>1. \A k : IsActive(e, k) <=> IsActive(d, k) BY IsActiveSame
<1>2. PinsFloat(e) /\ PseudoAt(e) /\ MaxiAt(e)
  BY DEF Agree, Moded, PinsFloat, PseudoAt, MaxiAt
<1>3. FullAt(e) BY DEF Agree, Moded, FullAt
<1>4. FullOnce(e) /\ OverAt(e) /\ Untabbed(e) BY DEF Agree, Moded, FullOnce, OverAt, Untabbed
<1>5. w \notin d.pinned BY DEF Agree, Moded, PinsFloat
<1>6. InView(e) BY <1>1, <1>5 DEF Agree, InView
<1>7. Pins(e) = Pins(d) BY DEF Pins
<1> QED BY <1>2, <1>3, <1>4, <1>6, <1>7 DEF Agree, Moded

\* A floater becomes a tile of an open workspace of its output.
Sunken(e, d, w) ==
  /\ e.live = d.live /\ e.active = d.active /\ e.groups = d.groups
  /\ DOMAIN e.tile = DOMAIN d.tile \cup {w} /\ \A x \in DOMAIN d.tile \ {w} : e.tile[x] = d.tile[x]
  /\ DOMAIN e.tag = DOMAIN d.tag \ {w} /\ \A x \in DOMAIN d.tag \ {w} : e.tag[x] = d.tag[x]
  /\ e.tile[w] = ActiveKey(d, d.tag[w][1])
  /\ \A x \in DOMAIN d.over \ {w} : x \in DOMAIN e.over /\ e.over[x] = d.over[x]
  /\ DOMAIN e.maxi = DOMAIN d.maxi \ {w} /\ \A x \in DOMAIN d.maxi \ {w} : e.maxi[x] = d.maxi[x]
  /\ e.pinned = d.pinned \ {w} /\ e.pseudo = d.pseudo /\ e.shown = d.shown
  /\ SameCovers(e, d, w) /\ (w \in DOMAIN d.full => e.full[w].wasPinned = FALSE)

LEMMA SunkenAgrees ==
  ASSUME NEW d, DOMAIN d.tile \cap DOMAIN d.tag = {}, Agree(d), NEW w \in DOMAIN d.tag, NEW e,
         Sunken(e, d, w)
  PROVE  Agree(e) /\ Pins(e) = Pins(d) \ {w}
<1> USE DEF Sunken, SameCovers
<1>1. \A k : IsActive(e, k) <=> IsActive(d, k) BY IsActiveSame
<1>2. PinsFloat(e) /\ PseudoAt(e) /\ MaxiAt(e)
  BY DEF Agree, Moded, PinsFloat, PseudoAt, MaxiAt
<1>3. e.tile[w][1] = d.tag[w][1] /\ IsActive(d, e.tile[w]) BY DEF ActiveKey, IsActive
<1>4. FullAt(e) BY <1>3 DEF Agree, Moded, FullAt
<1>5. FullOnce(e) /\ OverAt(e) /\ Untabbed(e) BY DEF Agree, Moded, FullOnce, OverAt, Untabbed
<1>6. InView(e) BY <1>1, <1>3 DEF Agree, InView
<1>7. Pins(e) = Pins(d) \ {w} BY DEF Pins
<1> QED BY <1>2, <1>4, <1>5, <1>6, <1>7 DEF Agree, Moded

LEMMA UntileIs ==
  ASSUME NEW L, NEW d, Held(d, L), NEW w \in DOMAIN d.tile, NEW k, k = d.tile[w]
  PROVE  Floated(Untile(d, w, k), d, w) /\ IsDesk(Untile(d, w, k)) /\ Untile(d, w, k).full = d.full
<1> DEFINE e == Untile(d, w, k)
<1>1. IsDesk(d) /\ d.tile \in Maps(Keys(L)) BY HeldIsDesk, DeskMaps
<1>2. /\ e.tile = Drop(d.tile, {w}) /\ e.tag = Put(d.tag, w, k) /\ e.over = Put(d.over, w, k[1])
      /\ e.groups = d.groups
      /\ e.full = d.full /\ e.maxi = d.maxi /\ e.pinned = d.pinned /\ e.pseudo = d.pseudo \ {w}
      /\ e.shown = d.shown /\ e.active = d.active /\ e.live = d.live /\ IsDesk(e)
  BY <1>1 DEF IsDesk, Untile, Tagged
<1> HIDE DEF e
<1>3. DOMAIN e.tile = DOMAIN d.tile \ {w} /\ \A x \in DOMAIN d.tile \ {w} : e.tile[x] = d.tile[x]
  <2>1. d.tile \in Maps(Keys(L)) BY <1>1
  <2>2. DOMAIN Drop(d.tile, {w}) = DOMAIN d.tile \ {w}
        /\ \A x \in DOMAIN d.tile \ {w} : Drop(d.tile, {w})[x] = d.tile[x]
    BY ONLY <2>1, DropIs
  <2> QED BY <1>2, <2>2
<1>4. /\ DOMAIN e.tag = DOMAIN d.tag \cup {w} /\ \A x \in DOMAIN d.tag \ {w} : e.tag[x] = d.tag[x]
      /\ e.tag[w] = k
  BY <1>2 DEF Put
<1>5. /\ w \in DOMAIN e.over /\ e.over[w] = k[1]
      /\ \A x \in DOMAIN d.over \ {w} : x \in DOMAIN e.over /\ e.over[x] = d.over[x]
  BY <1>2 DEF Put
<1>6. SameCovers(e, d, w) BY <1>2 DEF SameCovers
<1>7. Floated(e, d, w) BY <1>2, <1>3, <1>4, <1>5, <1>6 DEF Floated
<1> QED BY <1>2, <1>7 DEF e

LEMMA RetiledIs ==
  ASSUME NEW L, NEW d, Held(d, L), NEW w \in DOMAIN d.tag
  PROVE  LET e == Retiled(d, w, ActiveKey(d, d.tag[w][1])) IN Sunken(e, d, w) /\ IsDesk(e)
<1> DEFINE k == ActiveKey(d, d.tag[w][1])
           full == IF IsFull(d, w) THEN [d.full EXCEPT ![w].wasPinned = FALSE] ELSE d.full
           e == Retiled(d, w, k)
<1>1. /\ IsDesk(d) /\ d.tag \in Maps(Keys(L)) /\ d.over \in Maps(Output) /\ d.maxi \in Maps(Output)
  BY HeldIsDesk, DeskMaps
<1>2. /\ DOMAIN full = DOMAIN d.full
      /\ \A x \in DOMAIN d.full : full[x].output = d.full[x].output
      /\ \A x \in DOMAIN d.full \ {w} : full[x] = d.full[x]
      /\ w \in DOMAIN d.full => full[w].wasPinned = FALSE
  <2>1. CASE ~IsFull(d, w) BY <2>1 DEF IsFull
  <2>2. CASE IsFull(d, w)
    <3>1. d.full[w] \in FullscreenEntry BY <2>2, EntriesOf DEF IsFull
    <3>2. full = [d.full EXCEPT ![w].wasPinned = FALSE] BY <2>2
    <3>3. w \in DOMAIN d.full BY <2>2 DEF IsFull
    <3> HIDE DEF full
    <3> QED BY <3>1, <3>2, <3>3 DEF FullscreenEntry
  <2> QED BY <2>1, <2>2
<1>0. /\ e.tile = Put(d.tile, w, k) /\ e.tag = Drop(d.tag, {w}) /\ e.over = Drop(d.over, {w})
      /\ e.groups = d.groups /\ e.maxi = Drop(d.maxi, {w})
      /\ e.full = full /\ e.pinned = d.pinned \ {w} /\ e.pseudo = d.pseudo
      /\ e.shown = d.shown /\ e.active = d.active /\ e.live = d.live /\ IsDesk(e)
  BY <1>1 DEF IsDesk, Retiled, Tiled
<1> HIDE DEF e, k, full
<1>3. DOMAIN e.tag = DOMAIN d.tag \ {w} /\ \A x \in DOMAIN d.tag \ {w} : e.tag[x] = d.tag[x]
  <2>1. d.tag \in Maps(Keys(L)) BY <1>1
  <2>2. DOMAIN Drop(d.tag, {w}) = DOMAIN d.tag \ {w}
        /\ \A x \in DOMAIN d.tag \ {w} : Drop(d.tag, {w})[x] = d.tag[x]
    BY ONLY <2>1, DropIs
  <2> QED BY <1>0, <2>2
<1>4. DOMAIN e.maxi = DOMAIN d.maxi \ {w} /\ \A x \in DOMAIN d.maxi \ {w} : e.maxi[x] = d.maxi[x]
  <2>1. d.maxi \in Maps(Output) BY <1>1
  <2>2. DOMAIN Drop(d.maxi, {w}) = DOMAIN d.maxi \ {w}
        /\ \A x \in DOMAIN d.maxi \ {w} : Drop(d.maxi, {w})[x] = d.maxi[x]
    BY ONLY <2>1, DropIs
  <2> QED BY <1>0, <2>2
<1>5. \A x \in DOMAIN d.over \ {w} : x \in DOMAIN e.over /\ e.over[x] = d.over[x]
  <2>1. d.over \in Maps(Output) BY <1>1
  <2>2. DOMAIN Drop(d.over, {w}) = DOMAIN d.over \ {w}
        /\ \A x \in DOMAIN d.over \ {w} : Drop(d.over, {w})[x] = d.over[x]
    BY ONLY <2>1, DropIs
  <2> QED BY <1>0, <2>2
<1>6. /\ DOMAIN e.tile = DOMAIN d.tile \cup {w} /\ \A x \in DOMAIN d.tile \ {w} : e.tile[x] = d.tile[x]
      /\ e.tile[w] = k
  BY <1>0 DEF Put
<1>7. SameCovers(e, d, w) /\ (w \in DOMAIN d.full => e.full[w].wasPinned = FALSE)
  BY <1>0, <1>2 DEF SameCovers
<1>8. Sunken(e, d, w) BY <1>0, <1>3, <1>4, <1>5, <1>6, <1>7 DEF Sunken, k
<1> QED BY <1>0, <1>8 DEF e, k

\* What toggle_floating does to a window that is shown.
Toggled(e, d, w) ==
  /\ Settled(e) /\ IsDesk(e) /\ SameCovers(e, d, w) /\ e.active = d.active /\ e.live = d.live
  /\ e.groups = d.groups
  /\ IF w \in DOMAIN d.tile THEN w \in DOMAIN e.tag /\ w \notin DOMAIN e.tile /\ Pins(e) = Pins(d)
     ELSE w \in DOMAIN e.tile /\ w \notin DOMAIN e.tag /\ Pins(e) = Pins(d) \ {w}
  /\ DOMAIN e.tile \cap DOMAIN e.tag = {} /\ d.shown \subseteq e.shown

LEMMA SameCoversTwice ==
  ASSUME NEW d, NEW w, NEW e, NEW f, SameCovers(e, d, w), f.full = e.full
  PROVE  SameCovers(f, d, w)
BY DEF SameCovers

LEMMA RetileShown ==
  ASSUME NEW d, IsDesk(d)
  PROVE  d.shown \subseteq Retile(d).shown
BY DEF Retile, IsDesk

LEMMA ToggleFloatingAgrees ==
  ASSUME NEW L, NEW d, Held(d, L), L = d.live, Settled(d), NEW w \in d.shown, NEW o
  PROVE  Toggled(ToggleFloating(d, w, o), d, w)
<1>1. /\ IsDesk(d) /\ Agree(d) /\ LitTiles(d) /\ DOMAIN d.tile \cap DOMAIN d.tag = {}
      /\ w \in Homed(d)
  BY HeldIsDesk, DeskMaps DEF Settled, Homed
<1>2. /\ Rendered(d, w) = Live(d, At(d, w)[1]) /\ At(d, w)[1] \in L /\ At(d, w)[1] # NoOutput
  BY <1>1, RenderedAt
<1>3. Rendered(d, w) = At(d, w)[1] BY <1>2 DEF Live
<1>4. CASE w \in DOMAIN d.tile
  <2> DEFINE k == ActiveKey(d, d.tile[w][1])
             e == Untile(d, w, k)
             f == IF IsFull(d, w) THEN [e EXCEPT !.full[w].hasRect = TRUE] ELSE e
  <2>1. ToggleFloating(d, w, o) = Retile(f) BY <1>4 DEF ToggleFloating, IsTiled
  <2>2. IsActive(d, d.tile[w]) BY <1>1, <1>4 DEF Agree, InView
  <2>3. k = d.tile[w]
    <3>1. d.tile[w] \in Output \X Workspace
      <4>1. d.tile \in Maps(Keys(L)) /\ L \subseteq Output BY DeskMaps
      <4>2. d.tile[w] \in Keys(L) BY ONLY <4>1, <1>4, MapsType
      <4> QED BY <4>1, <4>2 DEF Keys
    <3> QED BY <2>2, <3>1 DEF ActiveKey, IsActive
  <2>4. Floated(e, d, w) /\ IsDesk(e) /\ e.full = d.full BY <1>4, <2>3, UntileIs
  <2> HIDE DEF e, k
  <2>5. Floated(f, d, w) /\ IsDesk(f)
    <3>1. CASE ~IsFull(d, w) BY <2>4, <3>1
    <3>2. CASE IsFull(d, w)
      <4>1. w \in DOMAIN d.full BY <3>2 DEF IsFull
      <4>2. d.full[w] \in FullscreenEntry BY <4>1, EntriesOf
      <4>3. f = [e EXCEPT !.full = [d.full EXCEPT ![w].hasRect = TRUE]]
        BY <2>4, <3>2 DEF IsDesk
      <4> DEFINE full == [d.full EXCEPT ![w].hasRect = TRUE]
      <4>4. /\ DOMAIN full = DOMAIN d.full
            /\ \A x \in DOMAIN d.full : /\ full[x].output = d.full[x].output
                                        /\ full[x].wasPinned = d.full[x].wasPinned
        BY <4>1, <4>2 DEF FullscreenEntry
      <4> HIDE DEF full, f
      <4>5. /\ f.tile = e.tile /\ f.tag = e.tag /\ f.over = e.over /\ f.groups = e.groups
            /\ f.maxi = e.maxi /\ f.pinned = e.pinned /\ f.pseudo = e.pseudo
            /\ f.shown = e.shown /\ f.active = e.active /\ f.live = e.live /\ f.full = full /\ IsDesk(f)
        BY <2>4, <4>3 DEF IsDesk, full
      <4>6. SameCovers(f, d, w) /\ f.full[w].wasPinned = d.full[w].wasPinned
        BY <4>1, <4>4, <4>5 DEF SameCovers
      <4> QED BY <2>4, <4>5, <4>6 DEF Floated
    <3> QED BY <3>1, <3>2
  <2> HIDE DEF f
  <2>6. Agree(f) /\ Pins(f) = Pins(d) BY <1>1, <1>4, <2>2, <2>5, FloatedAgrees
  <2>7. DOMAIN f.tile \cap DOMAIN f.tag = {} BY <1>1, <2>5 DEF Floated
  <2>8. w \in DOMAIN f.tag /\ w \notin DOMAIN f.tile BY <2>5 DEF Floated
  <2>9. /\ Settled(Retile(f)) /\ SameModes(Retile(f), f) /\ IsDesk(Retile(f))
        /\ Retile(f).live = d.live /\ Retile(f).active = d.active /\ Pins(Retile(f)) = Pins(d)
        /\ f.shown \subseteq Retile(f).shown
    BY <2>5, <2>6, <2>7, RetileShows, RetileShown DEF Floated
  <2>10. SameCovers(Retile(f), d, w) BY <2>5, <2>9, SameCoversTwice DEF Floated, SameModes
  <2> QED BY <1>4, <2>1, <2>5, <2>7, <2>8, <2>9, <2>10 DEF Toggled, SameModes, Floated
<1>5. CASE w \notin DOMAIN d.tile
  <2>1. w \in DOMAIN d.tag /\ At(d, w) = d.tag[w] BY <1>1, <1>5 DEF Homed, At, IsTiled
  <2> DEFINE f == Retiled(d, w, ActiveKey(d, d.tag[w][1]))
  <2>2. ToggleFloating(d, w, o) = Retile(f)
    BY <1>2, <1>3, <1>5, <2>1 DEF ToggleFloating, IsTiled
  <2>3. Sunken(f, d, w) /\ IsDesk(f) BY <2>1, RetiledIs
  <2> HIDE DEF f
  <2>6. Agree(f) /\ Pins(f) = Pins(d) \ {w} BY <1>1, <2>1, <2>3, SunkenAgrees
  <2>7. DOMAIN f.tile \cap DOMAIN f.tag = {} BY <1>1, <2>3 DEF Sunken
  <2>8. w \in DOMAIN f.tile /\ w \notin DOMAIN f.tag BY <2>3 DEF Sunken
  <2>9. /\ Settled(Retile(f)) /\ SameModes(Retile(f), f) /\ IsDesk(Retile(f))
        /\ Retile(f).live = d.live /\ Retile(f).active = d.active /\ Pins(Retile(f)) = Pins(d) \ {w}
        /\ f.shown \subseteq Retile(f).shown
    BY <2>3, <2>6, <2>7, RetileShows, RetileShown DEF Sunken
  <2>10. SameCovers(Retile(f), d, w) BY <2>3, <2>9, SameCoversTwice DEF Sunken, SameModes
  <2> QED BY <1>5, <2>2, <2>3, <2>7, <2>8, <2>9, <2>10 DEF Toggled, SameModes, Sunken
<1> QED BY <1>4, <1>5

\* The pin a fullscreen window comes back to may be any of a floater.
LEMMA EntryAgrees ==
  ASSUME NEW e, IsDesk(e), Settled(e), NEW w \in DOMAIN e.full, NEW entry,
         entry.output = e.full[w].output, NEW wants \in BOOLEAN, entry.wasPinned = wants,
         wants => w \in DOMAIN e.tag, DOMAIN e.tile \cap DOMAIN e.tag = {}
  PROVE  /\ Settled([e EXCEPT !.full[w] = entry])
         /\ Pins([e EXCEPT !.full[w] = entry]) = (Pins(e) \ {w}) \cup {x \in {w} : wants}
<1> DEFINE full == [e.full EXCEPT ![w] = entry]
           r == [e EXCEPT !.full[w] = entry]
<1>1. /\ r.tile = e.tile /\ r.tag = e.tag /\ r.over = e.over /\ r.groups = e.groups
      /\ r.maxi = e.maxi /\ r.pinned = e.pinned /\ r.pseudo = e.pseudo
      /\ r.shown = e.shown /\ r.active = e.active /\ r.live = e.live /\ r.full = full
  BY DEF IsDesk
<1>2. /\ DOMAIN full = DOMAIN e.full /\ full[w] = entry
      /\ \A x \in DOMAIN e.full \ {w} : full[x] = e.full[x]
  OBVIOUS
<1> HIDE DEF r, full
<1>3. \A k : IsActive(r, k) <=> IsActive(e, k) BY <1>1, IsActiveSame
<1>4. Agree(e) /\ LitTiles(e) BY DEF Settled
<1>5. PinsFloat(r) /\ PseudoAt(r) /\ MaxiAt(r) /\ OverAt(r) /\ Untabbed(r)
  BY <1>1, <1>2, <1>4 DEF Agree, Moded, PinsFloat, PseudoAt, MaxiAt, OverAt, Untabbed
<1>6. FullAt(r)
  <2> SUFFICES ASSUME NEW x \in DOMAIN r.full
               PROVE  \/ x \in DOMAIN r.tile /\ r.tile[x][1] = r.full[x].output /\ ~r.full[x].wasPinned
                      \/ x \in DOMAIN r.tag /\ r.tag[x][1] = r.full[x].output
    BY DEF FullAt
  <2>1. /\ x \in DOMAIN e.full
        /\ \/ x \in DOMAIN e.tile /\ e.tile[x][1] = e.full[x].output /\ ~e.full[x].wasPinned
           \/ x \in DOMAIN e.tag /\ e.tag[x][1] = e.full[x].output
    BY <1>1, <1>2, <1>4 DEF Agree, Moded, FullAt
  <2>2. CASE x = w
    BY <1>1, <1>2, <2>1, <2>2
  <2>3. CASE x # w BY <1>1, <1>2, <2>1, <2>3
  <2> QED BY <2>2, <2>3
<1>7. FullOnce(r) BY <1>1, <1>2, <1>4 DEF Agree, Moded, FullOnce
<1>8. InView(r) /\ LitTiles(r) BY <1>1, <1>3, <1>4 DEF Agree, InView, LitTiles
<1>9. w \notin e.pinned BY <1>4 DEF Agree, Moded, PinsFloat
<1>10. Pins(r) = (Pins(e) \ {w}) \cup {x \in {w} : wants} BY <1>1, <1>2, <1>9 DEF Pins
<1> QED BY <1>5, <1>6, <1>7, <1>8, <1>10 DEF Settled, Agree, Moded, r

\* A window gains the pin it had not, or loses the one it had.
Flipped(e, d, w) ==
  Settled(e) /\ Pins(e) = IF w \in Pins(d) THEN Pins(d) \ {w} ELSE Pins(d) \cup {w}

LEMMA TogglePinFullscreenAgrees ==
  ASSUME NEW L, NEW d, Held(d, L), L = d.live, Settled(d), NEW w \in d.shown, IsFull(d, w),
         NEW o \in L
  PROVE  Flipped(TogglePinFullscreen(d, w, o), d, w)
<1> DEFINE wants == ~d.full[w].wasPinned
           floats == wants /\ IsTiled(d, w)
           undoes == ~wants /\ d.full[w].pinFloated
           e == IF floats \/ undoes THEN ToggleFloating(d, w, o) ELSE d
           entry == [e.full[w] EXCEPT !.wasPinned = wants, !.pinFloated = wants /\ (floats \/ @)]
<1>1. /\ IsDesk(d) /\ Agree(d) /\ DOMAIN d.tile \cap DOMAIN d.tag = {}
      /\ w \in DOMAIN d.tile \cup DOMAIN d.tag /\ w \in DOMAIN d.full
  BY HeldIsDesk, DeskMaps DEF Settled, IsFull
<1>2. TogglePinFullscreen(d, w, o) = [e EXCEPT !.full[w] = entry]
  BY DEF TogglePinFullscreen
<1>3. w \in Pins(d) <=> ~wants
  BY <1>1 DEF Agree, Moded, PinsFloat, Pins
<1>4. /\ Settled(e) /\ IsDesk(e) /\ Held(e, L) /\ w \in DOMAIN e.full
      /\ wants => w \in DOMAIN e.tag
      /\ Pins(e) = Pins(d) \/ Pins(e) = Pins(d) \ {w}
  <2>1. CASE floats \/ undoes
    <3> DEFINE t == ToggleFloating(d, w, o)
    <3>1. Toggled(t, d, w) BY ToggleFloatingAgrees
    <3>2. Held(t, L) /\ DOMAIN t.full = DOMAIN d.full BY ToggleFloatingTraded DEF Traded
    <3>3. e = t BY <2>1
    <3> HIDE DEF t, e
    <3>4. floats => w \in DOMAIN d.tile BY DEF IsTiled
    <3>5. wants => floats BY <2>1
    <3> HIDE DEF floats, undoes, wants
    <3> QED BY <1>1, <3>1, <3>2, <3>3, <3>4, <3>5 DEF Toggled
  <2>2. CASE ~(floats \/ undoes)
    <3>1. e = d BY <2>2
    <3> HIDE DEF e
    <3>2. wants => w \in DOMAIN d.tag BY <1>1, <2>2 DEF IsTiled
    <3> QED BY <1>1, <3>1, <3>2
  <2> QED BY <2>1, <2>2
<1> HIDE DEF e, floats
<1>5. e.full[w] \in FullscreenEntry BY <1>4, EntriesOf
<1>6. wants \in BOOLEAN
  <2>1. d.full[w] \in FullscreenEntry BY <1>1, EntriesOf
  <2> QED BY <2>1 DEF FullscreenEntry
<1>7. entry.output = e.full[w].output /\ entry.wasPinned = wants
  BY <1>5 DEF FullscreenEntry
<1> HIDE DEF entry, wants
<1>8. /\ Settled([e EXCEPT !.full[w] = entry])
      /\ Pins([e EXCEPT !.full[w] = entry]) = (Pins(e) \ {w}) \cup {x \in {w} : wants}
  <2>1. DOMAIN e.tile \cap DOMAIN e.tag = {} BY <1>4, DeskMaps
  <2> QED BY <2>1, <1>4, <1>6, <1>7, EntryAgrees
<1> DEFINE r == [e EXCEPT !.full[w] = entry]
<1> HIDE DEF r
<1>9. Settled(r) /\ Pins(r) = (Pins(e) \ {w}) \cup {x \in {w} : wants} BY <1>8 DEF r
<1> QED BY <1>2, <1>3, <1>4, <1>9 DEF Flipped, r

\* toggle_pin of a window that is shown.
LEMMA TogglePinAgrees ==
  ASSUME NEW L, NEW d, Held(d, L), L = d.live, Settled(d), NEW w \in d.shown, NEW o \in L
  PROVE  Flipped(TogglePin(d, w, o), d, w)
<1>1. /\ IsDesk(d) /\ Agree(d) /\ LitTiles(d) /\ DOMAIN d.tile \cap DOMAIN d.tag = {}
      /\ w \in Homed(d)
  BY HeldIsDesk, DeskMaps DEF Settled, Homed
<1>2. CASE IsFull(d, w) BY <1>2, TogglePinFullscreenAgrees DEF TogglePin
<1>3. CASE ~IsFull(d, w) /\ w \in d.pinned
  <2> DEFINE e == [d EXCEPT !.pinned = @ \ {w}]
             at == d.tag[w][1]
             k == ActiveKey(d, at)
             f == Tagged(e, w, k)
  <2>1. w \in DOMAIN d.tag /\ w \notin DOMAIN d.tile BY <1>1, <1>3 DEF Agree, Moded, PinsFloat
  <2>2. Rendered(d, w) = at /\ at # NoOutput
    BY <1>1, <2>1, RenderedAt DEF At, IsTiled, Live
  <2>3. TogglePin(d, w, o) = f BY <1>3, <2>1, <2>2 DEF TogglePin, IsTagged
  <2>4. /\ DOMAIN Put(d.tag, w, k) = DOMAIN d.tag /\ Put(d.tag, w, k)[w] = k
        /\ \A x \in DOMAIN d.tag \ {w} : Put(d.tag, w, k)[x] = d.tag[x]
    BY <2>1 DEF Put
  <2>5. /\ f.tile = d.tile /\ f.tag = Put(d.tag, w, k) /\ f.over = d.over /\ f.groups = d.groups
        /\ f.full = d.full /\ f.maxi = d.maxi /\ f.pinned = d.pinned \ {w} /\ f.pseudo = d.pseudo
        /\ f.shown = d.shown /\ f.active = d.active /\ f.live = d.live
    BY <1>1 DEF IsDesk, Tagged
  <2>6. w \in DOMAIN d.over /\ d.over[w] = at BY <1>1, <2>1 DEF Agree, Moded, OverAt
  <2> HIDE DEF f
  <2>7. Settling(f, d, w, at) BY <2>1, <2>4, <2>5, <2>6 DEF Settling
  <2>8. Pins(f) = Pins(d) \ {w} /\ w \in Pins(d) BY <1>3, <2>5 DEF Pins, IsFull
  <2>9. Settled(f) BY <1>1, <2>1, <2>7, SettlingAgrees DEF Settled
  <2> QED BY <2>3, <2>8, <2>9 DEF Flipped
<1>4. CASE ~IsFull(d, w) /\ w \notin d.pinned
  <2> DEFINE e == IF IsTiled(d, w) THEN ToggleFloating(d, w, o) ELSE d
             f == [e EXCEPT !.pinned = @ \cup {w}]
  <2>1. TogglePin(d, w, o) = f BY <1>4 DEF TogglePin
  <2>2. /\ Settled(e) /\ IsDesk(e) /\ w \in DOMAIN e.tag /\ Pins(e) = Pins(d)
        /\ w \notin DOMAIN e.full /\ w \in e.shown
    <3>1. CASE IsTiled(d, w)
      <4> DEFINE t == ToggleFloating(d, w, o)
      <4>1. Toggled(t, d, w) BY ToggleFloatingAgrees
      <4>2. e = t BY <3>1
      <4>3. w \in DOMAIN d.tile /\ w \notin DOMAIN d.full BY <1>4, <3>1 DEF IsTiled, IsFull
      <4> HIDE DEF t, e
      <4> QED BY <4>1, <4>2, <4>3 DEF Toggled, SameCovers
    <3>2. CASE ~IsTiled(d, w) BY <1>1, <1>4, <3>2 DEF IsTiled, IsFull, Homed
    <3> QED BY <3>1, <3>2
  <2> HIDE DEF e
  <2>3. /\ f.tile = e.tile /\ f.tag = e.tag /\ f.over = e.over /\ f.groups = e.groups
        /\ f.full = e.full /\ f.maxi = e.maxi /\ f.pinned = e.pinned \cup {w} /\ f.pseudo = e.pseudo
        /\ f.shown = e.shown /\ f.active = e.active /\ f.live = e.live
    BY <2>2 DEF IsDesk
  <2> HIDE DEF f
  <2>4. \A x : IsActive(f, x) <=> IsActive(e, x) BY <2>3, IsActiveSame
  <2>5. Agree(e) /\ LitTiles(e) BY <2>2 DEF Settled
  <2>6. /\ PinsFloat(f) /\ PseudoAt(f) /\ MaxiAt(f) /\ FullAt(f) /\ FullOnce(f) /\ OverAt(f)
        /\ Untabbed(f)
    BY <2>2, <2>3, <2>5
       DEF Agree, Moded, PinsFloat, PseudoAt, MaxiAt, FullAt, FullOnce, OverAt, Untabbed
  <2>7. InView(f) /\ LitTiles(f) BY <2>2, <2>3, <2>4, <2>5 DEF Agree, InView, LitTiles
  <2>8. Pins(f) = Pins(d) \cup {w} BY <2>2, <2>3 DEF Pins
  <2>9. w \notin Pins(d) BY <1>4 DEF Pins, IsFull
  <2> QED BY <2>1, <2>6, <2>7, <2>8, <2>9 DEF Flipped, Settled, Agree, Moded
<1> QED BY <1>2, <1>3, <1>4

\* apply_workspace_switch: the view of one output changes.
LEMMA SwitchAgrees ==
  ASSUME NEW L, NEW d, Held(d, L), Settled(d), NEW o \in Output, NEW n
  PROVE  Settled(Switch(d, o, n)) /\ Pins(Switch(d, o, n)) = Pins(d)
<1> DEFINE k == ActiveKey(d, o)
           gone == TilesOf(d, k) \cup FloatersOf(d, k)
           come == FloatersOf(d, <<o, n>>)
           e == [Hidden(d, gone) EXCEPT !.active[o] = n, !.shown = @ \cup come]
<1>1. /\ IsDesk(d) /\ Agree(d) /\ DOMAIN d.tile \cap DOMAIN d.tag = {}
      /\ d.active \in [Output -> Workspace]
  BY HeldIsDesk, DeskMaps DEF Settled
<1>2. Switch(d, o, n) = IF n = d.active[o] THEN d ELSE Retile(e) BY DEF Switch
<1> HIDE DEF gone, come
<1>3. /\ e.tile = d.tile /\ e.tag = d.tag /\ e.over = d.over /\ e.groups = d.groups
      /\ e.full = d.full /\ e.maxi = d.maxi /\ e.pinned = d.pinned /\ e.pseudo = d.pseudo
      /\ e.shown = (d.shown \ gone) \cup come
      /\ e.active = [d.active EXCEPT ![o] = n] /\ IsDesk(e)
  BY <1>1 DEF IsDesk, Hidden
<1> HIDE DEF e
<1>4. /\ \A x \in Output \ {o} : e.active[x] = d.active[x] /\ e.active[o] = n BY <1>1, <1>3
<1>5. SameModes(e, d) BY <1>3 DEF SameModes
<1>6. Moded(e) /\ Pins(e) = Pins(d) BY <1>1, <1>5, SameModesModed DEF Agree
<1>7. e.active[o] = n BY <1>1, <1>3
<1>8. ASSUME NEW w \in DOMAIN d.tile, w \in e.shown
      PROVE  IsActive(e, d.tile[w])
  <2>1. w \in d.shown \ gone BY <1>1, <1>3, <1>8 DEF come, FloatersOf
  <2>2. IsActive(d, d.tile[w]) BY <1>1, <2>1 DEF Agree, InView
  <2>3. d.tile[w] \in Output \X Workspace
    <3>1. d.tile \in Maps(Keys(L)) /\ L \subseteq Output BY DeskMaps
    <3>2. d.tile[w] \in Keys(L) BY ONLY <3>1, w \in DOMAIN d.tile, MapsType
    <3> QED BY <3>1, <3>2 DEF Keys
  <2>4. d.tile[w] # k BY <2>1 DEF gone, TilesOf
  <2>5. d.tile[w][1] # o BY <2>2, <2>3, <2>4 DEF IsActive, ActiveKey
  <2> QED BY <1>4, <2>2, <2>3, <2>5 DEF IsActive
<1>9. ASSUME NEW w \in DOMAIN d.tag
      PROVE  w \in e.shown <=> IsActive(e, d.tag[w]) \/ w \in d.pinned
  <2>1. w \in d.shown <=> IsActive(d, d.tag[w]) \/ w \in d.pinned BY <1>1 DEF Agree, InView
  <2>2. d.tag[w] \in Output \X Workspace
    <3>1. d.tag \in Maps(Keys(L)) /\ L \subseteq Output BY DeskMaps
    <3>2. d.tag[w] \in Keys(L) BY ONLY <3>1, w \in DOMAIN d.tag, MapsType
    <3> QED BY <3>1, <3>2 DEF Keys
  <2>3. w \in gone <=> w \notin d.pinned /\ d.tag[w] = k
    BY <1>1 DEF gone, TilesOf, FloatersOf
  <2>4. w \in come <=> w \notin d.pinned /\ d.tag[w] = <<o, n>> BY DEF come, FloatersOf
  <2>5. CASE w \in d.pinned BY <1>3, <2>1, <2>3, <2>5
  <2>6. CASE w \notin d.pinned /\ d.tag[w][1] = o
    <3>1. IsActive(e, d.tag[w]) <=> d.tag[w] = <<o, n>> BY <1>7, <2>2, <2>6 DEF IsActive
    <3>2. IsActive(d, d.tag[w]) <=> d.tag[w] = k BY <2>2, <2>6 DEF IsActive, ActiveKey
    <3> QED BY <1>3, <2>1, <2>3, <2>4, <2>6, <3>1, <3>2
  <2>7. CASE w \notin d.pinned /\ d.tag[w][1] # o
    <3>1. IsActive(e, d.tag[w]) <=> IsActive(d, d.tag[w]) BY <1>4, <2>2, <2>7 DEF IsActive
    <3>2. d.tag[w] # k /\ d.tag[w] # <<o, n>> BY <2>7 DEF ActiveKey
    <3> QED BY <1>3, <2>1, <2>3, <2>4, <2>7, <3>1, <3>2
  <2> QED BY <2>5, <2>6, <2>7
<1>10. InView(e) BY <1>3, <1>8, <1>9 DEF InView
<1> QED BY <1>1, <1>2, <1>3, <1>6, <1>10, RetileShows DEF Agree

\* A window moves between two workspaces of its output.
Shifted(e, d, w, n) ==
  /\ e.live = d.live /\ e.active = d.active /\ e.groups = d.groups /\ e.over = d.over
  /\ e.full = d.full /\ e.maxi = d.maxi /\ e.pinned = d.pinned /\ e.pseudo = d.pseudo
  /\ DOMAIN e.tile = DOMAIN d.tile /\ DOMAIN e.tag = DOMAIN d.tag
  /\ \A x \in DOMAIN d.tile : e.tile[x] = IF x = w THEN <<d.tile[w][1], n>> ELSE d.tile[x]
  /\ \A x \in DOMAIN d.tag : e.tag[x] = IF x = w THEN <<d.tag[w][1], n>> ELSE d.tag[x]

LEMMA ShiftedAgrees ==
  ASSUME NEW d, NEW e, NEW w, NEW n, Shifted(e, d, w, n), Agree(d),
         \A x : x # w => (x \in e.shown <=> x \in d.shown),
         w \in DOMAIN d.tile => w \notin e.shown,
         w \in DOMAIN d.tag => (w \in e.shown <=> IsActive(d, <<d.tag[w][1], n>>) \/ w \in d.pinned)
  PROVE  Agree(e) /\ Pins(e) = Pins(d)
<1> USE DEF Shifted
<1>1. PinsFloat(e) /\ PseudoAt(e) /\ MaxiAt(e) BY DEF Agree, Moded, PinsFloat, PseudoAt, MaxiAt
<1>2. FullAt(e)
  <2>1. \A x \in DOMAIN d.tile : e.tile[x][1] = d.tile[x][1] OBVIOUS
  <2>2. \A x \in DOMAIN d.tag : e.tag[x][1] = d.tag[x][1] OBVIOUS
  <2> QED BY <2>1, <2>2 DEF Agree, Moded, FullAt
<1>3. FullOnce(e) /\ OverAt(e) /\ Untabbed(e) BY DEF Agree, Moded, FullOnce, OverAt, Untabbed
<1>4. \A k : IsActive(e, k) <=> IsActive(d, k) BY IsActiveSame
<1>5. InView(e) BY <1>4 DEF Agree, InView
<1>6. Pins(e) = Pins(d) BY DEF Pins
<1> QED BY <1>1, <1>2, <1>3, <1>5, <1>6 DEF Agree, Moded

\* move_to_workspace
LEMMA MoveToWorkspaceAgrees ==
  ASSUME NEW L, NEW d, Held(d, L), Settled(d), NEW w, NEW n
  PROVE  Settled(MoveToWorkspace(d, w, n)) /\ Pins(MoveToWorkspace(d, w, n)) = Pins(d)
<1>1. /\ IsDesk(d) /\ Agree(d) /\ LitTiles(d) /\ DOMAIN d.tile \cap DOMAIN d.tag = {}
  BY HeldIsDesk, DeskMaps DEF Settled
<1>2. ASSUME IsTiled(d, w), n # d.tile[w][2]
      PROVE  Settled(MoveToWorkspace(d, w, n)) /\ Pins(MoveToWorkspace(d, w, n)) = Pins(d)
  <2> DEFINE k == d.tile[w]
             e == Tiled(d, w, <<k[1], n>>)
             f == IF IsActive(d, k) THEN Hidden(e, {w}) ELSE e
  <2>1. MoveToWorkspace(d, w, n) = Retile(f) BY <1>2 DEF MoveToWorkspace
  <2>2. w \in DOMAIN d.tile /\ w \notin DOMAIN d.tag BY <1>1, <1>2 DEF IsTiled
  <2>3. /\ f.tile = Put(d.tile, w, <<k[1], n>>) /\ f.tag = d.tag /\ f.over = d.over
        /\ f.groups = d.groups /\ f.full = d.full /\ f.maxi = d.maxi /\ f.pinned = d.pinned
        /\ f.pseudo = d.pseudo /\ f.active = d.active /\ f.live = d.live /\ IsDesk(f)
        /\ f.shown = IF IsActive(d, k) THEN d.shown \ {w} ELSE d.shown
    BY <1>1 DEF IsDesk, Tiled, Hidden
  <2> HIDE DEF e, f
  <2>4. Shifted(f, d, w, n) BY <2>2, <2>3 DEF Shifted, Put
  <2>5. w \in d.shown => IsActive(d, k) BY <1>1, <2>2 DEF Agree, InView
  <2>6. Agree(f) /\ Pins(f) = Pins(d) BY <1>1, <2>2, <2>3, <2>4, <2>5, ShiftedAgrees
  <2>7. DOMAIN f.tile \cap DOMAIN f.tag = {} BY <1>1, <2>4 DEF Shifted
  <2> QED BY <2>1, <2>3, <2>6, <2>7, RetileShows
<1>3. ASSUME ~IsTiled(d, w), IsTagged(d, w), d.tag[w][2] # n
      PROVE  Settled(MoveToWorkspace(d, w, n)) /\ Pins(MoveToWorkspace(d, w, n)) = Pins(d)
  <2> DEFINE k == d.tag[w]
             e == Tagged(d, w, <<k[1], n>>)
             f == IF w \in d.pinned THEN e
                  ELSE IF IsActive(d, k) THEN Hidden(e, {w})
                  ELSE IF n # d.active[k[1]] THEN e
                  ELSE Shown(e, {w})
  <2>1. MoveToWorkspace(d, w, n) = f \/ MoveToWorkspace(d, w, n) = Retile(f)
    BY <1>3 DEF MoveToWorkspace
  <2>2. w \in DOMAIN d.tag /\ w \notin DOMAIN d.tile BY <1>3 DEF IsTiled, IsTagged
  <2>3. /\ f.tag = Put(d.tag, w, <<k[1], n>>) /\ f.tile = d.tile /\ f.over = d.over
        /\ f.groups = d.groups /\ f.full = d.full /\ f.maxi = d.maxi /\ f.pinned = d.pinned
        /\ f.pseudo = d.pseudo /\ f.active = d.active /\ f.live = d.live /\ IsDesk(f)
        /\ f.shown = IF w \in d.pinned THEN d.shown
                     ELSE IF IsActive(d, k) THEN d.shown \ {w}
                     ELSE IF n # d.active[k[1]] THEN d.shown
                     ELSE d.shown \cup {w}
    BY <1>1 DEF IsDesk, Tagged, Hidden, Shown
  <2> HIDE DEF e, f
  <2>4. Shifted(f, d, w, n) BY <2>2, <2>3 DEF Shifted, Put
  <2>5. w \in d.shown <=> IsActive(d, k) \/ w \in d.pinned BY <1>1, <2>2 DEF Agree, InView
  <2>6. w \in f.shown <=> IsActive(d, <<k[1], n>>) \/ w \in d.pinned
    BY <1>3, <2>3, <2>5 DEF IsActive
  <2>7. Agree(f) /\ Pins(f) = Pins(d) BY <2>2, <2>3, <2>4, <2>6, <1>1, ShiftedAgrees
  <2>8. LitTiles(f)
    <3>1. \A x : IsActive(f, x) <=> IsActive(d, x) BY <2>3, IsActiveSame
    <3> QED BY <1>1, <2>2, <2>3, <3>1 DEF LitTiles
  <2>9. DOMAIN f.tile \cap DOMAIN f.tag = {} BY <1>1, <2>4 DEF Shifted
  <2> QED BY <2>1, <2>3, <2>7, <2>8, <2>9, RetileShows DEF Settled
<1>4. ASSUME \/ IsTiled(d, w) /\ n = d.tile[w][2]
             \/ ~IsTiled(d, w) /\ (~IsTagged(d, w) \/ d.tag[w][2] = n)
      PROVE  MoveToWorkspace(d, w, n) = d
  BY <1>4 DEF MoveToWorkspace
<1> QED BY <1>2, <1>3, <1>4

-----------------------------------------------------------------------------
(* Windows that move between outputs take their modes along *)

\* What a window has of an output, it keeps.
Stays(e, d, w) ==
  /\ w \in DOMAIN d.tile => e.tile[w][1] = d.tile[w][1]
  /\ w \in DOMAIN d.tag => e.tag[w][1] = d.tag[w][1] /\ e.over[w] = d.over[w]
  /\ w \in DOMAIN d.full => e.full[w].output = d.full[w].output
  /\ w \in DOMAIN d.maxi => e.maxi[w] = d.maxi[w]

\* All it has of an output is of the output o now.
Goes(e, d, w, o) ==
  /\ w \in DOMAIN d.tile => e.tile[w][1] = o
  /\ w \in DOMAIN d.tag => e.tag[w][1] = o /\ e.over[w] = o
  /\ w \in DOMAIN d.full => e.full[w].output = o
  /\ w \in DOMAIN d.maxi => e.maxi[w] = o

Travels(e, d) == \A w : Stays(e, d, w) \/ \E o : Goes(e, d, w, o)

\* The modes themselves are as they were.
Carried(e, d) ==
  /\ DOMAIN e.tile = DOMAIN d.tile /\ DOMAIN e.tag = DOMAIN d.tag /\ DOMAIN e.over = DOMAIN d.over
  /\ DOMAIN e.full = DOMAIN d.full /\ DOMAIN e.maxi = DOMAIN d.maxi
  /\ e.pinned = d.pinned /\ e.pseudo = d.pseudo /\ Retabbed(e.groups, d.groups)
  /\ \A w \in DOMAIN d.full : e.full[w].wasPinned = d.full[w].wasPinned

\* The groups with other homes have the same tabs.
LEMMA RetabbedUntabbed ==
  ASSUME NEW d, NEW e, Retabbed(e.groups, d.groups), Untabbed(d),
         DOMAIN e.full = DOMAIN d.full, e.pseudo = d.pseudo
  PROVE  Untabbed(e)
<1>1. \A g \in e.groups : \E h \in d.groups : g.members = h.members BY DEF Retabbed
<1> QED BY <1>1 DEF Untabbed, Members

LEMMA CarriedModed ==
  ASSUME NEW d, NEW e, Carried(e, d), Travels(e, d), FullOnce(e), Moded(d)
  PROVE  Moded(e) /\ Pins(e) = Pins(d)
<1>1. PinsFloat(e) /\ PseudoAt(e) BY DEF Carried, Moded, PinsFloat, PseudoAt
<1>2. MaxiAt(e)
  <2> SUFFICES ASSUME NEW w \in DOMAIN e.maxi PROVE w \in DOMAIN e.tag /\ e.tag[w][1] = e.maxi[w]
    BY DEF MaxiAt
  <2>1. w \in DOMAIN d.maxi /\ w \in DOMAIN d.tag /\ d.tag[w][1] = d.maxi[w] /\ w \in DOMAIN e.tag
    BY DEF Carried, Moded, MaxiAt
  <2>2. Stays(e, d, w) \/ \E o : Goes(e, d, w, o) BY DEF Travels
  <2> QED BY <2>1, <2>2 DEF Stays, Goes
<1>3. OverAt(e)
  <2> SUFFICES ASSUME NEW w \in DOMAIN e.tag PROVE w \in DOMAIN e.over /\ e.over[w] = e.tag[w][1]
    BY DEF OverAt
  <2>1. w \in DOMAIN d.tag /\ w \in DOMAIN d.over /\ d.over[w] = d.tag[w][1] /\ w \in DOMAIN e.over
    BY DEF Carried, Moded, OverAt
  <2>2. Stays(e, d, w) \/ \E o : Goes(e, d, w, o) BY DEF Travels
  <2> QED BY <2>1, <2>2 DEF Stays, Goes
<1>4. FullAt(e)
  <2> SUFFICES ASSUME NEW w \in DOMAIN e.full
               PROVE  \/ w \in DOMAIN e.tile /\ e.tile[w][1] = e.full[w].output /\ ~e.full[w].wasPinned
                      \/ w \in DOMAIN e.tag /\ e.tag[w][1] = e.full[w].output
    BY DEF FullAt
  <2>1. w \in DOMAIN d.full /\ e.full[w].wasPinned = d.full[w].wasPinned BY DEF Carried
  <2>2. Stays(e, d, w) \/ \E o : Goes(e, d, w, o) BY DEF Travels
  <2>3. CASE w \in DOMAIN d.tile /\ d.tile[w][1] = d.full[w].output /\ ~d.full[w].wasPinned
    <3>1. e.tile[w][1] = e.full[w].output BY <2>1, <2>2, <2>3 DEF Stays, Goes
    <3> QED BY <2>1, <2>3, <3>1 DEF Carried
  <2>4. CASE w \in DOMAIN d.tag /\ d.tag[w][1] = d.full[w].output
    <3>1. e.tag[w][1] = e.full[w].output BY <2>1, <2>2, <2>4 DEF Stays, Goes
    <3> QED BY <2>4, <3>1 DEF Carried
  <2> QED BY <2>1, <2>3, <2>4 DEF Moded, FullAt
<1>5. Untabbed(e) BY RetabbedUntabbed DEF Carried, Moded
<1>6. Pins(e) = Pins(d) BY DEF Carried, Pins
<1> QED BY <1>1, <1>2, <1>3, <1>4, <1>5, <1>6 DEF Moded

\* Where the modes of the windows of a desk are when they move.
LEMMA FullToIs ==
  ASSUME NEW d, IsDesk(d), d.full \in Maps(FullscreenEntry), NEW S, NEW o
  PROVE  LET e == FullTo(d, S, o) IN
         /\ IsDesk(e) /\ e.tile = d.tile /\ e.tag = d.tag /\ e.over = d.over /\ e.groups = d.groups
         /\ e.maxi = d.maxi /\ e.pinned = d.pinned /\ e.pseudo = d.pseudo /\ e.pin = d.pin
         /\ e.shown = d.shown /\ e.active = d.active /\ e.live = d.live /\ e.mapped = d.mapped
         /\ DOMAIN e.full = DOMAIN d.full
         /\ \A w \in DOMAIN d.full :
              /\ e.full[w].output = IF w \in S THEN o ELSE d.full[w].output
              /\ e.full[w].wasPinned = d.full[w].wasPinned
<1> DEFINE full == [w \in DOMAIN d.full |->
                      IF w \in S THEN [d.full[w] EXCEPT !.output = o] ELSE d.full[w]]
           e == FullTo(d, S, o)
<1>1. /\ IsDesk(e) /\ e.tile = d.tile /\ e.tag = d.tag /\ e.over = d.over /\ e.groups = d.groups
      /\ e.maxi = d.maxi /\ e.pinned = d.pinned /\ e.pseudo = d.pseudo /\ e.pin = d.pin
      /\ e.shown = d.shown /\ e.active = d.active /\ e.live = d.live /\ e.mapped = d.mapped
      /\ e.full = full
  BY DEF IsDesk, FullTo
<1>2. \A w \in DOMAIN d.full : d.full[w] \in FullscreenEntry BY MapsType
<1>3. \A w \in DOMAIN d.full : /\ full[w].output = IF w \in S THEN o ELSE d.full[w].output
                               /\ full[w].wasPinned = d.full[w].wasPinned
  BY <1>2 DEF FullscreenEntry
<1> HIDE DEF e
<1> QED BY <1>1, <1>3 DEF e

LEMMA MaxiToIs ==
  ASSUME NEW d, IsDesk(d), NEW S, NEW o
  PROVE  LET e == MaxiTo(d, S, o) IN
         /\ IsDesk(e) /\ e.tile = d.tile /\ e.tag = d.tag /\ e.over = d.over /\ e.groups = d.groups
         /\ e.full = d.full /\ e.pinned = d.pinned /\ e.pseudo = d.pseudo /\ e.pin = d.pin
         /\ e.shown = d.shown /\ e.active = d.active /\ e.live = d.live /\ e.mapped = d.mapped
         /\ e.maxi = [w \in DOMAIN d.maxi |-> IF w \in S THEN o ELSE d.maxi[w]]
BY DEF IsDesk, MaxiTo

\* The windows S have their modes on output o.
ModesAt(e, d, S, o) ==
  /\ e.tile = d.tile /\ e.tag = d.tag /\ e.over = d.over /\ e.groups = d.groups
  /\ e.pinned = d.pinned /\ e.pseudo = d.pseudo
  /\ e.shown = d.shown /\ e.active = d.active /\ e.live = d.live /\ e.mapped = d.mapped
  /\ DOMAIN e.full = DOMAIN d.full /\ DOMAIN e.maxi = DOMAIN d.maxi
  /\ \A w \in DOMAIN d.full : /\ e.full[w].output = IF w \in S THEN o ELSE d.full[w].output
                              /\ e.full[w].wasPinned = d.full[w].wasPinned
  /\ \A w \in DOMAIN d.maxi : e.maxi[w] = IF w \in S THEN o ELSE d.maxi[w]

LEMMA ModesIs ==
  ASSUME NEW d, IsDesk(d), d.full \in Maps(FullscreenEntry), NEW S, NEW o
  PROVE  IsDesk(Modes(d, S, o)) /\ ModesAt(Modes(d, S, o), d, S, o)
<1> DEFINE f == FullTo(d, S, o)
           e == MaxiTo(f, S, o)
<1>1. /\ IsDesk(f) /\ f.tile = d.tile /\ f.tag = d.tag /\ f.over = d.over /\ f.groups = d.groups
      /\ f.maxi = d.maxi /\ f.pinned = d.pinned /\ f.pseudo = d.pseudo
      /\ f.shown = d.shown /\ f.active = d.active /\ f.live = d.live /\ f.mapped = d.mapped
      /\ DOMAIN f.full = DOMAIN d.full
      /\ \A w \in DOMAIN d.full : /\ f.full[w].output = IF w \in S THEN o ELSE d.full[w].output
                                  /\ f.full[w].wasPinned = d.full[w].wasPinned
  BY FullToIs
<1> HIDE DEF f
<1>2. /\ IsDesk(e) /\ e.tile = f.tile /\ e.tag = f.tag /\ e.over = f.over /\ e.groups = f.groups
      /\ e.full = f.full /\ e.pinned = f.pinned /\ e.pseudo = f.pseudo
      /\ e.shown = f.shown /\ e.active = f.active /\ e.live = f.live /\ e.mapped = f.mapped
      /\ e.maxi = [w \in DOMAIN f.maxi |-> IF w \in S THEN o ELSE f.maxi[w]]
  BY <1>1, MaxiToIs
<1>3. Modes(d, S, o) = e BY DEF Modes, f
<1> HIDE DEF e
<1>4. ModesAt(e, d, S, o) BY <1>1, <1>2 DEF ModesAt
<1> QED BY <1>2, <1>3, <1>4

LEMMA TransferTiledIs ==
  ASSUME NEW d, IsDesk(d), NEW w, NEW to
  PROVE  LET e == TransferTiled(d, w, to) IN
         /\ IsDesk(e) /\ e.tag = d.tag /\ e.over = d.over /\ e.full = d.full /\ e.maxi = d.maxi
         /\ e.pinned = d.pinned /\ e.pseudo = d.pseudo
         /\ e.shown = d.shown /\ e.active = d.active /\ e.live = d.live
         /\ e.tile = Put(d.tile, w, ActiveKey(d, to))
BY DEF IsDesk, TransferTiled, Repinned, Tiled

\* A window goes to the open workspace of another output.
Arrived(e, d, w, to) ==
  /\ e.live = d.live /\ e.active = d.active /\ e.pinned = d.pinned /\ e.pseudo = d.pseudo
  /\ Retabbed(e.groups, d.groups)
  /\ DOMAIN e.tile = DOMAIN d.tile /\ DOMAIN e.tag = DOMAIN d.tag /\ DOMAIN e.over = DOMAIN d.over
  /\ DOMAIN e.full = DOMAIN d.full /\ DOMAIN e.maxi = DOMAIN d.maxi
  /\ \A x \in DOMAIN d.tile : e.tile[x] = IF x = w THEN ActiveKey(d, to) ELSE d.tile[x]
  /\ \A x \in DOMAIN d.tag : /\ e.tag[x] = IF x = w THEN ActiveKey(d, to) ELSE d.tag[x]
                             /\ e.over[x] = IF x = w THEN to ELSE d.over[x]
  /\ \A x \in DOMAIN d.full : /\ e.full[x].output = IF x = w THEN to ELSE d.full[x].output
                              /\ e.full[x].wasPinned = d.full[x].wasPinned
  /\ \A x \in DOMAIN d.maxi : e.maxi[x] = IF x = w THEN to ELSE d.maxi[x]
  /\ \A x : x # w => (x \in e.shown <=> x \in d.shown)
  /\ w \in DOMAIN d.tag => w \in e.shown

LEMMA ArrivedAgrees ==
  ASSUME NEW d, NEW e, NEW w, NEW to, Arrived(e, d, w, to), Agree(d),
         \A x \in DOMAIN d.full \ {w} : w \in DOMAIN d.full => d.full[x].output # to
  PROVE  Agree(e) /\ Pins(e) = Pins(d)
<1>1. Carried(e, d) BY DEF Arrived, Carried
<1>2. Travels(e, d)
  <2> SUFFICES ASSUME NEW x PROVE Stays(e, d, x) \/ \E o : Goes(e, d, x, o) BY DEF Travels
  <2>1. CASE x = w
    <3>1. Goes(e, d, w, to) BY DEF Arrived, Goes, ActiveKey
    <3> QED BY <2>1, <3>1
  <2>2. CASE x # w
    <3>1. Stays(e, d, x) BY <2>2 DEF Arrived, Stays
    <3> QED BY <3>1
  <2> QED BY <2>1, <2>2
<1>3. FullOnce(e)
  <2> SUFFICES ASSUME NEW u \in DOMAIN d.full, NEW v \in DOMAIN d.full,
                      e.full[u].output = e.full[v].output
               PROVE  u = v
    BY DEF FullOnce, Arrived
  <2>1. CASE u # w /\ v # w
    <3>1. d.full[u].output = d.full[v].output BY <2>1 DEF Arrived
    <3> QED BY <3>1 DEF Agree, Moded, FullOnce
  <2>2. CASE u = w \/ v = w BY <2>2 DEF Arrived
  <2> QED BY <2>1, <2>2
<1>4. Moded(e) /\ Pins(e) = Pins(d) BY <1>1, <1>2, <1>3, CarriedModed DEF Agree
<1>5. \A k : IsActive(e, k) <=> IsActive(d, k) BY IsActiveSame DEF Arrived
<1>6. IsActive(d, ActiveKey(d, to)) BY DEF IsActive, ActiveKey
<1>7. InView(e) BY <1>5, <1>6 DEF Arrived, Agree, InView
<1> QED BY <1>4, <1>7 DEF Agree

\* move_focused_window_to_monitor
LEMMA MoveWindowToMonitorAgrees ==
  ASSUME NEW L, NEW d, Held(d, L), Settled(d), NEW w, NEW to \in L
  PROVE  Settled(MoveWindowToMonitor(d, w, to)) /\ Pins(MoveWindowToMonitor(d, w, to)) = Pins(d)
<1> DEFINE x == Demoted(d, {w}, to)
           e == Modes(x, {w}, to)
           key == [y \in {w} |-> ActiveKey(d, to)]
           t == TransferTiled(e, w, to)
           f == Shown(Repinned(Landed(e, {w}, key), {w}, to), {w})
<1>1. Held(x, L) /\ Agree(x) /\ Pins(x) = Pins(d) /\ RoomMade(x, d, {w}, to)
  BY DemotedAgrees DEF Settled
<1>2. Same(x, d) /\ \A y \in DOMAIN x.full \ {w} : x.full[y].output # to
  BY <1>1 DEF RoomMade
<1>3. MoveWindowToMonitor(d, w, to) =
        IF Monitor(d, w) \notin d.live \ {to} \/ ~(IsTiled(d, w) \/ IsTagged(d, w)) THEN d
        ELSE IF IsTiled(d, w) THEN Retile(t) ELSE Retile(f)
  BY DEF MoveWindowToMonitor
<1> HIDE DEF x
<1>4. /\ IsDesk(x) /\ x.full \in Maps(FullscreenEntry)
      /\ DOMAIN x.tile \cap DOMAIN x.tag = {}
  BY <1>1, HeldIsDesk, DeskMaps
<1>5. IsDesk(e) /\ ModesAt(e, x, {w}, to) BY <1>4, ModesIs
<1>6. Held(e, L)
  <2>1. to \in Output BY DEF Held
  <2> QED BY <1>1, <2>1, ModesKeeps
<1> HIDE DEF e
<1>7. ASSUME IsTiled(d, w)
      PROVE  Settled(Retile(t)) /\ Pins(Retile(t)) = Pins(d)
  <2>1. w \in DOMAIN x.tile /\ w \in DOMAIN e.tile /\ w \notin DOMAIN x.tag
    BY <1>2, <1>4, <1>5, <1>7 DEF IsTiled, Same, ModesAt
  <2>2. /\ IsDesk(t) /\ t.tag = e.tag /\ t.over = e.over /\ t.full = e.full /\ t.maxi = e.maxi
        /\ t.pinned = e.pinned /\ t.pseudo = e.pseudo
        /\ t.shown = e.shown /\ t.active = e.active /\ t.live = e.live
        /\ t.tile = Put(e.tile, w, ActiveKey(e, to))
    BY <1>5, TransferTiledIs
  <2>3. Kept(t, e, L) BY <1>6, <2>1, TransferTiledKept
  <2> HIDE DEF t
  <2>4. Retabbed(t.groups, x.groups) BY <1>5, <2>3 DEF Kept, Rearranged, ModesAt
  <2>5. Arrived(t, x, w, to)
    <3>1. ActiveKey(e, to) = ActiveKey(x, to) BY <1>5 DEF ModesAt, ActiveKey
    <3>2. /\ DOMAIN t.tile = DOMAIN x.tile
          /\ \A y \in DOMAIN x.tile : t.tile[y] = IF y = w THEN ActiveKey(x, to) ELSE x.tile[y]
      BY <1>5, <2>1, <2>2, <3>1 DEF Put, ModesAt
    <3>3. /\ DOMAIN t.full = DOMAIN x.full /\ DOMAIN t.maxi = DOMAIN x.maxi
          /\ \A y \in DOMAIN x.full : /\ t.full[y].output = IF y = w THEN to ELSE x.full[y].output
                                      /\ t.full[y].wasPinned = x.full[y].wasPinned
          /\ \A y \in DOMAIN x.maxi : t.maxi[y] = IF y = w THEN to ELSE x.maxi[y]
      BY <1>5, <2>2 DEF ModesAt
    <3> QED BY <1>5, <2>1, <2>2, <2>4, <3>2, <3>3 DEF Arrived, ModesAt
  <2>6. Agree(t) /\ Pins(t) = Pins(x) BY <1>1, <1>2, <2>5, ArrivedAgrees
  <2>7. DOMAIN t.tile \cap DOMAIN t.tag = {} BY <1>4, <2>5 DEF Arrived
  <2> QED BY <1>1, <2>2, <2>6, <2>7, RetileShows
<1>8. ASSUME ~IsTiled(d, w), IsTagged(d, w)
      PROVE  Settled(Retile(f)) /\ Pins(Retile(f)) = Pins(d)
  <2>1. w \in DOMAIN x.tag /\ w \notin DOMAIN x.tile
    BY <1>2, <1>8 DEF IsTiled, IsTagged, Same
  <2>2. /\ IsDesk(f) /\ f.tile = e.tile /\ f.groups = e.groups /\ f.full = e.full /\ f.maxi = e.maxi
        /\ f.pinned = e.pinned /\ f.pseudo = e.pseudo
        /\ f.shown = e.shown \cup {w} /\ f.active = e.active /\ f.live = e.live
        /\ f.tag = [y \in DOMAIN e.tag |-> IF y \in {w} THEN key[y] ELSE e.tag[y]]
        /\ f.over = [y \in DOMAIN e.over |-> IF y \in {w} THEN key[y][1] ELSE e.over[y]]
    BY <1>5 DEF IsDesk, Shown, Repinned, Landed
  <2> HIDE DEF f
  <2>3. key[w] = ActiveKey(x, to) /\ key[w][1] = to BY <1>2 DEF Same, ActiveKey
  <2> HIDE DEF key
  <2>4. Retabbed(f.groups, x.groups) BY <1>5, <2>2, RetabbedSame DEF ModesAt
  <2>5. Arrived(f, x, w, to)
    <3>1. /\ DOMAIN f.tag = DOMAIN x.tag /\ DOMAIN f.over = DOMAIN x.over
          /\ \A y \in DOMAIN x.tag : f.tag[y] = IF y = w THEN ActiveKey(x, to) ELSE x.tag[y]
          /\ \A y \in DOMAIN x.over : f.over[y] = IF y = w THEN to ELSE x.over[y]
      BY <1>5, <2>2, <2>3 DEF ModesAt
    <3>2. \A y \in DOMAIN x.tag : y \in DOMAIN x.over BY <1>1 DEF Agree, Moded, OverAt
    <3>3. /\ DOMAIN f.full = DOMAIN x.full /\ DOMAIN f.maxi = DOMAIN x.maxi
          /\ \A y \in DOMAIN x.full : /\ f.full[y].output = IF y = w THEN to ELSE x.full[y].output
                                      /\ f.full[y].wasPinned = x.full[y].wasPinned
          /\ \A y \in DOMAIN x.maxi : f.maxi[y] = IF y = w THEN to ELSE x.maxi[y]
      BY <1>5, <2>2 DEF ModesAt
    <3>4. /\ DOMAIN f.tile = DOMAIN x.tile
          /\ \A y \in DOMAIN x.tile : f.tile[y] = IF y = w THEN ActiveKey(x, to) ELSE x.tile[y]
      BY <1>5, <2>1, <2>2 DEF ModesAt
    <3> QED BY <1>5, <2>1, <2>2, <2>4, <3>1, <3>2, <3>3, <3>4 DEF Arrived, ModesAt
  <2>6. Agree(f) /\ Pins(f) = Pins(x) BY <1>1, <1>2, <2>5, ArrivedAgrees
  <2>7. DOMAIN f.tile \cap DOMAIN f.tag = {} BY <1>4, <2>5 DEF Arrived
  <2> QED BY <1>1, <2>2, <2>6, <2>7, RetileShows
<1> HIDE DEF t, f
<1> QED BY <1>3, <1>7, <1>8

\* A tile dragged to another output has no mode to take along.
LEMMA DropTileAgrees ==
  ASSUME NEW L, NEW d, Held(d, L), Settled(d), NEW w, NEW to \in L
  PROVE  Settled(DropTile(d, w, to)) /\ Pins(DropTile(d, w, to)) = Pins(d)
<1> DEFINE t == TransferTiled(d, w, to)
<1>1. /\ IsDesk(d) /\ Agree(d) /\ DOMAIN d.tile \cap DOMAIN d.tag = {}
  BY HeldIsDesk, DeskMaps DEF Settled
<1>2. ASSUME ~IsFull(d, w), ~IsMaxi(d, w), IsTiled(d, w)
      PROVE  Settled(Retile(t)) /\ Pins(Retile(t)) = Pins(d)
  <2>1. w \in DOMAIN d.tile /\ w \notin DOMAIN d.tag /\ w \notin DOMAIN d.full /\ w \notin DOMAIN d.maxi
    BY <1>1, <1>2 DEF IsTiled, IsFull, IsMaxi
  <2>2. /\ IsDesk(t) /\ t.tag = d.tag /\ t.over = d.over /\ t.full = d.full /\ t.maxi = d.maxi
        /\ t.pinned = d.pinned /\ t.pseudo = d.pseudo
        /\ t.shown = d.shown /\ t.active = d.active /\ t.live = d.live
        /\ t.tile = Put(d.tile, w, ActiveKey(d, to))
    BY <1>1, TransferTiledIs
  <2>3. Kept(t, d, L) BY <2>1, TransferTiledKept
  <2> HIDE DEF t
  <2>4. Retabbed(t.groups, d.groups) BY <2>3 DEF Kept, Rearranged
  <2>5. Arrived(t, d, w, to) BY <2>1, <2>2, <2>4 DEF Arrived, Put
  <2>6. Agree(t) /\ Pins(t) = Pins(d) BY <1>1, <2>1, <2>5, ArrivedAgrees
  <2>7. DOMAIN t.tile \cap DOMAIN t.tag = {} BY <1>1, <2>5 DEF Arrived
  <2> QED BY <2>2, <2>6, <2>7, RetileShows
<1>3. DropTile(d, w, to) = IF w \notin d.shown \/ IsFull(d, w) \/ IsMaxi(d, w) \/ ~IsTiled(d, w)
                           THEN d ELSE Retile(t)
  BY DEF DropTile
<1> HIDE DEF t
<1> QED BY <1>2, <1>3

\* The windows a workspace takes along when it moves, and their modes.
LEMMA MovedModes ==
  ASSUME NEW d, IsDesk(d), d.full \in Maps(FullscreenEntry), NEW in, NEW k, NEW to
  PROVE  LET e == Moved(d, in, k, to) IN
         /\ IsDesk(e) /\ e.active = d.active /\ e.live = d.live
         /\ e.pinned = d.pinned /\ e.pseudo = d.pseudo
         /\ e.shown = d.shown \cup FloatersOf(d, k)
         /\ DOMAIN e.tile = DOMAIN d.tile /\ DOMAIN e.tag = DOMAIN d.tag
         /\ DOMAIN e.over = DOMAIN d.over
         /\ \A w \in DOMAIN d.tile : e.tile[w] = IF d.tile[w] = k THEN to ELSE d.tile[w]
         /\ \A w \in DOMAIN d.tag : e.tag[w] = IF w \in FloatersOf(d, k) THEN to ELSE d.tag[w]
         /\ \A w \in DOMAIN d.over :
              e.over[w] = IF w \in FloatersOf(d, k) THEN to[1] ELSE d.over[w]
         /\ DOMAIN e.full = DOMAIN d.full /\ DOMAIN e.maxi = DOMAIN d.maxi
         /\ \A w \in DOMAIN d.full : /\ e.full[w].output = IF w \in in THEN to[1] ELSE d.full[w].output
                                     /\ e.full[w].wasPinned = d.full[w].wasPinned
         /\ \A w \in DOMAIN d.maxi : e.maxi[w] = IF w \in in THEN to[1] ELSE d.maxi[w]
<1> DEFINE x == Modes(d, in, to[1])
           F == FloatersOf(d, k)
           key == [w \in F |-> to]
           y == Landed(Repinned(x, in, to[1]), F, key)
           e == Moved(d, in, k, to)
<1>1. IsDesk(x) /\ ModesAt(x, d, in, to[1]) BY ModesIs
<1>2. e = [y EXCEPT !.tile = [w \in DOMAIN @ |-> IF @[w] = k THEN to ELSE @[w]],
                    !.groups = {IF g.home = k THEN [g EXCEPT !.home = to] ELSE g : g \in @},
                    !.shown = @ \cup F]
  BY DEF Moved
<1> HIDE DEF x, F
<1>3. /\ IsDesk(y) /\ y.tile = x.tile /\ y.full = x.full /\ y.maxi = x.maxi
      /\ y.pinned = x.pinned /\ y.pseudo = x.pseudo
      /\ y.shown = x.shown /\ y.active = x.active /\ y.live = x.live
      /\ y.tag = [w \in DOMAIN x.tag |-> IF w \in F THEN key[w] ELSE x.tag[w]]
      /\ y.over = [w \in DOMAIN x.over |-> IF w \in F THEN key[w][1] ELSE x.over[w]]
  BY <1>1 DEF IsDesk, Landed, Repinned
<1> HIDE DEF y, e
<1>4. /\ IsDesk(e) /\ e.tag = y.tag /\ e.over = y.over /\ e.full = y.full /\ e.maxi = y.maxi
      /\ e.pinned = y.pinned /\ e.pseudo = y.pseudo
      /\ e.shown = y.shown \cup F /\ e.active = y.active /\ e.live = y.live
      /\ e.tile = [w \in DOMAIN y.tile |-> IF y.tile[w] = k THEN to ELSE y.tile[w]]
  BY <1>2, <1>3 DEF IsDesk
<1>5. \A w \in F : key[w] = to /\ key[w][1] = to[1] OBVIOUS
<1> HIDE DEF key
<1>6. /\ DOMAIN e.tile = DOMAIN d.tile /\ DOMAIN e.tag = DOMAIN d.tag /\ DOMAIN e.over = DOMAIN d.over
      /\ \A w \in DOMAIN d.tile : e.tile[w] = IF d.tile[w] = k THEN to ELSE d.tile[w]
      /\ \A w \in DOMAIN d.tag : e.tag[w] = IF w \in F THEN to ELSE d.tag[w]
      /\ \A w \in DOMAIN d.over : e.over[w] = IF w \in F THEN to[1] ELSE d.over[w]
  BY <1>1, <1>3, <1>4, <1>5 DEF ModesAt
<1>7. /\ e.active = d.active /\ e.live = d.live /\ e.pinned = d.pinned /\ e.pseudo = d.pseudo
      /\ e.shown = d.shown \cup F
  BY <1>1, <1>3, <1>4 DEF ModesAt
<1>8. /\ DOMAIN e.full = DOMAIN d.full /\ DOMAIN e.maxi = DOMAIN d.maxi
      /\ \A w \in DOMAIN d.full : /\ e.full[w].output = IF w \in in THEN to[1] ELSE d.full[w].output
                                  /\ e.full[w].wasPinned = d.full[w].wasPinned
      /\ \A w \in DOMAIN d.maxi : e.maxi[w] = IF w \in in THEN to[1] ELSE d.maxi[w]
  BY <1>1, <1>3, <1>4 DEF ModesAt
<1> QED BY <1>4, <1>6, <1>7, <1>8 DEF F, e

LEMMA TilePairs ==
  ASSUME NEW L, NEW d, Held(d, L)
  PROVE  /\ \A w \in DOMAIN d.tile : d.tile[w] \in L \X Workspace
         /\ \A w \in DOMAIN d.tag : d.tag[w] \in L \X Workspace
         /\ L \subseteq Output
<1>1. d.tile \in Maps(Keys(L)) /\ d.tag \in Maps(Keys(L)) /\ L \subseteq Output BY DeskMaps
<1>2. \A w \in DOMAIN d.tile : d.tile[w] \in Keys(L) BY ONLY <1>1, MapsType
<1>3. \A w \in DOMAIN d.tag : d.tag[w] \in Keys(L) BY ONLY <1>1, MapsType
<1> QED BY <1>1, <1>2, <1>3 DEF Keys

\* A parked tab has no mode.
LEMMA ParkedModes ==
  ASSUME NEW L, NEW d, Held(d, L), Moded(d), NEW k, NEW w \in ParkedOf(d, k)
  PROVE  w \notin DOMAIN d.tile /\ w \notin DOMAIN d.tag /\ w \notin DOMAIN d.full
         /\ w \notin DOMAIN d.maxi
<1>1. PICK g \in d.groups : w \in ParkedIn(g) BY DEF ParkedOf
<1>2. w \in Parked(d) BY <1>1 DEF Parked
<1>3. w \notin DOMAIN d.tile /\ w \notin DOMAIN d.tag BY <1>2 DEF Held, Once
<1>4. w \notin DOMAIN d.full BY <1>3 DEF Moded, FullAt
<1>5. w \notin DOMAIN d.maxi BY <1>3 DEF Moded, MaxiAt
<1> QED BY <1>3, <1>4, <1>5

\* The desk x is d after the fullscreen window of an output made room, or d.
Cleared(x, d, o) ==
  /\ Agree(x) /\ Pins(x) = Pins(d) /\ Same(x, d) /\ d.pinned \subseteq x.pinned
  /\ \A y \in x.pinned : y \in d.pinned \/ (y \in DOMAIN d.full /\ d.full[y].output = o)
  /\ DOMAIN x.full \subseteq DOMAIN d.full /\ \A y \in DOMAIN x.full : x.full[y] = d.full[y]
  /\ DOMAIN x.maxi = DOMAIN d.maxi

LEMMA DemotedCleared ==
  ASSUME NEW L, NEW d, Held(d, L), Agree(d), NEW S, NEW o
  PROVE  LET x == Demoted(d, S, o) IN
         /\ Held(x, L) /\ Cleared(x, d, o)
         /\ \A y \in DOMAIN x.full : y \in S \/ x.full[y].output # o
         /\ \A y \in DOMAIN d.full : y \in S \/ d.full[y].output # o => y \in DOMAIN x.full
<1> DEFINE x == Demoted(d, S, o)
<1>1. Held(x, L) /\ Agree(x) /\ Pins(x) = Pins(d) /\ RoomMade(x, d, S, o) BY DemotedAgrees
<1> HIDE DEF x
<1>2. Cleared(x, d, o) BY <1>1 DEF Cleared, RoomMade
<1>3. \A y \in DOMAIN x.full : y \in S \/ x.full[y].output # o BY <1>1 DEF RoomMade
<1>4. \A y \in DOMAIN d.full : y \in S \/ d.full[y].output # o => y \in DOMAIN x.full
  BY <1>1 DEF RoomMade
<1> QED BY <1>1, <1>2, <1>3, <1>4 DEF x

LEMMA ClearedSelf ==
  ASSUME NEW d, Agree(d), NEW o
  PROVE  Cleared(d, d, o)
BY DEF Cleared, Same

\* A fullscreen window that made room on another output was none of the
\* workspace, which keeps its floaters.
LEMMA ClearedFloaters ==
  ASSUME NEW L, NEW d, Held(d, L), Agree(d), NEW o, NEW x, Cleared(x, d, o), NEW k, k[1] # o
  PROVE  FloatersOf(x, k) = FloatersOf(d, k)
<1>1. ASSUME NEW y \in x.pinned, y \in DOMAIN d.tag, d.tag[y] = k
      PROVE  y \in d.pinned
  <2>1. y \in d.pinned \/ (y \in DOMAIN d.full /\ d.full[y].output = o) BY <1>1 DEF Cleared
  <2>2. y \notin DOMAIN d.tile BY <1>1, DeskMaps
  <2>3. y \in DOMAIN d.full => d.tag[y][1] = d.full[y].output
    BY <2>2 DEF Agree, Moded, FullAt
  <2> QED BY <1>1, <2>1, <2>3
<1> QED BY <1>1 DEF FloatersOf, Cleared, Same

\* move_workspace_to_monitor: the workspace takes the view of its new output, and
\* nothing of the one it pushes aside stays in view.
LEMMA MoveWorkspaceAgrees ==
  ASSUME NEW L, NEW d, Held(d, L), Settled(d), NEW from \in Output, NEW to \in L
  PROVE  Settled(MoveWorkspace(d, from, to)) /\ Pins(MoveWorkspace(d, from, to)) = Pins(d)
<1> DEFINE k == ActiveKey(d, from)
           n == TransferSlot(d, k[2], to)
           slot == <<to, n>>
           in == Residents(d, k)
           covers == \E w \in in : IsFull(d, w)
           x == IF covers THEN Demoted(d, {}, to) ELSE d
           left == (IF slot = ActiveKey(d, to) THEN {} ELSE TilesOf(x, ActiveKey(d, to)))
                     \cup FloatersOf(x, ActiveKey(d, to))
           h == Hidden(x, left)
           m == Moved(h, in, k, slot)
           r == [m EXCEPT !.active[to] = n]
           F == FloatersOf(d, k)
           T == TilesOf(d, k)
<1> SUFFICES ASSUME from # to, Vacant(d, to) # {}
             PROVE  Settled(Retile(r)) /\ Pins(Retile(r)) = Pins(d)
  BY DEF MoveWorkspace
<1>1. /\ IsDesk(d) /\ Agree(d) /\ DOMAIN d.tile \cap DOMAIN d.tag = {} /\ Moded(d)
      /\ d.active \in [Output -> Workspace] /\ to \in Output
  BY HeldIsDesk, DeskMaps DEF Settled, Agree
<1>2. /\ Held(x, L) /\ Cleared(x, d, to)
      /\ covers => \A y \in DOMAIN x.full : x.full[y].output # to
  <2>1. CASE covers
    <3>1. x = Demoted(d, {}, to) BY <2>1
    <3> QED BY <1>1, <3>1, DemotedCleared
  <2>2. CASE ~covers
    <3>1. x = d BY <2>2
    <3> QED BY <1>1, <2>2, <3>1, ClearedSelf
  <2> QED BY <2>1, <2>2
<1>3. slot \notin HomesOf(d) BY SlotVacant
<1>4. n \in Normal /\ slot \in Keys(L)
  <2>1. n \in Normal BY SlotNormal
  <2> QED BY <2>1 DEF Keys, Workspace
<1>5. covers <=> \E w \in in : w \in DOMAIN d.full BY DEF IsFull
<1> HIDE DEF n, covers, x, left
<1>6. IsDesk(x) /\ Same(x, d) /\ Agree(x) /\ Moded(x) /\ x.full \in Maps(FullscreenEntry)
  BY <1>2, HeldIsDesk, DeskMaps DEF Cleared, Agree
<1>7. /\ h.tile = d.tile /\ h.tag = d.tag /\ h.over = x.over /\ h.full = x.full /\ h.maxi = x.maxi
      /\ h.pinned = x.pinned /\ h.pseudo = x.pseudo /\ h.groups = d.groups
      /\ h.shown = x.shown \ left /\ h.active = d.active /\ h.live = d.live /\ IsDesk(h)
  BY <1>6 DEF IsDesk, Hidden, Same
<1>8. Held(h, L) BY <1>2, HiddenKeeps
<1> HIDE DEF h
<1>9. k[1] = from /\ k = <<from, d.active[from]>> BY DEF ActiveKey
<1>10. FloatersOf(h, k) = F
  <2>1. FloatersOf(x, k) = F BY <1>1, <1>2, <1>9, ClearedFloaters
  <2> QED BY <1>6, <1>7, <2>1 DEF FloatersOf, Same
<1>11. /\ IsDesk(m) /\ m.active = h.active /\ m.live = h.live
       /\ m.pinned = h.pinned /\ m.pseudo = h.pseudo
       /\ m.shown = h.shown \cup F
       /\ DOMAIN m.tile = DOMAIN h.tile /\ DOMAIN m.tag = DOMAIN h.tag
       /\ DOMAIN m.over = DOMAIN h.over
       /\ \A w \in DOMAIN h.tile : m.tile[w] = IF h.tile[w] = k THEN slot ELSE h.tile[w]
       /\ \A w \in DOMAIN h.tag : m.tag[w] = IF w \in F THEN slot ELSE h.tag[w]
       /\ \A w \in DOMAIN h.over : m.over[w] = IF w \in F THEN slot[1] ELSE h.over[w]
       /\ DOMAIN m.full = DOMAIN h.full /\ DOMAIN m.maxi = DOMAIN h.maxi
       /\ \A w \in DOMAIN h.full : /\ m.full[w].output = IF w \in in THEN slot[1] ELSE h.full[w].output
                                   /\ m.full[w].wasPinned = h.full[w].wasPinned
       /\ \A w \in DOMAIN h.maxi : m.maxi[w] = IF w \in in THEN slot[1] ELSE h.maxi[w]
  <2>1. h.full \in Maps(FullscreenEntry) BY <1>6, <1>7
  <2> QED BY <1>7, <1>10, <2>1, MovedModes
<1>12. Retabbed(m.groups, d.groups)
  <2>1. Kept(m, h, L) BY <1>4, <1>8, MovedKept
  <2> QED BY <1>7, <2>1 DEF Kept, Rearranged
<1> HIDE DEF m
<1>13. /\ r.tile = m.tile /\ r.tag = m.tag /\ r.over = m.over /\ r.full = m.full /\ r.maxi = m.maxi
       /\ r.pinned = m.pinned /\ r.pseudo = m.pseudo /\ r.groups = m.groups
       /\ r.shown = m.shown /\ r.live = m.live /\ IsDesk(r)
       /\ r.active = [d.active EXCEPT ![to] = n]
  BY <1>7, <1>11 DEF IsDesk
<1> HIDE DEF r
<1>14. slot[1] = to OBVIOUS
<1>15. /\ x.tile = d.tile /\ x.tag = d.tag /\ x.active = d.active /\ d.pinned \subseteq x.pinned
  BY <1>2, <1>6 DEF Same, Cleared
<1>16. \A w \in DOMAIN x.full \cup DOMAIN x.maxi : w \in in <=> w \in T \cup F
  <2>1. \A w \in ParkedOf(d, k) : w \notin DOMAIN d.full /\ w \notin DOMAIN d.maxi
    BY <1>1, ParkedModes
  <2>2. DOMAIN x.full \subseteq DOMAIN d.full /\ DOMAIN x.maxi = DOMAIN d.maxi BY <1>2 DEF Cleared
  <2> QED BY <2>1, <2>2 DEF Residents
<1> HIDE DEF in, slot
<1>17. Carried(r, x)
  BY <1>7, <1>11, <1>12, <1>13, <1>15, <1>6 DEF Carried, Same
<1>18. ASSUME NEW w \in T \cup F PROVE Goes(r, x, w, to)
  <2>1. w \in DOMAIN d.tag => w \in F BY <1>1, <1>18 DEF TilesOf
  <2>2. w \in DOMAIN d.tile => d.tile[w] = k BY <1>1, <1>18 DEF TilesOf, FloatersOf
  <2>3. w \in DOMAIN x.tag => w \in DOMAIN x.over BY <1>6 DEF Moded, OverAt
  <2>4. w \in DOMAIN d.tile => r.tile[w][1] = to BY <1>7, <1>11, <1>13, <1>14, <2>2
  <2>5. w \in DOMAIN d.tag => r.tag[w][1] = to /\ r.over[w] = to
    BY <1>7, <1>11, <1>13, <1>14, <1>15, <2>1, <2>3
  <2>6. /\ w \in DOMAIN x.full => r.full[w].output = to
        /\ w \in DOMAIN x.maxi => r.maxi[w] = to
    BY <1>7, <1>11, <1>13, <1>14, <1>16, <1>18
  <2> QED BY <1>15, <2>4, <2>5, <2>6 DEF Goes
<1>19. ASSUME NEW w, w \notin T \cup F PROVE Stays(r, x, w)
  <2>1. w \in DOMAIN d.tile => d.tile[w] # k BY <1>19 DEF TilesOf
  <2>3. w \in DOMAIN x.tag => w \in DOMAIN x.over BY <1>6 DEF Moded, OverAt
  <2>4. w \in DOMAIN d.tile => r.tile[w] = d.tile[w] BY <1>7, <1>11, <1>13, <2>1
  <2>5. w \in DOMAIN d.tag => r.tag[w] = d.tag[w] /\ r.over[w] = x.over[w]
    BY <1>7, <1>11, <1>13, <1>15, <1>19, <2>3
  <2>6. /\ w \in DOMAIN x.full => r.full[w].output = x.full[w].output
        /\ w \in DOMAIN x.maxi => r.maxi[w] = x.maxi[w]
    BY <1>7, <1>11, <1>13, <1>16, <1>19
  <2> QED BY <1>15, <2>4, <2>5, <2>6 DEF Stays
<1>20. Travels(r, x) BY <1>18, <1>19 DEF Travels
<1>21. FullOnce(r)
  <2> SUFFICES ASSUME NEW u \in DOMAIN r.full, NEW v \in DOMAIN r.full,
                      r.full[u].output = r.full[v].output
               PROVE  u = v
    BY DEF FullOnce
  <2>1. u \in DOMAIN x.full /\ v \in DOMAIN x.full BY <1>17 DEF Carried
  <2>2. FullOnce(x) BY <1>6 DEF Moded
  <2>3. \A y \in DOMAIN x.full : y \in T \cup F => x.full[y].output = from /\ r.full[y].output = to
    <3> SUFFICES ASSUME NEW y \in DOMAIN x.full, y \in T \cup F
                 PROVE  x.full[y].output = from /\ r.full[y].output = to
      OBVIOUS
    <3>1. r.full[y].output = to BY <1>18 DEF Goes
    <3>2. \/ y \in DOMAIN d.tile /\ d.tile[y][1] = x.full[y].output
          \/ y \in DOMAIN d.tag /\ d.tag[y][1] = x.full[y].output
      BY <1>6, <1>15 DEF Moded, FullAt
    <3>3. /\ y \in DOMAIN d.tile => d.tile[y] = k
          /\ y \in DOMAIN d.tag => d.tag[y] = k
      BY <1>1 DEF TilesOf, FloatersOf
    <3> QED BY <1>9, <3>1, <3>2, <3>3
  <2>4. \A y \in DOMAIN x.full : y \notin T \cup F => r.full[y].output = x.full[y].output
    BY <1>19 DEF Stays
  <2>5. \A y \in DOMAIN x.full : y \in T \cup F => \A z \in DOMAIN x.full : x.full[z].output # to
    <3> SUFFICES ASSUME NEW y \in DOMAIN x.full, y \in T \cup F PROVE covers
      BY <1>2
    <3>1. y \in in /\ y \in DOMAIN d.full BY <1>2, <1>16 DEF Cleared
    <3> QED BY <1>5, <3>1
  <2>6. CASE u \in T \cup F /\ v \in T \cup F BY <2>1, <2>2, <2>3, <2>6 DEF FullOnce
  <2>7. CASE u \in T \cup F /\ v \notin T \cup F BY <2>1, <2>3, <2>4, <2>5, <2>7
  <2>8. CASE u \notin T \cup F /\ v \in T \cup F BY <2>1, <2>3, <2>4, <2>5, <2>8
  <2>9. CASE u \notin T \cup F /\ v \notin T \cup F BY <2>1, <2>2, <2>4, <2>9 DEF FullOnce
  <2> QED BY <2>6, <2>7, <2>8, <2>9
<1>22. Moded(r) /\ Pins(r) = Pins(d) BY <1>2, <1>6, <1>17, <1>20, <1>21, CarriedModed DEF Cleared
<1>23. r.active[to] = n /\ \A o \in Output \ {to} : r.active[o] = d.active[o] BY <1>1, <1>13
<1>24. r.shown = (x.shown \ left) \cup F BY <1>7, <1>11, <1>13
<1>25. IsActive(r, slot) BY <1>23, <1>14 DEF IsActive, slot
<1>26. ASSUME NEW w \in DOMAIN r.tile, w \in r.shown PROVE IsActive(r, r.tile[w])
  <2>1. w \in DOMAIN d.tile /\ w \notin F /\ w \in x.shown \ left
    BY <1>1, <1>7, <1>11, <1>13, <1>24, <1>26 DEF FloatersOf
  <2>2. IsActive(d, d.tile[w]) BY <1>6, <1>15, <2>1 DEF Agree, InView, IsActive
  <2>3. d.tile[w] \in Output \X Workspace BY <2>1, TilePairs
  <2>4. r.tile[w] = IF d.tile[w] = k THEN slot ELSE d.tile[w] BY <1>7, <1>11, <1>13, <2>1
  <2>5. CASE d.tile[w] = k BY <1>25, <2>4, <2>5
  <2>6. CASE d.tile[w] # k /\ d.tile[w][1] = to
    <3>1. d.tile[w] = ActiveKey(d, to) BY <2>2, <2>3, <2>6 DEF IsActive, ActiveKey
    <3>2. w \in TilesOf(x, ActiveKey(d, to)) BY <1>15, <2>1, <3>1 DEF TilesOf
    <3>3. slot = ActiveKey(d, to) BY <2>1, <3>2 DEF left
    <3>4. d.tile[w] \in HomesOf(d) BY <2>1 DEF HomesOf
    <3> QED BY <1>3, <3>1, <3>3, <3>4
  <2>7. CASE d.tile[w] # k /\ d.tile[w][1] # to
    BY <1>23, <2>2, <2>3, <2>4, <2>7 DEF IsActive
  <2> QED BY <2>5, <2>6, <2>7
<1>27. ASSUME NEW w \in DOMAIN r.tag
       PROVE  w \in r.shown <=> IsActive(r, r.tag[w]) \/ w \in r.pinned
  <2>1. w \in DOMAIN d.tag /\ w \notin DOMAIN d.tile /\ r.pinned = x.pinned
    BY <1>1, <1>7, <1>11, <1>13, <1>27
  <2>2. w \in x.shown <=> IsActive(d, d.tag[w]) \/ w \in x.pinned
    BY <1>6, <1>15, <2>1 DEF Agree, InView, IsActive
  <2>3. d.tag[w] \in Output \X Workspace BY <2>1, TilePairs
  <2>4. r.tag[w] = IF w \in F THEN slot ELSE d.tag[w] BY <1>7, <1>11, <1>13, <2>1
  <2>5. w \in left <=> w \notin x.pinned /\ d.tag[w] = ActiveKey(d, to)
    BY <1>15, <2>1 DEF left, TilesOf, FloatersOf
  <2>6. CASE w \in F BY <1>24, <1>25, <2>4, <2>6
  <2>7. CASE w \notin F /\ w \in x.pinned BY <1>24, <2>1, <2>2, <2>5, <2>7
  <2>8. CASE w \notin F /\ w \notin x.pinned /\ d.tag[w][1] = to
    <3>1. d.tag[w] \in HomesOf(d) BY <1>15, <2>1, <2>8 DEF HomesOf
    <3>2. d.tag[w][2] # n BY <1>3, <2>3, <2>8, <3>1 DEF slot
    <3>3. ~IsActive(r, r.tag[w]) BY <1>23, <2>4, <2>8, <3>2 DEF IsActive
    <3>4. w \in x.shown => w \in left
      BY <2>2, <2>3, <2>5, <2>8 DEF IsActive, ActiveKey
    <3> QED BY <1>24, <2>1, <2>8, <3>3, <3>4
  <2>9. CASE w \notin F /\ w \notin x.pinned /\ d.tag[w][1] # to
    <3>1. IsActive(r, r.tag[w]) <=> IsActive(d, d.tag[w])
      BY <1>23, <2>3, <2>4, <2>9 DEF IsActive
    <3>2. w \notin left BY <2>5, <2>9 DEF ActiveKey
    <3> QED BY <1>24, <2>1, <2>2, <2>9, <3>1, <3>2
  <2> QED BY <2>6, <2>7, <2>8, <2>9
<1>28. InView(r) BY <1>26, <1>27 DEF InView
<1>29. DOMAIN r.tile \cap DOMAIN r.tag = {} BY <1>1, <1>7, <1>11, <1>13
<1> QED BY <1>13, <1>22, <1>28, <1>29, RetileShows DEF Agree

\* The modes of the floaters F and the tiles T go to output o.
LEMMA ModesSent ==
  ASSUME NEW L, NEW d, Held(d, L), NEW F, NEW T, NEW o \in Output
  PROVE  LET e == FullTo(Modes(d, F, o), T, o) IN
         /\ Held(e, L) /\ IsDesk(e)
         /\ e.tile = d.tile /\ e.tag = d.tag /\ e.over = d.over /\ e.groups = d.groups
         /\ e.pinned = d.pinned /\ e.pseudo = d.pseudo
         /\ e.shown = d.shown /\ e.active = d.active /\ e.live = d.live
         /\ DOMAIN e.full = DOMAIN d.full /\ DOMAIN e.maxi = DOMAIN d.maxi
         /\ \A w \in DOMAIN d.full :
              /\ e.full[w].output = IF w \in F \cup T THEN o ELSE d.full[w].output
              /\ e.full[w].wasPinned = d.full[w].wasPinned
         /\ \A w \in DOMAIN d.maxi : e.maxi[w] = IF w \in F THEN o ELSE d.maxi[w]
<1> DEFINE c == Modes(d, F, o)
           e == FullTo(c, T, o)
<1>1. IsDesk(c) /\ ModesAt(c, d, F, o) BY HeldIsDesk, DeskMaps, ModesIs
<1>2. Held(c, L) BY ModesKeeps
<1> HIDE DEF c
<1>3. Held(e, L) BY <1>2, FullToKeeps
<1>4. c.full \in Maps(FullscreenEntry) BY <1>2, DeskMaps
<1>5. /\ IsDesk(e) /\ e.tile = c.tile /\ e.tag = c.tag /\ e.over = c.over /\ e.groups = c.groups
      /\ e.maxi = c.maxi /\ e.pinned = c.pinned /\ e.pseudo = c.pseudo
      /\ e.shown = c.shown /\ e.active = c.active /\ e.live = c.live
      /\ DOMAIN e.full = DOMAIN c.full
      /\ \A w \in DOMAIN c.full :
           /\ e.full[w].output = IF w \in T THEN o ELSE c.full[w].output
           /\ e.full[w].wasPinned = c.full[w].wasPinned
  BY <1>1, <1>4, FullToIs
<1> HIDE DEF e
<1>6. /\ e.tile = d.tile /\ e.tag = d.tag /\ e.over = d.over /\ e.groups = d.groups
      /\ e.pinned = d.pinned /\ e.pseudo = d.pseudo
      /\ e.shown = d.shown /\ e.active = d.active /\ e.live = d.live
  BY <1>1, <1>5 DEF ModesAt
<1>7. /\ DOMAIN e.full = DOMAIN d.full /\ DOMAIN e.maxi = DOMAIN d.maxi
      /\ \A w \in DOMAIN d.full :
              /\ e.full[w].output = IF w \in F \cup T THEN o ELSE d.full[w].output
              /\ e.full[w].wasPinned = d.full[w].wasPinned
      /\ \A w \in DOMAIN d.maxi : e.maxi[w] = IF w \in F THEN o ELSE d.maxi[w]
  BY <1>1, <1>5 DEF ModesAt
<1> QED BY <1>3, <1>5, <1>6, <1>7 DEF e, c

\* swap_workspaces before anything moves: no fullscreen window that stays is in
\* the way of one that comes.
MadeWay(e, d, a, b) ==
  LET fa == MovingFull(d, ActiveKey(d, a))
      fb == MovingFull(d, ActiveKey(d, b))
  IN /\ fa # {} => \A y \in DOMAIN e.full : y \in fb \/ e.full[y].output # b
     /\ fb # {} => \A y \in DOMAIN e.full : y \in fa \/ e.full[y].output # a

\* What came before: no window got a mode, and none lost its place or its pin.
Prepared(e, d) ==
  /\ Agree(e) /\ Pins(e) = Pins(d) /\ Same(e, d) /\ d.pinned \subseteq e.pinned
  /\ DOMAIN e.full \subseteq DOMAIN d.full /\ \A y \in DOMAIN e.full : e.full[y] = d.full[y]

LEMMA SwapPrepared ==
  ASSUME NEW L, NEW d, Held(d, L), Agree(d), NEW a, NEW b,
         NEW fa, fa = MovingFull(d, ActiveKey(d, a)),
         NEW fb, fb = MovingFull(d, ActiveKey(d, b)),
         NEW d1, d1 = (IF fa = {} THEN d ELSE Demoted(d, fb, b)),
         NEW e, e = (IF fb = {} THEN d1 ELSE Demoted(d1, fa, a))
  PROVE  Held(e, L) /\ Prepared(e, d) /\ MadeWay(e, d, a, b)
<1>1. /\ Held(d1, L) /\ Prepared(d1, d)
      /\ fa # {} => \A y \in DOMAIN d1.full : y \in fb \/ d1.full[y].output # b
  <2>1. CASE fa = {}
    <3>1. d1 = d BY <2>1
    <3>2. Same(d, d) BY DEF Same
    <3> QED BY <2>1, <3>1, <3>2 DEF Prepared
  <2>2. CASE fa # {}
    <3>1. d1 = Demoted(d, fb, b) BY <2>2
    <3>2. Held(d1, L) /\ Cleared(d1, d, b) /\ \A y \in DOMAIN d1.full : y \in fb \/ d1.full[y].output # b
      BY <3>1, DemotedCleared
    <3> QED BY <3>2 DEF Cleared, Prepared
  <2> QED BY <2>1, <2>2
<1>2. /\ Held(e, L) /\ Prepared(e, d1)
      /\ fb # {} => \A y \in DOMAIN e.full : y \in fa \/ e.full[y].output # a
  <2>1. CASE fb = {}
    <3>1. e = d1 BY <2>1
    <3>2. Same(d1, d1) BY DEF Same
    <3> QED BY <1>1, <2>1, <3>1, <3>2 DEF Prepared
  <2>2. CASE fb # {}
    <3>1. e = Demoted(d1, fa, a) BY <2>2
    <3>2. Agree(d1) BY <1>1 DEF Prepared
    <3>3. Held(e, L) /\ Cleared(e, d1, a) /\ \A y \in DOMAIN e.full : y \in fa \/ e.full[y].output # a
      BY <1>1, <3>1, <3>2, DemotedCleared
    <3> QED BY <3>3 DEF Cleared, Prepared
  <2> QED BY <2>1, <2>2
<1>3. Prepared(e, d) BY <1>1, <1>2, SameTwice DEF Prepared
<1>4. fa # {} => \A y \in DOMAIN e.full : y \in fb \/ e.full[y].output # b
  BY <1>1, <1>2 DEF Prepared
<1> QED BY <1>2, <1>3, <1>4 DEF MadeWay

\* A fullscreen window of the open workspace of one output, and one that covers
\* the other output: both of them move.
LEMMA MadeWayMoves ==
  ASSUME NEW L, NEW d, Held(d, L), NEW e, Prepared(e, d), NEW a, NEW b,
         NEW fa, fa = MovingFull(d, ActiveKey(d, a)),
         NEW fb, fb = MovingFull(d, ActiveKey(d, b)),
         fa # {} => \A y \in DOMAIN e.full : y \in fb \/ e.full[y].output # b,
         NEW u \in DOMAIN e.full, u \in TilesOf(e, ActiveKey(d, a)) \cup FloatersOf(e, ActiveKey(d, a))
  PROVE  /\ e.full[u].output = a
         /\ \A y \in DOMAIN e.full : e.full[y].output = b =>
              y \in TilesOf(e, ActiveKey(d, b)) \cup FloatersOf(e, ActiveKey(d, b))
<1> DEFINE ka == ActiveKey(d, a)
           kb == ActiveKey(d, b)
<1>1. ka[1] = a BY DEF ActiveKey
<1> HIDE DEF ka, kb
<1>2. /\ Agree(e) /\ e.tile = d.tile /\ e.tag = d.tag /\ d.pinned \subseteq e.pinned
      /\ DOMAIN e.full \subseteq DOMAIN d.full
  BY DEF Prepared, Same
<1>3. DOMAIN e.tile \cap DOMAIN e.tag = {} BY <1>2, DeskMaps
<1>4. \/ u \in DOMAIN e.tile /\ e.tile[u] = ka
      \/ u \in DOMAIN e.tag /\ e.tag[u] = ka
  BY DEF ka, TilesOf, FloatersOf
<1>5. \/ u \in DOMAIN e.tile /\ e.tile[u][1] = e.full[u].output
      \/ u \in DOMAIN e.tag /\ e.tag[u][1] = e.full[u].output
  BY <1>2 DEF Agree, Moded, FullAt
<1>6. e.full[u].output = a BY <1>1, <1>3, <1>4, <1>5
<1>7. u \in fa
  <2>1. u \in TilesOf(d, ka) \cup FloatersOf(d, ka)
    BY <1>2 DEF TilesOf, FloatersOf, ka
  <2> QED BY <1>2, <2>1 DEF MovingFull, IsFull, ka
<1>8. ASSUME NEW y \in DOMAIN e.full, e.full[y].output = b
      PROVE  y \in TilesOf(e, kb) \cup FloatersOf(e, kb)
  <2>1. y \in fb BY <1>7, <1>8
  <2>2. y \in TilesOf(d, kb) \cup FloatersOf(d, kb) BY <2>1 DEF MovingFull, kb
  <2>3. y \notin e.pinned BY <1>2 DEF Agree, Moded, PinsFloat
  <2> QED BY <1>2, <2>2, <2>3 DEF TilesOf, FloatersOf
<1> QED BY <1>6, <1>8 DEF kb

\* swap_workspaces
LEMMA SwapAgrees ==
  ASSUME NEW L, NEW d, Held(d, L), Settled(d), NEW a \in L, NEW b \in L
  PROVE  Settled(Swap(d, a, b)) /\ Pins(Swap(d, a, b)) = Pins(d)
<1> DEFINE ka == ActiveKey(d, a)
           kb == ActiveKey(d, b)
           fa == MovingFull(d, ka)
           fb == MovingFull(d, kb)
           d1 == IF fa = {} THEN d ELSE Demoted(d, fb, b)
           e == IF fb = {} THEN d1 ELSE Demoted(d1, fa, a)
           other == [k \in Key |-> IF k = ka THEN kb ELSE IF k = kb THEN ka ELSE k]
           FA == FloatersOf(e, ka)
           FB == FloatersOf(e, kb)
           TA == TilesOf(e, ka)
           TB == TilesOf(e, kb)
           toB == FullTo(Modes(e, FA, b), TA, b)
           toA == FullTo(Modes(toB, FB, a), TB, a)
           floats == FA \cup FB
           key == [w \in floats |-> other[e.tag[w]]]
           r == Shown(Landed(Rehomed([toA EXCEPT !.tile = [w \in DOMAIN @ |-> other[@[w]]]], other),
                             floats, key), floats)
<1> SUFFICES ASSUME a # b
             PROVE  Settled(Retile(r)) /\ Pins(Retile(r)) = Pins(d)
  BY DEF Swap
<1>1. Agree(d) /\ a \in Output /\ b \in Output /\ d.active \in [Output -> Workspace]
  BY DeskMaps DEF Settled, Held
<1>2. Held(e, L) /\ Prepared(e, d) /\ MadeWay(e, d, a, b) BY <1>1, SwapPrepared
<1>3. Swap(d, a, b) = Retile(r) BY DEF Swap
<1>4. Kept(Swap(d, a, b), d, L) BY SwapKept
<1> HIDE DEF e
<1>5. /\ Agree(e) /\ Moded(e) /\ Pins(e) = Pins(d) /\ DOMAIN e.tile \cap DOMAIN e.tag = {}
      /\ e.active = d.active /\ e.groups = d.groups /\ e.tile = d.tile /\ e.tag = d.tag
  BY <1>2, DeskMaps DEF Prepared, Agree, Same
<1>6. /\ Held(toB, L)
      /\ toB.tile = e.tile /\ toB.tag = e.tag /\ toB.over = e.over /\ toB.groups = e.groups
      /\ toB.pinned = e.pinned /\ toB.pseudo = e.pseudo
      /\ toB.shown = e.shown /\ toB.active = e.active /\ toB.live = e.live
      /\ DOMAIN toB.full = DOMAIN e.full /\ DOMAIN toB.maxi = DOMAIN e.maxi
      /\ \A w \in DOMAIN e.full :
              /\ toB.full[w].output = IF w \in FA \cup TA THEN b ELSE e.full[w].output
              /\ toB.full[w].wasPinned = e.full[w].wasPinned
      /\ \A w \in DOMAIN e.maxi : toB.maxi[w] = IF w \in FA THEN b ELSE e.maxi[w]
  <2> HIDE DEF FA, TA
  <2> QED BY <1>1, <1>2, ModesSent
<1> HIDE DEF toB
<1>7. /\ IsDesk(toA)
      /\ toA.tile = e.tile /\ toA.tag = e.tag /\ toA.over = e.over /\ toA.groups = e.groups
      /\ toA.pinned = e.pinned /\ toA.pseudo = e.pseudo
      /\ toA.shown = e.shown /\ toA.active = e.active /\ toA.live = e.live
      /\ DOMAIN toA.full = DOMAIN e.full /\ DOMAIN toA.maxi = DOMAIN e.maxi
      /\ \A w \in DOMAIN e.full :
              /\ toA.full[w].output = IF w \in FB \cup TB THEN a
                                      ELSE IF w \in FA \cup TA THEN b ELSE e.full[w].output
              /\ toA.full[w].wasPinned = e.full[w].wasPinned
      /\ \A w \in DOMAIN e.maxi : toA.maxi[w] = IF w \in FB THEN a
                                                ELSE IF w \in FA THEN b ELSE e.maxi[w]
  <2> HIDE DEF FA, TA, FB, TB
  <2>1. /\ IsDesk(toA)
        /\ toA.tile = toB.tile /\ toA.tag = toB.tag /\ toA.over = toB.over /\ toA.groups = toB.groups
        /\ toA.pinned = toB.pinned /\ toA.pseudo = toB.pseudo
        /\ toA.shown = toB.shown /\ toA.active = toB.active /\ toA.live = toB.live
        /\ DOMAIN toA.full = DOMAIN toB.full /\ DOMAIN toA.maxi = DOMAIN toB.maxi
        /\ \A w \in DOMAIN toB.full :
                /\ toA.full[w].output = IF w \in FB \cup TB THEN a ELSE toB.full[w].output
                /\ toA.full[w].wasPinned = toB.full[w].wasPinned
        /\ \A w \in DOMAIN toB.maxi : toA.maxi[w] = IF w \in FB THEN a ELSE toB.maxi[w]
    BY <1>1, <1>6, ModesSent
  <2> HIDE DEF toA
  <2> QED BY <1>6, <2>1
<1> HIDE DEF toA
<1>8. /\ IsDesk(r) /\ r.full = toA.full /\ r.maxi = toA.maxi /\ r.pinned = e.pinned
      /\ r.pseudo = e.pseudo /\ r.shown = e.shown \cup floats /\ r.active = e.active
      /\ r.live = e.live
      /\ r.tile = [w \in DOMAIN e.tile |-> other[e.tile[w]]]
      /\ r.tag = [w \in DOMAIN e.tag |-> IF w \in floats THEN key[w] ELSE e.tag[w]]
      /\ r.over = [w \in DOMAIN e.over |-> IF w \in floats THEN key[w][1] ELSE e.over[w]]
  <2> HIDE DEF floats, other, key
  <2> QED BY <1>7 DEF IsDesk, Shown, Landed, Rehomed
<1>9. Retabbed(r.groups, e.groups)
  <2> HIDE DEF r
  <2>1. Swap(d, a, b).groups = r.groups BY <1>3, <1>8 DEF Retile, IsDesk
  <2> QED BY <1>4, <1>5, <2>1 DEF Kept, Rearranged
<1> HIDE DEF r
<1>10. /\ \A w \in DOMAIN e.tile : e.tile[w] \in Key
       /\ \A w \in DOMAIN e.tag : e.tag[w] \in Key
  BY <1>2, TilePairs DEF Key
<1>11. ka \in Key /\ kb \in Key /\ ka # kb /\ ka[1] = a /\ kb[1] = b
  BY <1>1 DEF ActiveKey, Key
<1>12. IsActive(e, ka) /\ IsActive(e, kb) BY <1>5 DEF IsActive, ActiveKey
<1>13. MadeWay(e, d, a, b) /\ fa = MovingFull(d, ActiveKey(d, a)) /\ fb = MovingFull(d, ActiveKey(d, b))
  BY <1>2
<1>14. \A u \in DOMAIN e.full : u \in TA \cup FA =>
         /\ e.full[u].output = a
         /\ \A y \in DOMAIN e.full : e.full[y].output = b => y \in TB \cup FB
  BY <1>2, <1>13, MadeWayMoves DEF MadeWay
<1>15. \A u \in DOMAIN e.full : u \in TB \cup FB =>
         /\ e.full[u].output = b
         /\ \A y \in DOMAIN e.full : e.full[y].output = a => y \in TA \cup FA
  BY <1>2, <1>13, MadeWayMoves DEF MadeWay
<1> HIDE DEF ka, kb, fa, fb
<1>16. /\ \A w \in TA : r.tile[w] = kb
       /\ \A w \in TB : r.tile[w] = ka
       /\ \A w \in DOMAIN e.tile : w \notin TA \cup TB => r.tile[w] = e.tile[w]
  BY <1>8, <1>10, <1>11 DEF TA, TB, TilesOf
<1>17. /\ \A w \in FA : w \in DOMAIN e.tag /\ key[w] = kb
       /\ \A w \in FB : w \in DOMAIN e.tag /\ key[w] = ka
  BY <1>10, <1>11 DEF FA, FB, FloatersOf
<1>18. (TA \cup FA) \cap (TB \cup FB) = {}
  BY <1>5, <1>11 DEF TA, TB, FA, FB, TilesOf, FloatersOf
<1>19. /\ \A w \in DOMAIN e.tile : w \in TA \cup FA <=> e.tile[w] = ka
       /\ \A w \in DOMAIN e.tile : w \in TB \cup FB <=> e.tile[w] = kb
       /\ \A w \in DOMAIN e.tag : w \in TA \cup FA <=> w \in FA
       /\ \A w \in DOMAIN e.tag : w \in TB \cup FB <=> w \in FB
       /\ \A w \in DOMAIN e.tile : w \notin FA /\ w \notin FB
  BY <1>5 DEF TA, TB, FA, FB, TilesOf, FloatersOf
<1>20. /\ \A w \in FA : r.tag[w] = kb
       /\ \A w \in FB : r.tag[w] = ka
       /\ \A w \in DOMAIN e.tag : w \notin FA \cup FB => r.tag[w] = e.tag[w]
       /\ \A w \in FA : w \in DOMAIN e.over => r.over[w] = b
       /\ \A w \in FB : w \in DOMAIN e.over => r.over[w] = a
       /\ \A w \in DOMAIN e.over : w \notin FA \cup FB => r.over[w] = e.over[w]
  BY <1>8, <1>11, <1>17
<1> HIDE DEF key, other
<1>21. \A w \in DOMAIN e.tag : w \in DOMAIN e.over BY <1>5 DEF Moded, OverAt
<1>22. \A w \in DOMAIN e.maxi : w \in DOMAIN e.tag BY <1>5 DEF Moded, MaxiAt
<1>23. \A w \in FA \cup FB : w \in e.shown
  BY <1>5, <1>11, <1>12 DEF Agree, InView, FA, FB, FloatersOf
<1>24. \A w \in FA \cup FB : w \notin e.pinned /\ w \in DOMAIN e.tag /\ (e.tag[w] = ka \/ e.tag[w] = kb)
  BY DEF FA, FB, FloatersOf
<1>25. \A w \in DOMAIN e.tag : w \in DOMAIN r.tag BY <1>8
<1> HIDE DEF TA, TB, FA, FB
<1>26. \A w \in TA \cup FA : Goes(r, e, w, b)
  BY <1>7, <1>8, <1>11, <1>16, <1>18, <1>19, <1>20, <1>21, <1>22 DEF Goes
<1>27. \A w \in TB \cup FB : Goes(r, e, w, a)
  BY <1>7, <1>8, <1>11, <1>16, <1>18, <1>19, <1>20, <1>21, <1>22 DEF Goes
<1>28. \A w : w \notin TA \cup FA /\ w \notin TB \cup FB => Stays(r, e, w)
  <2> SUFFICES ASSUME NEW w, w \notin TA \cup FA /\ w \notin TB \cup FB
               PROVE  Stays(r, e, w)
    OBVIOUS
  <2>1. w \in DOMAIN e.tile => r.tile[w] = e.tile[w] BY <1>16
  <2>2. w \in DOMAIN e.tag => r.tag[w] = e.tag[w] /\ r.over[w] = e.over[w] BY <1>20, <1>21
  <2>3. w \in DOMAIN e.full => r.full[w].output = e.full[w].output BY <1>7, <1>8
  <2>4. w \in DOMAIN e.maxi => r.maxi[w] = e.maxi[w] BY <1>7, <1>8
  <2> QED BY <2>1, <2>2, <2>3, <2>4 DEF Stays
<1>29. Travels(r, e) BY <1>26, <1>27, <1>28 DEF Travels
<1>30. Carried(r, e) BY <1>7, <1>8, <1>9 DEF Carried
<1>31. FullOnce(r)
  <2> SUFFICES ASSUME NEW u \in DOMAIN e.full, NEW v \in DOMAIN e.full,
                      r.full[u].output = r.full[v].output
               PROVE  u = v
    BY <1>30 DEF FullOnce, Carried
  <2>1. FullOnce(e) BY <1>5 DEF Moded
  <2>2. \A y \in DOMAIN e.full :
          r.full[y].output = IF y \in TB \cup FB THEN a
                             ELSE IF y \in TA \cup FA THEN b ELSE e.full[y].output
    BY <1>7, <1>8
  <2>3. CASE u \in TA \cup FA BY <1>14, <1>18, <2>1, <2>2, <2>3 DEF FullOnce
  <2>4. CASE u \in TB \cup FB BY <1>15, <1>18, <2>1, <2>2, <2>4 DEF FullOnce
  <2>5. CASE v \in TA \cup FA BY <1>14, <1>18, <2>1, <2>2, <2>5 DEF FullOnce
  <2>6. CASE v \in TB \cup FB BY <1>15, <1>18, <2>1, <2>2, <2>6 DEF FullOnce
  <2>7. CASE /\ u \notin TA \cup FA /\ u \notin TB \cup FB /\ v \notin TA \cup FA /\ v \notin TB \cup FB
    BY <2>1, <2>2, <2>7 DEF FullOnce
  <2> QED BY <2>3, <2>4, <2>5, <2>6, <2>7
<1>32. Moded(r) /\ Pins(r) = Pins(d) BY <1>5, <1>29, <1>30, <1>31, CarriedModed
<1>33. \A k : IsActive(r, k) <=> IsActive(e, k) BY <1>8, IsActiveSame
<1>34. r.shown = e.shown BY <1>8, <1>23
<1>35. \A w \in DOMAIN e.tile : w \in r.shown => IsActive(r, r.tile[w])
  <2> SUFFICES ASSUME NEW w \in DOMAIN e.tile, w \in e.shown PROVE IsActive(e, r.tile[w])
    BY <1>33, <1>34
  <2>1. IsActive(e, e.tile[w]) BY <1>5 DEF Agree, InView
  <2>2. r.tile[w] = ka \/ r.tile[w] = kb \/ r.tile[w] = e.tile[w] BY <1>16
  <2> QED BY <1>12, <2>1, <2>2
<1>36. \A w \in DOMAIN e.tag : w \in r.shown <=> IsActive(r, r.tag[w]) \/ w \in r.pinned
  <2> SUFFICES ASSUME NEW w \in DOMAIN e.tag
               PROVE  w \in e.shown <=> IsActive(e, r.tag[w]) \/ w \in e.pinned
    BY <1>8, <1>33, <1>34
  <2>1. w \in e.shown <=> IsActive(e, e.tag[w]) \/ w \in e.pinned BY <1>5 DEF Agree, InView
  <2>2. CASE w \in FA \cup FB BY <1>12, <1>20, <1>23, <2>2
  <2>3. CASE w \notin FA \cup FB BY <1>20, <2>1, <2>3
  <2> QED BY <2>2, <2>3
<1>37. DOMAIN r.tile = DOMAIN e.tile /\ DOMAIN r.tag = DOMAIN e.tag BY <1>8
<1>38. InView(r) BY <1>35, <1>36, <1>37 DEF InView
<1>39. DOMAIN r.tile \cap DOMAIN r.tag = {} BY <1>5, <1>37
<1> QED BY <1>8, <1>32, <1>38, <1>39, RetileShows DEF Agree

\* migrate_output_windows, the modes first: the desk f is x with the modes of one
\* output on another.
ModesFled(f, x, from, to) ==
  /\ f.tile = x.tile /\ f.tag = x.tag /\ f.over = x.over /\ f.groups = x.groups
  /\ f.pinned = x.pinned /\ f.pseudo = x.pseudo /\ f.shown = x.shown /\ f.active = x.active
  /\ f.live = x.live
  /\ DOMAIN f.full = DOMAIN x.full /\ DOMAIN f.maxi = DOMAIN x.maxi
  /\ \A w \in DOMAIN x.full :
       /\ f.full[w].output = IF x.full[w].output = from THEN to ELSE x.full[w].output
       /\ f.full[w].wasPinned = x.full[w].wasPinned
  /\ \A w \in DOMAIN x.maxi : f.maxi[w] = IF x.maxi[w] = from THEN to ELSE x.maxi[w]
  /\ \A v, w \in DOMAIN x.full : x.full[v].output = from => x.full[w].output # to

Leavers(d, from) == {w \in DOMAIN d.full : d.full[w].output = from}
Mover(d, from) == IF Leavers(d, from) = {} THEN {} ELSE {CHOOSE w \in Leavers(d, from) : TRUE}
FullFled(d, from, to) ==
  IF Leavers(d, from) = {} THEN d
  ELSE FullTo(Demoted(d, Mover(d, from), to), Mover(d, from), to)
AllFled(d, from, to) ==
  MaxiTo(FullFled(d, from, to),
         {w \in DOMAIN FullFled(d, from, to).maxi : FullFled(d, from, to).maxi[w] = from}, to)

\* The desk e is x with the fullscreen window of one output on another.
CoverFled(e, x, from, to) ==
  /\ e.tile = x.tile /\ e.tag = x.tag /\ e.over = x.over /\ e.groups = x.groups
  /\ e.maxi = x.maxi /\ e.pinned = x.pinned /\ e.pseudo = x.pseudo
  /\ e.shown = x.shown /\ e.active = x.active /\ e.live = x.live
  /\ DOMAIN e.full = DOMAIN x.full
  /\ \A w \in DOMAIN x.full :
       /\ e.full[w].output = IF x.full[w].output = from THEN to ELSE x.full[w].output
       /\ e.full[w].wasPinned = x.full[w].wasPinned

LEMMA CoverFlees ==
  ASSUME NEW L, NEW d, Held(d, L), Agree(d), NEW from, NEW to \in L, to # from
  PROVE  \E x : /\ Held(x, L) /\ Agree(x) /\ Pins(x) = Pins(d) /\ Same(x, d)
                /\ IsDesk(FullFled(d, from, to)) /\ CoverFled(FullFled(d, from, to), x, from, to)
                /\ \A v, w \in DOMAIN x.full : x.full[v].output = from => x.full[w].output # to
<1>1. CASE Leavers(d, from) = {}
  <2>1. FullFled(d, from, to) = d BY <1>1 DEF FullFled
  <2>2. \A w \in DOMAIN d.full : d.full[w].output # from BY <1>1 DEF Leavers
  <2>3. CoverFled(d, d, from, to) BY <2>2 DEF CoverFled
  <2>4. IsDesk(d) /\ Same(d, d) BY HeldIsDesk DEF Same
  <2> QED BY <2>1, <2>2, <2>3, <2>4
<1>2. CASE Leavers(d, from) # {}
  <2> DEFINE M == Mover(d, from)
             x == Demoted(d, M, to)
  <2>1. FullFled(d, from, to) = FullTo(x, M, to) BY <1>2 DEF FullFled
  <2>2. M = Leavers(d, from)
    <3> DEFINE m == CHOOSE w \in Leavers(d, from) : TRUE
    <3>1. m \in Leavers(d, from) BY <1>2
    <3>2. M = {m} BY <1>2 DEF Mover
    <3> HIDE DEF m, M, x
    <3>3. \A w \in Leavers(d, from) : w = m BY <3>1 DEF Agree, Moded, FullOnce, Leavers
    <3> QED BY <3>1, <3>2, <3>3
  <2> HIDE DEF M
  <2>3. /\ Held(x, L) /\ Cleared(x, d, to)
        /\ \A w \in DOMAIN x.full : w \in M \/ x.full[w].output # to
    BY DemotedCleared
  <2> HIDE DEF x
  <2>4. /\ Agree(x) /\ Pins(x) = Pins(d) /\ Same(x, d)
        /\ DOMAIN x.full \subseteq DOMAIN d.full /\ \A y \in DOMAIN x.full : x.full[y] = d.full[y]
    BY <2>3 DEF Cleared
  <2>5. \A w \in DOMAIN x.full : w \in M <=> x.full[w].output = from
    BY <2>2, <2>4 DEF Leavers
  <2>6. IsDesk(x) BY <2>3, HeldIsDesk
  <2>7. x.full \in Maps(FullscreenEntry) BY <2>3, DeskMaps
  <2> DEFINE z == FullTo(x, M, to)
  <2>8. /\ IsDesk(z) /\ z.tile = x.tile /\ z.tag = x.tag /\ z.over = x.over /\ z.groups = x.groups
        /\ z.maxi = x.maxi /\ z.pinned = x.pinned /\ z.pseudo = x.pseudo
        /\ z.shown = x.shown /\ z.active = x.active /\ z.live = x.live
        /\ DOMAIN z.full = DOMAIN x.full
        /\ \A w \in DOMAIN x.full :
             /\ z.full[w].output = IF w \in M THEN to ELSE x.full[w].output
             /\ z.full[w].wasPinned = x.full[w].wasPinned
    BY ONLY <2>6, <2>7, FullToIs
  <2> HIDE DEF z
  <2>9. CoverFled(z, x, from, to) BY <2>5, <2>8 DEF CoverFled
  <2>10. \A v, w \in DOMAIN x.full : x.full[v].output = from => x.full[w].output # to
    <3> SUFFICES ASSUME NEW v \in DOMAIN x.full, NEW w \in DOMAIN x.full, x.full[v].output = from,
                        x.full[w].output = to
                 PROVE  FALSE
      OBVIOUS
    <3>1. w \in M BY <2>3
    <3> QED BY <2>5, <3>1
  <2>11. FullFled(d, from, to) = z BY <2>1 DEF z
  <2> QED BY ONLY <2>3, <2>4, <2>8, <2>9, <2>10, <2>11
<1> QED BY <1>1, <1>2

LEMMA ModesFlee ==
  ASSUME NEW L, NEW d, Held(d, L), Agree(d), NEW from, NEW to \in L, to # from
  PROVE  \E x : /\ Held(x, L) /\ Agree(x) /\ Pins(x) = Pins(d) /\ Same(x, d)
                /\ IsDesk(AllFled(d, from, to)) /\ ModesFled(AllFled(d, from, to), x, from, to)
<1> DEFINE e == FullFled(d, from, to)
           S == {w \in DOMAIN e.maxi : e.maxi[w] = from}
           f == MaxiTo(e, S, to)
<1>1. PICK x : /\ Held(x, L) /\ Agree(x) /\ Pins(x) = Pins(d) /\ Same(x, d)
               /\ IsDesk(e) /\ CoverFled(e, x, from, to)
               /\ \A v, w \in DOMAIN x.full : x.full[v].output = from => x.full[w].output # to
  BY CoverFlees
<1>2. AllFled(d, from, to) = f BY DEF AllFled
<1> HIDE DEF e
<1>3. \A w \in DOMAIN e.maxi : w \in S <=> e.maxi[w] = from OBVIOUS
<1> HIDE DEF S
<1>4. IsDesk(e) BY <1>1
<1>5. /\ IsDesk(f) /\ f.tile = e.tile /\ f.tag = e.tag /\ f.over = e.over /\ f.groups = e.groups
      /\ f.full = e.full /\ f.pinned = e.pinned /\ f.pseudo = e.pseudo
      /\ f.shown = e.shown /\ f.active = e.active /\ f.live = e.live
      /\ f.maxi = [w \in DOMAIN e.maxi |-> IF w \in S THEN to ELSE e.maxi[w]]
  BY ONLY <1>4, MaxiToIs
<1> HIDE DEF f
<1>6. CoverFled(e, x, from, to) BY <1>1
<1>7. \A v, w \in DOMAIN x.full : x.full[v].output = from => x.full[w].output # to BY <1>1
<1>8. ModesFled(f, x, from, to) BY ONLY <1>3, <1>5, <1>6, <1>7 DEF CoverFled, ModesFled
<1> QED BY ONLY <1>1, <1>2, <1>5, <1>8

\* migrate_output_windows
LEMMA MigrateAgrees ==
  ASSUME NEW L, NEW d, Held(d, L), Agree(d), NEW from, NEW to \in L, to # from
  PROVE  Agree(Migrate(d, from, to)) /\ Pins(Migrate(d, from, to)) = Pins(d)
<1> DEFINE home == [k \in Key |-> IF k[1] = from THEN <<to, k[2]>> ELSE k]
           f == AllFled(d, from, to)
           in == {w \in DOMAIN f.tile : f.tile[w][1] = from}
                   \cup {w \in DOMAIN f.tag : f.tag[w][1] = from}
           key == [w \in in |-> <<to, IF IsTiled(f, w) THEN f.tile[w][2] ELSE f.tag[w][2]>>]
           floats == in \cap DOMAIN f.tag
           open == {w \in floats : w \in f.pinned \/ IsActive(f, key[w])}
           shut == {w \in in : ~IsActive(f, key[w])}
           l == Landed(f, floats, key)
           r == [l EXCEPT !.tile = [w \in DOMAIN @ |-> IF w \in in THEN key[w] ELSE @[w]],
                          !.shown = (@ \ shut) \cup open]
           h == Rehomed(r, home)
<1>1. Migrate(d, from, to) = h
  BY DEF Migrate, Resettled, AllFled, FullFled, Mover, Leavers
<1>2. Kept(h, d, L)
  <2>1. Placed(d, L) BY HeldPlaced
  <2> HIDE DEF h
  <2> QED BY <1>1, <2>1, MigrateKept
<1>3. PICK x : /\ Held(x, L) /\ Agree(x) /\ Pins(x) = Pins(d) /\ Same(x, d)
               /\ IsDesk(f) /\ ModesFled(f, x, from, to)
  BY ModesFlee
<1> HIDE DEF f, home
<1>4. \A w \in in : key[w] = <<to, IF w \in DOMAIN f.tile THEN f.tile[w][2] ELSE f.tag[w][2]>>
  BY DEF IsTiled
<1> HIDE DEF key
<1>5. /\ IsDesk(l) /\ l.tile = f.tile /\ l.groups = f.groups /\ l.full = f.full /\ l.maxi = f.maxi
      /\ l.pinned = f.pinned /\ l.pseudo = f.pseudo
      /\ l.shown = f.shown /\ l.active = f.active /\ l.live = f.live
      /\ l.tag = [w \in DOMAIN f.tag |-> IF w \in floats THEN key[w] ELSE f.tag[w]]
      /\ l.over = [w \in DOMAIN f.over |-> IF w \in floats THEN key[w][1] ELSE f.over[w]]
  <2> HIDE DEF floats
  <2> QED BY <1>3 DEF IsDesk, Landed
<1> HIDE DEF l
<1>6. /\ IsDesk(h) /\ h.full = f.full /\ h.maxi = f.maxi /\ h.pinned = f.pinned
      /\ h.pseudo = f.pseudo /\ h.active = f.active /\ h.live = f.live
      /\ h.tag = l.tag /\ h.over = l.over
      /\ h.tile = [w \in DOMAIN f.tile |-> IF w \in in THEN key[w] ELSE f.tile[w]]
      /\ h.shown = (f.shown \ shut) \cup open
  <2> HIDE DEF in, shut, open
  <2> QED BY <1>5 DEF IsDesk, Rehomed
<1> HIDE DEF h
<1>7. /\ f.tile = x.tile /\ f.tag = x.tag /\ f.over = x.over /\ f.groups = x.groups
      /\ f.pinned = x.pinned /\ f.pseudo = x.pseudo /\ f.shown = x.shown /\ f.active = x.active
  BY <1>3 DEF ModesFled
<1>8. DOMAIN x.tile \cap DOMAIN x.tag = {} /\ Moded(x) BY <1>3, DeskMaps DEF Agree
<1>9. /\ \A w \in DOMAIN x.tile : w \in in <=> x.tile[w][1] = from
      /\ \A w \in DOMAIN x.tag : w \in in <=> x.tag[w][1] = from
      /\ \A w \in in : key[w][1] = to
      /\ \A w \in in : w \in DOMAIN x.tile \cup DOMAIN x.tag
  BY <1>4, <1>7, <1>8
<1>10. \A w \in DOMAIN x.tag : w \in floats <=> w \in in BY <1>7
<1> HIDE DEF in
<1>11. /\ \A w \in DOMAIN x.full : /\ h.full[w].output = IF x.full[w].output = from THEN to
                                                         ELSE x.full[w].output
                                   /\ h.full[w].wasPinned = x.full[w].wasPinned
       /\ \A w \in DOMAIN x.maxi : h.maxi[w] = IF x.maxi[w] = from THEN to ELSE x.maxi[w]
       /\ DOMAIN h.full = DOMAIN x.full /\ DOMAIN h.maxi = DOMAIN x.maxi
  BY <1>3, <1>6 DEF ModesFled
<1>12. /\ DOMAIN h.tile = DOMAIN x.tile /\ DOMAIN h.tag = DOMAIN x.tag /\ DOMAIN h.over = DOMAIN x.over
       /\ \A w \in DOMAIN x.tile : h.tile[w] = IF w \in in THEN key[w] ELSE x.tile[w]
       /\ \A w \in DOMAIN x.tag : h.tag[w] = IF w \in in THEN key[w] ELSE x.tag[w]
       /\ \A w \in DOMAIN x.tag \cap DOMAIN x.over :
            h.over[w] = IF w \in in THEN key[w][1] ELSE x.over[w]
  <2> HIDE DEF floats
  <2> QED BY <1>5, <1>6, <1>7, <1>10
<1>13. Carried(h, x)
  <2>1. Retabbed(h.groups, x.groups) BY <1>2, <1>3 DEF Kept, Rearranged, Same
  <2> QED BY <1>6, <1>7, <1>11, <1>12, <2>1 DEF Carried
<1>14. \A w \in DOMAIN x.tag : w \in DOMAIN x.over BY <1>8 DEF Moded, OverAt
<1>15. \A w \in DOMAIN x.maxi : w \in DOMAIN x.tag /\ x.tag[w][1] = x.maxi[w]
  BY <1>8 DEF Moded, MaxiAt
<1>16. \A w \in DOMAIN x.full : \/ w \in DOMAIN x.tile /\ x.tile[w][1] = x.full[w].output
                                \/ w \in DOMAIN x.tag /\ x.tag[w][1] = x.full[w].output
  BY <1>8 DEF Moded, FullAt
<1>17. Travels(h, x)
  <2> SUFFICES ASSUME NEW w PROVE Stays(h, x, w) \/ \E o : Goes(h, x, w, o) BY DEF Travels
  <2>1. /\ w \in DOMAIN x.full => (w \in in <=> x.full[w].output = from)
        /\ w \in DOMAIN x.maxi => (w \in in <=> x.maxi[w] = from)
    BY <1>8, <1>9, <1>15, <1>16
  <2>2. CASE w \in in
    <3>1. Goes(h, x, w, to) BY <1>9, <1>11, <1>12, <1>14, <2>1, <2>2 DEF Goes
    <3> QED BY <3>1
  <2>3. CASE w \notin in
    <3>1. Stays(h, x, w) BY <1>11, <1>12, <1>14, <2>1, <2>3 DEF Stays
    <3> QED BY <3>1
  <2> QED BY <2>2, <2>3
<1>18. FullOnce(h)
  <2> SUFFICES ASSUME NEW u \in DOMAIN x.full, NEW v \in DOMAIN x.full,
                      h.full[u].output = h.full[v].output
               PROVE  u = v
    BY <1>11 DEF FullOnce
  <2>1. x.full[u].output = from => x.full[v].output # to BY <1>3 DEF ModesFled
  <2>2. x.full[v].output = from => x.full[u].output # to BY <1>3 DEF ModesFled
  <2>3. x.full[u].output = x.full[v].output BY <1>11, <2>1, <2>2
  <2> QED BY <1>8, <2>3 DEF Moded, FullOnce
<1>19. Moded(h) /\ Pins(h) = Pins(d) BY <1>3, <1>8, <1>13, <1>17, <1>18, CarriedModed
<1>20. \A k : /\ IsActive(h, k) <=> IsActive(x, k)
              /\ IsActive(f, k) <=> IsActive(x, k)
  BY <1>6, <1>7, IsActiveSame
<1>21. InView(x) BY <1>3 DEF Agree
<1>22. \A w \in DOMAIN h.tile : w \in h.shown => IsActive(h, h.tile[w])
  <2> SUFFICES ASSUME NEW w \in DOMAIN x.tile, w \in h.shown PROVE IsActive(x, h.tile[w])
    BY <1>12, <1>20
  <2>1. w \notin open BY <1>7, <1>8
  <2>2. w \in x.shown /\ w \notin shut BY <1>6, <1>7, <2>1
  <2>3. w \in in => IsActive(x, key[w]) BY <1>20, <2>2
  <2> QED BY <1>12, <1>21, <2>2, <2>3 DEF InView
<1>23. \A w \in DOMAIN h.tag : w \in h.shown <=> IsActive(h, h.tag[w]) \/ w \in h.pinned
  <2> SUFFICES ASSUME NEW w \in DOMAIN x.tag
               PROVE  w \in h.shown <=> IsActive(x, h.tag[w]) \/ w \in x.pinned
    BY <1>6, <1>7, <1>12, <1>20
  <2>1. w \in x.shown <=> IsActive(x, x.tag[w]) \/ w \in x.pinned BY <1>21 DEF InView
  <2>2. w \in open <=> w \in in /\ (w \in x.pinned \/ IsActive(x, key[w])) BY <1>7, <1>10, <1>20
  <2>3. w \in shut <=> w \in in /\ ~IsActive(x, key[w]) BY <1>20
  <2> HIDE DEF open, shut
  <2> QED BY <1>6, <1>7, <1>12, <2>1, <2>2, <2>3
<1>24. InView(h) BY <1>22, <1>23 DEF InView
<1> QED BY <1>1, <1>19, <1>24 DEF Agree

\* adopt_orphaned_output_windows
LEMMA AdoptAgrees ==
  ASSUME NEW L, NEW d, Held(d, L), Agree(d), NEW o \in L,
         NEW s, Len(s) \in Nat, \A i \in 1 .. Len(s) : s[i] # o
  PROVE  /\ Held(Adopt(d, o, s), L) /\ Agree(Adopt(d, o, s)) /\ Pins(Adopt(d, o, s)) = Pins(d)
<1> DEFINE n == Len(s)
           Good(e) == Held(e, L) /\ Agree(e) /\ Pins(e) = Pins(d)
<1>1. PICK f : Adopting(d, o, s, n, f) /\ Adopt(d, o, s) = f[n] BY AdoptIs
<1>2. \A i \in 0 .. n : f[i] = IF i = 0 THEN d ELSE Migrate(f[i - 1], s[i], o)
  BY <1>1, Zenon DEF Adopting
<1> DEFINE Bad == {i \in 0 .. n : ~Good(f[i])}
<1>3. Good(d) OBVIOUS
<1>4. \A e, from : Good(e) /\ from # o => Good(Migrate(e, from, o))
  <2> SUFFICES ASSUME NEW e, NEW from, Good(e), from # o PROVE Good(Migrate(e, from, o)) OBVIOUS
  <2>1. Held(Migrate(e, from, o), L)
    <3>1. Placed(e, L) BY HeldPlaced
    <3> QED BY <3>1, MigrateKept DEF Kept
  <2>2. Agree(Migrate(e, from, o)) /\ Pins(Migrate(e, from, o)) = Pins(e) BY MigrateAgrees
  <2> QED BY <2>1, <2>2
<1> HIDE DEF Good
<1>5. Bad = {}
  <2>1. SUFFICES ASSUME Bad # {} PROVE FALSE OBVIOUS
  <2>2. PICK m \in Bad : \A k \in Bad : m <= k
    <3>1. Bad \in SUBSET Nat OBVIOUS
    <3> HIDE DEF Bad
    <3> QED BY <2>1, <3>1, Lowest
  <2>3. m # 0 BY <1>2, <1>3, <2>2
  <2>4. m \in 1 .. n /\ m - 1 \in 0 .. n /\ ~(m <= m - 1) BY <2>2, <2>3
  <2>5. m - 1 \notin Bad
    <3> HIDE DEF Bad
    <3> QED BY <2>2, <2>4
  <2>6. Good(f[m - 1]) /\ s[m] # o BY <2>4, <2>5
  <2>7. f[m] = Migrate(f[m - 1], s[m], o) BY <1>2, <2>3, <2>4
  <2> QED BY <1>4, <2>2, <2>6, <2>7
<1>6. Good(f[n]) 
  <2>1. n \in 0 .. n OBVIOUS
  <2> QED BY <1>5, <2>1
<1> QED BY <1>1, <1>6 DEF Good

\* Which outputs are lit does not matter to what is in view.
LEMMA LitAgrees ==
  ASSUME NEW L, NEW d, Held(d, L), NEW live
  PROVE  LET e == [d EXCEPT !.live = live] IN
         IsDesk(e) /\ Pins(e) = Pins(d) /\ (Agree(d) => Agree(e))
<1> DEFINE e == [d EXCEPT !.live = live]
<1>1. IsDesk(d) BY HeldIsDesk
<1>2. IsDesk(e) /\ SameModes(e, d) /\ e.shown = d.shown /\ e.active = d.active
  BY <1>1 DEF IsDesk, SameModes
<1> HIDE DEF e
<1>3. Pins(e) = Pins(d) /\ (Moded(d) => Moded(e)) BY <1>2, SameModesModed
<1>4. InView(d) => InView(e) BY <1>2 DEF InView, SameModes, IsActive
<1> QED BY <1>2, <1>3, <1>4 DEF Agree, e

\* handle_connector_change: a display leaves.
LEMMA DisconnectSettles ==
  ASSUME NEW d, Held(d, Reach(d)), Agree(d), NEW o \in d.live, NEW fallback,
         IF d.live = {o} THEN fallback = NoOutput ELSE fallback \in d.live \ {o}
  PROVE  Settled(Disconnect(d, o, fallback)) /\ Pins(Disconnect(d, o, fallback)) = Pins(d)
<1> DEFINE e == IF fallback = NoOutput THEN d ELSE Migrate(d, o, fallback)
           L == Reach(d)
           live == e.live \ {o}
           b == [e EXCEPT !.live = live]
<1>1. L = d.live /\ L \subseteq Output BY DEF Reach, Held
<1>2. Held(e, L) /\ Agree(e) /\ Pins(e) = Pins(d)
  <2>1. CASE fallback = NoOutput BY <2>1
  <2>2. CASE fallback # NoOutput
    <3>1. fallback \in L /\ fallback # o BY <1>1, <2>2
    <3>2. Placed(d, L) BY HeldPlaced
    <3>3. Held(Migrate(d, o, fallback), L) BY <3>1, <3>2, MigrateKept DEF Kept
    <3>4. Agree(Migrate(d, o, fallback)) /\ Pins(Migrate(d, o, fallback)) = Pins(d)
      BY <3>1, MigrateAgrees
    <3> QED BY <2>2, <3>3, <3>4
  <2> QED BY <2>1, <2>2
<1>3. Disconnect(d, o, fallback) = Retile(b)
  <2>1. IsDesk(e) BY <1>2, HeldIsDesk
  <2> HIDE DEF e
  <2>2. [e EXCEPT !.live = @ \ {o}] = b BY <2>1 DEF IsDesk
  <2> QED BY <2>2 DEF Disconnect, e
<1> HIDE DEF e, L, live
<1>4. IsDesk(b) /\ Pins(b) = Pins(e) /\ Agree(b) BY <1>2, LitAgrees
<1>5. DOMAIN b.tile \cap DOMAIN b.tag = {}
  <2>1. DOMAIN e.tile \cap DOMAIN e.tag = {} /\ IsDesk(e) BY <1>2, HeldIsDesk, DeskMaps
  <2> QED BY <2>1 DEF IsDesk
<1> HIDE DEF b
<1> QED BY <1>2, <1>3, <1>4, <1>5, RetileShows

\* The desk settles with the pins it had.
Settles(e, d) == Settled(e) /\ Pins(e) = Pins(d)

\* handle_connector_change: a display comes.
LEMMA ConnectSettles ==
  ASSUME NEW d, Held(d, Reach(d)), Agree(d), "outputPins" \notin Features, NEW o \in Output,
         NEW lit, lit = [d EXCEPT !.live = @ \cup {o}],
         NEW orphaned \in SetToSeqs(Owned(lit) \ lit.live),
         NEW e, e = Adopt(lit, o, orphaned),
         NEW displaced \in SetToSeqs(Displaced(e, o))
  PROVE  Settles(Recall(e, o, displaced), d)
<1> DEFINE gone == Owned(lit) \ lit.live
<1>1. Held(d, Output) BY WiderHeld
<1>2. Held(lit, Output) /\ o \in lit.live /\ Agree(lit) /\ Pins(lit) = Pins(d)
  <2> DEFINE live == d.live \cup {o}
  <2>1. d \in Desks(Output) /\ live \in SUBSET Output BY <1>1 DEF Held, Desks
  <2>2. lit = [d EXCEPT !.live = live] BY <2>1 DEF Desks
  <2>5. o \in live OBVIOUS
  <2> HIDE DEF live
  <2>3. Held(lit, Output) BY <1>1, <2>1, <2>2, LitHeld
  <2>4. lit.live = live BY <2>1, <2>2 DEF Desks
  <2>6. Agree(lit) /\ Pins(lit) = Pins(d) BY <1>1, <2>2, LitAgrees
  <2> QED BY <2>3, <2>4, <2>5, <2>6
<1>3. Owned(lit) \subseteq Output BY <1>2, OwnedOutputs
<1>4. IsFiniteSet(gone) BY <1>3, FiniteAssumption, FS_Subset
<1>5. Len(orphaned) \in Nat /\ \A i \in 1 .. Len(orphaned) : orphaned[i] \in gone
  <2> HIDE DEF gone
  <2>1. orphaned \in SetToSeqs(gone) BY DEF gone
  <2> QED BY <1>4, <2>1, Orders
<1>6. \A i \in 1 .. Len(orphaned) : orphaned[i] # o BY <1>2, <1>5
<1>7. Held(e, Output) /\ Agree(e) /\ Pins(e) = Pins(lit)
  <2>1. Held(lit, Output) /\ Agree(lit) BY <1>2
  <2>2. Len(orphaned) \in Nat BY <1>5
  <2> HIDE DEF gone
  <2> QED BY <1>6, <2>1, <2>2, AdoptAgrees
<1>8. Recall(e, o, displaced) = Retile(e) BY <1>7, NothingRecalled
<1> QED BY <1>2, <1>7, <1>8, RetileSettles DEF Settles

\* The desk e is d with tabs without modes put elsewhere.
Regrouped(e, d) ==
  /\ IsDesk(e) /\ e.tag = d.tag /\ e.over = d.over /\ e.full = d.full /\ e.maxi = d.maxi
  /\ e.pinned = d.pinned /\ e.pseudo = d.pseudo /\ e.active = d.active
  /\ e.shown \subseteq d.shown
  /\ \A w \in DOMAIN d.tag : w \in d.shown => w \in e.shown
  /\ \A w \in DOMAIN d.tile : w \in DOMAIN d.full \/ w \in d.pseudo =>
       w \in DOMAIN e.tile /\ e.tile[w] = d.tile[w]
  /\ \A w \in DOMAIN e.tile : \/ w \in DOMAIN d.tile /\ e.tile[w] = d.tile[w]
                              \/ w \notin DOMAIN d.tag /\ (w \in e.shown => IsActive(d, e.tile[w]))
  /\ Untabbed(e)

LEMMA RegroupedSettles ==
  ASSUME NEW d, NEW e, DOMAIN d.tile \cap DOMAIN d.tag = {}, Agree(d), Regrouped(e, d)
  PROVE  Settled(Retile(e)) /\ Pins(Retile(e)) = Pins(d) /\ SameModes(Retile(e), e)
         /\ Retile(e).active = d.active /\ IsDesk(Retile(e)) /\ Agree(e)
         /\ DOMAIN e.tile \cap DOMAIN e.tag = {}
<1> USE DEF Regrouped
<1>1. Pins(e) = Pins(d) BY DEF Pins
<1>2. PinsFloat(e) /\ MaxiAt(e) /\ FullOnce(e) /\ OverAt(e)
  BY DEF Agree, Moded, PinsFloat, MaxiAt, FullOnce, OverAt
<1>3. PseudoAt(e) /\ FullAt(e) BY DEF Agree, Moded, PseudoAt, FullAt
<1>4. InView(e)
  <2>1. \A k : IsActive(e, k) <=> IsActive(d, k) BY DEF IsActive
  <2>2. InView(d) BY DEF Agree
  <2>3. \A w \in DOMAIN e.tile : w \in e.shown => IsActive(e, e.tile[w]) BY <2>1, <2>2 DEF InView
  <2>4. \A w \in DOMAIN e.tag : w \in e.shown <=> IsActive(e, e.tag[w]) \/ w \in e.pinned
    BY <2>1, <2>2 DEF InView
  <2> QED BY <2>3, <2>4 DEF InView
<1>5. Agree(e) BY <1>2, <1>3, <1>4 DEF Agree, Moded
<1>6. DOMAIN e.tile \cap DOMAIN e.tag = {} OBVIOUS
<1>7. IsDesk(e) /\ e.active = d.active OBVIOUS
<1> QED BY ONLY <1>1, <1>5, <1>6, <1>7, RetileShows

\* The tabs of a group have no modes, and but for the visible one no place.
LEMMA TabsAre ==
  ASSUME NEW L, NEW d, Held(d, L), Moded(d), NEW g \in d.groups
  PROVE  /\ \A w \in Members(g) : w \notin DOMAIN d.full /\ w \notin d.pseudo
         /\ \A w \in ParkedIn(g) : w \notin DOMAIN d.tile /\ w \notin DOMAIN d.tag /\ w \notin d.shown
         /\ g \in Groups(L) /\ Len(g.members) \in Nat
         /\ Members(g) = {g.members[i] : i \in 1 .. Len(g.members)} /\ Members(g) \subseteq Window
         /\ Len(g.members) > 1 /\ g.active \in 1 .. Len(g.members)
         /\ \A i, j \in 1 .. Len(g.members) : g.members[i] = g.members[j] => i = j
<1>1. d.groups \in SUBSET Groups(L) /\ Apart(d.groups) BY DEF Held, Desks
<1>2. \A w \in Members(g) : w \notin DOMAIN d.full /\ w \notin d.pseudo BY DEF Moded, Untabbed
<1>3. \A w \in ParkedIn(g) : w \notin DOMAIN d.tile /\ w \notin DOMAIN d.tag /\ w \notin d.shown
  <2>1. \A w \in ParkedIn(g) : w \in Parked(d) BY DEF Parked
  <2> QED BY <2>1 DEF Held, Once
<1>4. g \in Groups(L) BY <1>1
<1>5. g.members \in Seq(Window) BY <1>4 DEF Groups
<1>6. Len(g.members) \in Nat BY <1>5
<1>7. /\ Members(g) = {g.members[i] : i \in 1 .. Len(g.members)} /\ Members(g) \subseteq Window
  BY <1>1, GroupTabs
<1>8. /\ Len(g.members) > 1 /\ g.active \in 1 .. Len(g.members)
      /\ \A i, j \in 1 .. Len(g.members) : g.members[i] = g.members[j] => i = j
  BY <1>1 DEF Apart
<1> QED BY <1>2, <1>3, <1>4, <1>6, <1>7, <1>8

\* group_activate_tab
LEMMA ActivateTabAgrees ==
  ASSUME NEW L, NEW d, Held(d, L), Settled(d), NEW g \in d.groups, NEW tab \in 1 .. Len(g.members)
  PROVE  Settled(ActivateTab(d, g, tab)) /\ Pins(ActivateTab(d, g, tab)) = Pins(d)
<1> DEFINE old == ActiveTab(g)
           new == g.members[tab]
           g1 == [g EXCEPT !.active = tab]
           G == (d.groups \ {g}) \cup {g1}
           tile == Drop(Put(d.tile, new, d.tile[old]), {old})
           e == [d EXCEPT !.groups = G, !.tile = tile, !.shown = d.shown \ {old}]
<1>1. IsDesk(d) /\ DOMAIN d.tile \cap DOMAIN d.tag = {} BY HeldIsDesk, DeskMaps
<1>2. Agree(d) /\ Moded(d) BY DEF Settled, Agree
<1>3. ActivateTab(d, g, tab) = IF tab = g.active \/ ~IsTiled(d, old) THEN d ELSE Retile(e)
  BY <1>1 DEF ActivateTab, Hidden, IsDesk
<1>4. SUFFICES ASSUME tab # g.active, IsTiled(d, old)
               PROVE  Settled(Retile(e)) /\ Pins(Retile(e)) = Pins(d)
  <2> HIDE DEF e
  <2> QED BY <1>3
<1>5. /\ \A w \in Members(g) : w \notin DOMAIN d.full /\ w \notin d.pseudo
      /\ \A w \in ParkedIn(g) : w \notin DOMAIN d.tile /\ w \notin DOMAIN d.tag /\ w \notin d.shown
      /\ g \in Groups(L)
      /\ Members(g) = {g.members[i] : i \in 1 .. Len(g.members)}
      /\ g.active \in 1 .. Len(g.members)
      /\ \A i, j \in 1 .. Len(g.members) : g.members[i] = g.members[j] => i = j
  BY <1>2, TabsAre
<1>6. new \in Members(g) /\ old \in Members(g) /\ new # old BY <1>4, <1>5 DEF ActiveTab
<1>7. new \in ParkedIn(g) BY <1>6 DEF ParkedIn
<1>8. Members(g1) = Members(g) BY <1>5 DEF Members, Groups
<1> HIDE DEF g1
<1>9. \A h \in G : \A w \in Members(h) : w \notin DOMAIN d.full /\ w \notin d.pseudo
  BY <1>2, <1>5, <1>8 DEF Moded, Untabbed
<1> HIDE DEF G
<1>10. old \in DOMAIN d.tile BY <1>4 DEF IsTiled
<1>11. /\ DOMAIN tile = (DOMAIN d.tile \cup {new}) \ {old}
       /\ \A x \in DOMAIN d.tile \ {old, new} : tile[x] = d.tile[x]
  <2> HIDE DEF old, new
  <2> QED BY DEF Put, Drop, Restrict
<1> HIDE DEF tile
<1>12. /\ IsDesk(e) /\ e.tag = d.tag /\ e.over = d.over /\ e.full = d.full /\ e.maxi = d.maxi
       /\ e.pinned = d.pinned /\ e.pseudo = d.pseudo /\ e.active = d.active
       /\ e.shown = d.shown \ {old} /\ e.tile = tile /\ e.groups = G
  BY <1>1 DEF IsDesk
<1> HIDE DEF e, old, new
<1>13. Untabbed(e) BY <1>9, <1>12 DEF Untabbed
<1>14. Regrouped(e, d) BY <1>1, <1>5, <1>6, <1>7, <1>10, <1>11, <1>12, <1>13 DEF Regrouped
<1> QED BY <1>1, <1>2, <1>14, RegroupedSettles

\* cycle_tab
LEMMA CycleTabAgrees ==
  ASSUME NEW L, NEW d, Held(d, L), Settled(d), NEW w, NEW forward
  PROVE  Settled(CycleTab(d, w, forward)) /\ Pins(CycleTab(d, w, forward)) = Pins(d)
<1> DEFINE g == GroupOf(d, w)
           len == Len(g.members)
           next == IF forward THEN (g.active % len) + 1 ELSE ((g.active + len - 2) % len) + 1
<1>1. CASE ~IsGrouped(d, w) BY <1>1 DEF CycleTab
<1>2. CASE IsGrouped(d, w)
  <2>1. CycleTab(d, w, forward) = ActivateTab(d, g, next) BY <1>2 DEF CycleTab
  <2>2. g \in d.groups BY <1>2, GroupOfTab
  <2>3. g \in Groups(L) /\ len > 1 /\ g.active \in 1 .. len /\ len \in Nat
    BY <2>2, TabsAre DEF Settled, Agree
  <2> HIDE DEF g, len
  <2>5. /\ g.active % len \in 0 .. len - 1
        /\ (g.active + len - 2) % len \in 0 .. len - 1
    BY <2>3
  <2>6. next \in 1 .. len BY <2>3, <2>5
  <2> HIDE DEF next
  <2> QED BY <2>1, <2>2, <2>6, ActivateTabAgrees DEF len
<1> QED BY <1>1, <1>2

\* activate_toplevel
LEMMA ActivateAgrees ==
  ASSUME NEW L, NEW d, Held(d, L), Settled(d), NEW w \in d.mapped
  PROVE  Settled(Activate(d, w)) /\ Pins(Activate(d, w)) = Pins(d)
<1> DEFINE key == IF IsGrouped(d, w) THEN GroupOf(d, w).home
                  ELSE IF IsTiled(d, w) THEN d.tile[w] ELSE d.tag[w]
           goes == ~IsActive(d, key) /\ w \notin d.pinned /\ key[1] \in d.live
           e == IF goes THEN Switch(d, key[1], key[2]) ELSE d
           g == GroupOf(e, w)
           i == CHOOSE j \in DOMAIN g.members : g.members[j] = w
<1>1. /\ d.tile \in Maps(Keys(L)) /\ d.tag \in Maps(Keys(L)) /\ d.groups \subseteq Groups(L)
      /\ Once(d, d.mapped) /\ L \subseteq Output
  BY DEF Held, Desks
<1>2. key \in Keys(L)
  <2>1. CASE IsGrouped(d, w)
    <3>1. GroupOf(d, w) \in Groups(L) BY <1>1, <2>1, GroupOfTab
    <3>2. GroupOf(d, w).home \in Keys(L) BY <3>1 DEF Groups
    <3> QED BY <2>1, <3>2
  <2>2. CASE ~IsGrouped(d, w) /\ IsTiled(d, w) BY <1>1, <2>2, MapsType DEF IsTiled
  <2>3. CASE ~IsGrouped(d, w) /\ ~IsTiled(d, w)
    <3>1. w \notin Parked(d) BY <2>3 DEF Parked, ParkedIn, IsGrouped
    <3>2. w \in DOMAIN d.tag BY <1>1, <2>3, <3>1 DEF Once, IsTiled
    <3> QED BY <1>1, <2>3, <3>2, MapsType
  <2> QED BY <2>1, <2>2, <2>3
<1>5. Activate(d, w) = IF ~IsGrouped(e, w) THEN e ELSE ActivateTab(e, g, i)
  BY DEF Activate
<1> HIDE DEF key, goes
<1>3. key[1] \in Output /\ key[2] \in Workspace BY <1>1, <1>2 DEF Keys
<1>4. Held(e, L) /\ Settled(e) /\ Pins(e) = Pins(d)
  <2>1. CASE goes
    <3>1. Held(Switch(d, key[1], key[2]), L) BY <1>3, SwitchKept DEF Kept
    <3>2. Settled(Switch(d, key[1], key[2])) /\ Pins(Switch(d, key[1], key[2])) = Pins(d)
      BY <1>3, SwitchAgrees
    <3> QED BY <2>1, <3>1, <3>2
  <2>2. CASE ~goes BY <2>2
  <2> QED BY <2>1, <2>2
<1> HIDE DEF e
<1>6. CASE ~IsGrouped(e, w) BY <1>4, <1>5, <1>6
<1>7. CASE IsGrouped(e, w)
  <2>1. g \in e.groups /\ w \in Members(g) BY <1>7, GroupOfTab
  <2>2. e.groups \in SUBSET Groups(L) BY <1>4 DEF Held, Desks
  <2>3. g \in Groups(L) BY <2>1, <2>2
  <2> HIDE DEF g
  <2>4. DOMAIN g.members = 1 .. Len(g.members) BY <2>3 DEF Groups
  <2>5. \E j \in DOMAIN g.members : g.members[j] = w BY <2>1 DEF Members, Range
  <2>6. i \in 1 .. Len(g.members) BY <2>4, <2>5
  <2> HIDE DEF i
  <2> QED BY <1>4, <1>5, <1>7, <2>1, <2>6, ActivateTabAgrees
<1> QED BY <1>6, <1>7

\* group_with: tiles without modes become tabs.
LEMMA GroupWithAgrees ==
  ASSUME NEW L, NEW d, Held(d, L), Settled(d), NEW a, NEW b
  PROVE  Settled(GroupWith(d, a, b)) /\ Pins(GroupWith(d, a, b)) = Pins(d)
<1> DEFINE g == GroupOf(d, a)
           anchor == IF IsGrouped(d, a) THEN ActiveTab(g) ELSE a
           plain(w) == IsTiled(d, w) /\ ~IsFull(d, w) /\ w \notin d.pseudo
           joined == IF IsGrouped(d, a) THEN [g EXCEPT !.members = Append(@, b)]
                     ELSE [members |-> <<a, b>>, active |-> 1, home |-> d.tile[a]]
           old == IF IsGrouped(d, a) THEN {g} ELSE {}
           G == (d.groups \ old) \cup {joined}
           tile == Drop(d.tile, {b})
           e == [d EXCEPT !.groups = G, !.tile = tile, !.shown = d.shown \ {b}]
           no == \/ a = b \/ {a, b} \ d.shown # {} \/ ~plain(a) \/ ~plain(b) \/ IsGrouped(d, b)
                 \/ ~IsTiled(d, anchor) \/ d.tile[anchor] # d.tile[b]
<1>1. IsDesk(d) /\ DOMAIN d.tile \cap DOMAIN d.tag = {} /\ DOMAIN d.tile \subseteq Window
  BY HeldIsDesk, DeskMaps
<1>2. Agree(d) /\ Moded(d) BY DEF Settled, Agree
<1>3. GroupWith(d, a, b) = IF no THEN d ELSE Retile(e)
  BY <1>1 DEF GroupWith, IsDesk
<1>4. SUFFICES ASSUME ~no PROVE Settled(Retile(e)) /\ Pins(Retile(e)) = Pins(d)
  <2> HIDE DEF e, no
  <2> QED BY <1>3
<1>5. /\ \A w \in {a, b} : w \in DOMAIN d.tile /\ w \notin DOMAIN d.full /\ w \notin d.pseudo
  BY <1>4 DEF IsTiled, IsFull
<1>6. \A w \in Members(joined) : w \notin DOMAIN d.full /\ w \notin d.pseudo
  <2>1. CASE IsGrouped(d, a)
    <3>1. g \in d.groups BY <2>1, GroupOfTab
    <3>2. /\ \A w \in Members(g) : w \notin DOMAIN d.full /\ w \notin d.pseudo
          /\ g \in Groups(L)
          /\ Members(g) = {g.members[i] : i \in 1 .. Len(g.members)}
      BY <1>2, <3>1, TabsAre
    <3> DEFINE m == Append(g.members, b)
    <3>3. joined = [g EXCEPT !.members = m] BY <2>1, <3>2 DEF Groups
    <3> HIDE DEF g
    <3>4. g.members \in Seq(Window) /\ Len(g.members) \in Nat BY <3>2 DEF Groups
    <3>5. /\ DOMAIN m = 1 .. Len(g.members) + 1
          /\ \A i \in 1 .. Len(g.members) : m[i] = g.members[i]
          /\ m[Len(g.members) + 1] = b
      BY <1>1, <1>5, <3>4
    <3>6. 1 .. Len(g.members) + 1 = (1 .. Len(g.members)) \cup {Len(g.members) + 1} BY <3>4
    <3> HIDE DEF m, joined
    <3>7. joined.members = m BY <3>2, <3>3 DEF Groups
    <3>8. Members(joined) \subseteq Members(g) \cup {b}
      BY <3>2, <3>5, <3>6, <3>7 DEF Members, Range
    <3> QED BY <1>5, <3>2, <3>8
  <2>2. CASE ~IsGrouped(d, a)
    <3>1. joined = [members |-> <<a, b>>, active |-> 1, home |-> d.tile[a]] BY <2>2
    <3> HIDE DEF joined
    <3>2. joined.members = <<a, b>> BY <3>1
    <3>3. Members(joined) \subseteq {a, b} BY <3>2 DEF Members, Range
    <3> QED BY <1>5, <3>3
  <2> QED BY <2>1, <2>2
<1> HIDE DEF joined
<1>7. \A h \in G : \A w \in Members(h) : w \notin DOMAIN d.full /\ w \notin d.pseudo
  BY <1>2, <1>6 DEF Moded, Untabbed
<1> HIDE DEF G
<1>8. DOMAIN tile = DOMAIN d.tile \ {b} /\ \A x \in DOMAIN d.tile \ {b} : tile[x] = d.tile[x]
  BY DEF Drop, Restrict
<1> HIDE DEF tile
<1>9. /\ IsDesk(e) /\ e.tag = d.tag /\ e.over = d.over /\ e.full = d.full /\ e.maxi = d.maxi
      /\ e.pinned = d.pinned /\ e.pseudo = d.pseudo /\ e.active = d.active
      /\ e.shown = d.shown \ {b} /\ e.tile = tile /\ e.groups = G
  BY <1>1 DEF IsDesk
<1> HIDE DEF e, no
<1>10. Untabbed(e) BY <1>7, <1>9 DEF Untabbed
<1>11. Regrouped(e, d) BY <1>1, <1>5, <1>8, <1>9, <1>10 DEF Regrouped
<1> QED BY <1>1, <1>2, <1>11, RegroupedSettles

\* A tab out of its group: the window w has no place on the desk l.
Left(l, d, w) ==
  /\ IsDesk(l) /\ Settled(l) /\ Pins(l) = Pins(d) /\ DOMAIN l.tile \cap DOMAIN l.tag = {}
  /\ w \notin DOMAIN l.tile /\ w \notin DOMAIN l.tag /\ w \notin DOMAIN l.full /\ w \notin l.pseudo
  /\ w \in l.shown => w \in d.shown
  /\ l.active = d.active

\* leave_group
LEMMA LeaveGroupAgrees ==
  ASSUME NEW L, NEW d, Held(d, L), Agree(d), Leafed(d), NEW w, IsGrouped(d, w)
  PROVE  Left(LeaveGroup(d, w), d, w) /\ (w \in d.shown => IsActive(d, GroupOf(d, w).home))
<1> DEFINE g == GroupOf(d, w)
           pos == CHOOSE i \in DOMAIN g.members : g.members[i] = w
           rest == RemoveAt(g.members, pos)
           n == NextActive(g, pos)
           heir == rest[n]
           g1 == [g EXCEPT !.members = rest, !.active = n]
           G == (d.groups \ {g}) \cup (IF Len(rest) = 1 THEN {} ELSE {g1})
           tile == IF ActiveTab(g) = w THEN Drop(Put(d.tile, heir, d.tile[w]), {w}) ELSE d.tile
           e == [d EXCEPT !.groups = G, !.tile = tile]
<1>1. IsDesk(d) /\ DOMAIN d.tile \cap DOMAIN d.tag = {} BY HeldIsDesk, DeskMaps
<1>2. Moded(d) BY DEF Agree
<1>3. g \in d.groups /\ w \in Members(g) BY GroupOfTab
<1>4. LeaveGroup(d, w) = Retile(e)
  <2>1. CASE ActiveTab(g) = w
    <3>1. e = [[d EXCEPT !.groups = G] EXCEPT !.tile = Drop(Put(@, heir, @[w]), {w})]
      BY <1>1, <2>1 DEF IsDesk
    <3> HIDE DEF e
    <3> QED BY <2>1, <3>1 DEF LeaveGroup
  <2>2. CASE ActiveTab(g) # w
    <3>1. e = [d EXCEPT !.groups = G] BY <1>1, <2>2 DEF IsDesk
    <3> HIDE DEF e
    <3> QED BY <2>2, <3>1 DEF LeaveGroup
  <2> QED BY <2>1, <2>2
<1>5. /\ \A x \in Members(g) : x \notin DOMAIN d.full /\ x \notin d.pseudo
      /\ \A x \in ParkedIn(g) : x \notin DOMAIN d.tile /\ x \notin DOMAIN d.tag /\ x \notin d.shown
      /\ g \in Groups(L) /\ Len(g.members) \in Nat
      /\ Members(g) = {g.members[i] : i \in 1 .. Len(g.members)}
      /\ Len(g.members) > 1 /\ g.active \in 1 .. Len(g.members)
      /\ \A i, j \in 1 .. Len(g.members) : g.members[i] = g.members[j] => i = j
  BY <1>2, <1>3, TabsAre
<1>6. g.members \in Seq(Window) BY <1>5 DEF Groups
<1>7. pos \in 1 .. Len(g.members) /\ g.members[pos] = w
  <2>1. \E i \in DOMAIN g.members : g.members[i] = w BY <1>3 DEF Members, Range
  <2>2. DOMAIN g.members = 1 .. Len(g.members) BY <1>6
  <2> QED BY <2>1, <2>2
<1>8. ActiveTab(g) \in DOMAIN d.tile /\ d.tile[ActiveTab(g)] = g.home BY <1>3 DEF Leafed
<1> HIDE DEF g, pos
<1>9. /\ rest \in Seq(Window) /\ Len(rest) = Len(g.members) - 1
      /\ Tabs(rest) = Members(g) \ {w}
  <2> DEFINE s == g.members
  <2>1. s \in Seq(Window) /\ pos \in 1 .. Len(s) /\ rest = RemoveAt(s, pos)
        /\ \A i, j \in 1 .. Len(s) : s[i] = s[j] => i = j
    BY <1>5, <1>6, <1>7
  <2> HIDE DEF s, rest
  <2>2. rest \in Seq(Window) BY ONLY <2>1, WithoutTab
  <2>3. Len(rest) = Len(s) - 1 BY <2>1, WithoutTab
  <2>5. Tabs(rest) = Tabs(s) \ {s[pos]} BY <2>1, WithoutTab
  <2>6. Tabs(s) = Members(g) /\ s[pos] = w BY <1>5, <1>7 DEF s, Tabs
  <2>7. Tabs(rest) = Members(g) \ {w} BY ONLY <2>5, <2>6
  <2> QED BY <2>2, <2>3, <2>7 DEF s
<1>10. n \in 1 .. Len(rest)
  <2>1. rest = RemoveAt(g.members, pos) /\ n = NextActive(g, pos) OBVIOUS
  <2> HIDE DEF rest, n
  <2> QED BY <1>5, <1>7, <2>1, NextShown
<1> HIDE DEF rest, n, heir
<1>11. heir \in Members(g) \ {w} BY <1>9, <1>10 DEF heir, Tabs
<1>12. g1.members = rest BY <1>5 DEF Groups
<1> HIDE DEF g1
<1>13. Members(g1) \subseteq Members(g)
  <2>1. DOMAIN rest = 1 .. Len(rest) BY <1>9
  <2> QED BY <1>9, <1>12, <2>1 DEF Members, Range, Tabs
<1>14. \A h \in G : \A x \in Members(h) : x \notin DOMAIN d.full /\ x \notin d.pseudo
  BY <1>2, <1>5, <1>13 DEF Moded, Untabbed
<1> HIDE DEF G
<1>15. /\ ActiveTab(g) = w => /\ DOMAIN tile = (DOMAIN d.tile \cup {heir}) \ {w}
                              /\ \A x \in DOMAIN d.tile \ {heir, w} : tile[x] = d.tile[x]
       /\ ActiveTab(g) # w => tile = d.tile
  <2> HIDE DEF heir
  <2> QED BY DEF Put, Drop, Restrict
<1> HIDE DEF tile
<1>16. /\ IsDesk(e) /\ e.tag = d.tag /\ e.over = d.over /\ e.full = d.full /\ e.maxi = d.maxi
       /\ e.pinned = d.pinned /\ e.pseudo = d.pseudo /\ e.active = d.active
       /\ e.shown = d.shown /\ e.tile = tile /\ e.groups = G
  BY <1>1 DEF IsDesk
<1> HIDE DEF e
<1>17. Untabbed(e) BY <1>14, <1>16 DEF Untabbed
<1>18. \A x \in Members(g) : x # ActiveTab(g) =>
         x \notin DOMAIN d.tile /\ x \notin DOMAIN d.tag /\ x \notin d.shown
  BY <1>5 DEF ParkedIn
<1>19. w \notin DOMAIN tile /\ w \notin DOMAIN d.tag BY <1>1, <1>3, <1>8, <1>15, <1>18
<1>20. Regrouped(e, d)
  <2>1. CASE ActiveTab(g) = w
    <3>1. heir \notin DOMAIN d.tag /\ heir \notin d.shown BY <1>11, <1>18, <2>1
    <3>2. w \in DOMAIN d.tile BY <1>8, <2>1
    <3>3. w \notin DOMAIN d.full /\ heir \notin DOMAIN d.full BY <1>3, <1>5, <1>11
    <3>4. w \notin d.pseudo /\ heir \notin d.pseudo BY <1>3, <1>5, <1>11
    <3> QED BY <1>15, <1>16, <1>17, <2>1, <3>1, <3>2, <3>3, <3>4 DEF Regrouped
  <2>2. CASE ActiveTab(g) # w BY <1>15, <1>16, <1>17, <2>2 DEF Regrouped
  <2> QED BY <2>1, <2>2
<1>21. /\ Settled(Retile(e)) /\ Pins(Retile(e)) = Pins(d) /\ SameModes(Retile(e), e)
       /\ Retile(e).active = d.active /\ IsDesk(Retile(e))
       /\ DOMAIN e.tile \cap DOMAIN e.tag = {}
  BY <1>1, <1>20, RegroupedSettles
<1>22. w \in Retile(e).shown => w \in d.shown
  BY <1>16, <1>19 DEF Retile, IsDesk
<1>23. w \in d.shown => IsActive(d, g.home)
  <2>1. w \in d.shown => w = ActiveTab(g) BY <1>3, <1>18
  <2> QED BY <1>8, <2>1 DEF Agree, InView
<1>24. w \notin DOMAIN d.full /\ w \notin d.pseudo BY <1>3, <1>5
<1>25. Left(Retile(e), d, w) BY <1>16, <1>19, <1>21, <1>22, <1>24 DEF Left, SameModes
<1> QED BY <1>4, <1>23, <1>25 DEF g

\* ungroup: the tab becomes a tile where its group is at home.
LEMMA UngroupAgrees ==
  ASSUME NEW L, NEW d, Held(d, L), Settled(d), Leafed(d), NEW w
  PROVE  Settled(Ungroup(d, w)) /\ Pins(Ungroup(d, w)) = Pins(d)
<1>1. CASE ~IsGrouped(d, w) \/ ~MayLeave(d, w) BY <1>1 DEF Ungroup
<1>2. CASE IsGrouped(d, w) /\ MayLeave(d, w)
  <2> DEFINE l == LeaveGroup(d, w)
             k == GroupOf(d, w).home
             z == Tiled(l, w, k)
  <2>1. Ungroup(d, w) = Retile(z) BY <1>2 DEF Ungroup
  <2>2. Agree(d) BY DEF Settled
  <2>3. Left(l, d, w) /\ (w \in d.shown => IsActive(d, k)) BY <1>2, <2>2, LeaveGroupAgrees
  <2> HIDE DEF l, k
  <2>4. IsDesk(l) /\ Agree(l) /\ DOMAIN l.tile \cap DOMAIN l.tag = {} /\ Pins(l) = Pins(d)
    BY <2>3 DEF Left, Settled
  <2>5. /\ IsDesk(z) /\ z.tag = l.tag /\ z.over = l.over /\ z.full = l.full /\ z.maxi = l.maxi
        /\ z.pinned = l.pinned /\ z.pseudo = l.pseudo /\ z.active = l.active
        /\ z.shown = l.shown /\ z.groups = l.groups
        /\ DOMAIN z.tile = DOMAIN l.tile \cup {w} /\ z.tile[w] = k
        /\ \A x \in DOMAIN l.tile \ {w} : z.tile[x] = l.tile[x]
    BY <2>4 DEF Tiled, IsDesk, Put
  <2> HIDE DEF z
  <2>6. Untabbed(z) BY <2>4, <2>5 DEF Agree, Moded, Untabbed
  <2>7. w \in l.shown => IsActive(l, k) BY <2>3 DEF Left, IsActive
  <2>8. w \notin DOMAIN l.tile /\ w \notin DOMAIN l.tag BY <2>3 DEF Left
  <2>9. Regrouped(z, l) BY <2>5, <2>6, <2>7, <2>8 DEF Regrouped
  <2> QED BY <2>1, <2>4, <2>9, RegroupedSettles
<1> QED BY <1>1, <1>2

\* But for one window, just what belongs in view is.
InViewBut(d, w) ==
  /\ \A x \in DOMAIN d.tile \ {w} : x \in d.shown => IsActive(d, d.tile[x])
  /\ \A x \in DOMAIN d.tag \ {w} : x \in d.shown <=> IsActive(d, d.tag[x]) \/ x \in d.pinned

\* The maps forget a window, its modes and its pin.
LEMMA ForgottenAgrees ==
  ASSUME NEW d, IsDesk(d), DOMAIN d.tile \cap DOMAIN d.tag = {}, Moded(d), NEW w, InViewBut(d, w)
  PROVE  LET e == Forgotten(d, w) IN
         /\ IsDesk(e) /\ DOMAIN e.tile \cap DOMAIN e.tag = {}
         /\ Agree(e) /\ Pins(e) = Pins(d) \ {w}
<1> DEFINE e == Forgotten(d, w)
<1>1. /\ IsDesk(e) /\ e.live = d.live /\ e.active = d.active /\ e.shown = d.shown
      /\ e.groups = d.groups /\ e.pinned = d.pinned \ {w} /\ e.pseudo = d.pseudo \ {w}
      /\ e.tile = Drop(d.tile, {w}) /\ e.tag = Drop(d.tag, {w}) /\ e.over = Drop(d.over, {w})
      /\ e.maxi = Drop(d.maxi, {w}) /\ e.full = Drop(d.full, {w})
  BY DEF Forgotten, IsDesk
<1> HIDE DEF e
<1>2. DOMAIN e.tile = DOMAIN d.tile \ {w} /\ \A x \in DOMAIN d.tile \ {w} : e.tile[x] = d.tile[x]
  <2>1. e.tile = Drop(d.tile, {w}) BY <1>1
  <2> QED BY ONLY <2>1 DEF Drop, Restrict
<1>3. DOMAIN e.tag = DOMAIN d.tag \ {w} /\ \A x \in DOMAIN d.tag \ {w} : e.tag[x] = d.tag[x]
  <2>1. e.tag = Drop(d.tag, {w}) BY <1>1
  <2> QED BY ONLY <2>1 DEF Drop, Restrict
<1>4. DOMAIN e.over = DOMAIN d.over \ {w} /\ \A x \in DOMAIN d.over \ {w} : e.over[x] = d.over[x]
  <2>1. e.over = Drop(d.over, {w}) BY <1>1
  <2> QED BY ONLY <2>1 DEF Drop, Restrict
<1>5. DOMAIN e.maxi = DOMAIN d.maxi \ {w} /\ \A x \in DOMAIN d.maxi \ {w} : e.maxi[x] = d.maxi[x]
  <2>1. e.maxi = Drop(d.maxi, {w}) BY <1>1
  <2> QED BY ONLY <2>1 DEF Drop, Restrict
<1>6. DOMAIN e.full = DOMAIN d.full \ {w} /\ \A x \in DOMAIN d.full \ {w} : e.full[x] = d.full[x]
  <2>1. e.full = Drop(d.full, {w}) BY <1>1
  <2> QED BY ONLY <2>1 DEF Drop, Restrict
<1>7. e.pinned = d.pinned \ {w} /\ e.pseudo = d.pseudo \ {w} /\ e.groups = d.groups BY <1>1
<1>8. Pins(e) = Pins(d) \ {w} BY <1>6, <1>7 DEF Pins
<1>9. PinsFloat(e) /\ PseudoAt(e) /\ Untabbed(e)
  BY <1>2, <1>3, <1>6, <1>7 DEF Moded, PinsFloat, PseudoAt, Untabbed
<1>10. MaxiAt(e) /\ OverAt(e) BY <1>3, <1>4, <1>5 DEF Moded, MaxiAt, OverAt
<1>11. FullAt(e) /\ FullOnce(e) BY <1>2, <1>3, <1>6 DEF Moded, FullAt, FullOnce
<1>12. \A k : IsActive(e, k) <=> IsActive(d, k) BY <1>1 DEF IsActive
<1>13. InView(e)
  <2>1. e.shown = d.shown BY <1>1
  <2>2. \A x \in DOMAIN e.tile : x \in e.shown => IsActive(e, e.tile[x])
    BY <1>2, <1>12, <2>1 DEF InViewBut
  <2>3. \A x \in DOMAIN e.tag : x \in e.shown <=> IsActive(e, e.tag[x]) \/ x \in e.pinned
    BY <1>3, <1>7, <1>12, <2>1 DEF InViewBut
  <2> QED BY <2>2, <2>3 DEF InView
<1>14. IsDesk(e) /\ DOMAIN e.tile \cap DOMAIN e.tag = {} BY <1>1, <1>2, <1>3
<1>15. Agree(e) BY <1>9, <1>10, <1>11, <1>13 DEF Agree, Moded
<1> QED BY <1>8, <1>14, <1>15 DEF e

\* detach_mapped_toplevel
LEMMA UnmapAgrees ==
  ASSUME NEW L, NEW d, Held(d, L), Settled(d), Leafed(d), NEW w
  PROVE  Settled(Unmap(d, w)) /\ Pins(Unmap(d, w)) = Pins(d) \ {w}
<1> DEFINE h == Hidden(d, {w})
           u == IF IsGrouped(h, w) /\ MayLeave(h, w) THEN LeaveGroup(h, w) ELSE h
           e == Forgotten(u, w)
<1>1. Unmap(d, w) = Retile(e) BY DEF Unmap
<1>2. Held(h, L) /\ Same(h, d) /\ h.shown = d.shown \ {w} BY HiddenKeeps
<1>3. IsDesk(h) /\ SameModes(h, d) /\ h.active = d.active
  <2>1. IsDesk(d) BY HeldIsDesk
  <2> QED BY <2>1 DEF Hidden, IsDesk, SameModes
<1> HIDE DEF h
<1>4. Moded(h) /\ Pins(h) = Pins(d) BY <1>3, SameModesModed DEF Settled, Agree
<1>5. Leafed(h) BY <1>2, SameStill, StillLeafed
<1>6. InViewBut(h, w) BY <1>2, <1>3 DEF InViewBut, SameModes, IsActive, Settled, Agree, InView
<1>7. DOMAIN h.tile \cap DOMAIN h.tag = {} BY <1>2, DeskMaps
<1>8. /\ IsDesk(u) /\ DOMAIN u.tile \cap DOMAIN u.tag = {} /\ Moded(u) /\ InViewBut(u, w)
      /\ Pins(u) = Pins(d)
  <2>1. CASE IsGrouped(h, w) /\ MayLeave(h, w)
    <3>1. u = LeaveGroup(h, w) BY <2>1
    <3> HIDE DEF u
    <3> DEFINE g == GroupOf(h, w)
    <3>2. g \in h.groups /\ w \in Members(g) BY <2>1, GroupOfTab
    <3>3. \A x \in ParkedIn(g) : x \notin DOMAIN h.tag BY <1>2, <1>4, <3>2, TabsAre
    <3>4. ActiveTab(g) \in DOMAIN h.tile BY <1>5, <3>2 DEF Leafed
    <3>5. w \notin DOMAIN h.tag BY <1>7, <3>2, <3>3, <3>4 DEF ParkedIn
    <3>6. InView(h)
      <4>1. w \notin h.shown BY <1>2
      <4> QED BY <1>6, <3>5, <4>1 DEF InView, InViewBut
    <3>7. Agree(h) BY <1>4, <3>6 DEF Agree
    <3>8. Left(u, h, w) BY <1>2, <1>5, <2>1, <3>1, <3>7, LeaveGroupAgrees
    <3>9. Agree(u) BY <3>8 DEF Left, Settled
    <3>10. Moded(u) /\ InViewBut(u, w) BY <3>9 DEF Agree, InView, InViewBut
    <3> QED BY <1>4, <3>8, <3>10 DEF Left
  <2>2. CASE ~ (IsGrouped(h, w) /\ MayLeave(h, w)) BY <1>3, <1>4, <1>6, <1>7, <2>2
  <2> QED BY <2>1, <2>2
<1> HIDE DEF u
<1>9. /\ IsDesk(e) /\ DOMAIN e.tile \cap DOMAIN e.tag = {}
      /\ Agree(e) /\ Pins(e) = Pins(u) \ {w}
  BY <1>8, ForgottenAgrees
<1> HIDE DEF e
<1> QED BY <1>1, <1>8, <1>9, RetileShows

\* A window no one ever saw becomes a tile, is made to float, and may be pinned.
MadeFloat(e, d, w, k) ==
  /\ Settled(e) /\ Pins(e) = Pins(d) /\ IsDesk(e) /\ e.full = d.full /\ e.live = d.live
  /\ e.active = d.active
  /\ w \in DOMAIN e.tag /\ e.tag[w] = k /\ w \notin DOMAIN e.tile

LEMMA MadeFloatIs ==
  ASSUME NEW L, NEW d, Held(d, L), Settled(d), NEW w \in DOMAIN d.tile, w \notin DOMAIN d.full,
         NEW k, d.tile[w] = k, k[1] \in d.live
  PROVE  MadeFloat(IF IsActive(d, k) THEN ToggleFloating(d, w, k[1]) ELSE FloatHidden(d, w, k),
                   d, w, k)
<1> DEFINE u == Untile(d, w, k)
<1>1. /\ IsDesk(d) /\ Agree(d) /\ LitTiles(d) /\ DOMAIN d.tile \cap DOMAIN d.tag = {}
      /\ d.tile \in Maps(Keys(L)) /\ L \subseteq Output
  BY HeldIsDesk, DeskMaps DEF Settled
<1>2. k \in Output \X Workspace
  <2>1. d.tile \in Maps(Keys(L)) BY <1>1
  <2>2. d.tile[w] \in Keys(L) BY ONLY <2>1, w \in DOMAIN d.tile, MapsType
  <2> QED BY <1>1, <2>2 DEF Keys
<1>3. IsActive(d, d.tile[w]) <=> w \in d.shown BY <1>1 DEF Agree, InView, LitTiles
<1>4. Floated(u, d, w) /\ IsDesk(u) /\ u.full = d.full BY UntileIs
<1> HIDE DEF u
<1>5. Agree(u) /\ Pins(u) = Pins(d) BY <1>1, <1>3, <1>4, FloatedAgrees
<1>6. /\ DOMAIN u.tile \cap DOMAIN u.tag = {} /\ w \in DOMAIN u.tag /\ u.tag[w] = k
      /\ w \notin DOMAIN u.tile /\ u.active = d.active /\ u.live = d.live
  BY <1>1, <1>4 DEF Floated
<1>7. LitTiles(u)
  <2>1. \A x : IsActive(u, x) <=> IsActive(d, x) BY <1>6, IsActiveSame
  <2>2. /\ \A x \in DOMAIN u.tile : x \in DOMAIN d.tile /\ u.tile[x] = d.tile[x]
        /\ u.shown = d.shown
    BY <1>4 DEF Floated
  <2> QED BY <1>1, <1>6, <2>1, <2>2 DEF LitTiles
<1>8. MadeFloat(u, d, w, k) BY <1>4, <1>5, <1>6, <1>7 DEF MadeFloat, Settled
<1>9. MadeFloat(Retile(u), d, w, k)
  <2>1. /\ SameModes(Retile(u), u) /\ Retile(u).live = u.live /\ Retile(u).active = u.active
        /\ IsDesk(Retile(u)) /\ Pins(Retile(u)) = Pins(u) /\ Settled(Retile(u))
    BY <1>4, <1>5, <1>6, RetileShows
  <2> QED BY <1>4, <1>5, <1>6, <2>1 DEF MadeFloat, SameModes
<1>10. CASE IsActive(d, k)
  <2>1. w \in d.shown BY <1>3, <1>10
  <2>2. ActiveKey(d, d.tile[w][1]) = k BY <1>2, <1>10 DEF ActiveKey, IsActive
  <2>3. ToggleFloating(d, w, k[1]) = Retile(u)
    BY <2>1, <2>2 DEF ToggleFloating, IsTiled, IsFull, u
  <2> QED BY <1>9, <1>10, <2>3
<1>11. CASE ~IsActive(d, k)
  <2>1. FloatHidden(d, w, k) = u BY DEF FloatHidden, IsTiled, u
  <2> QED BY <1>8, <1>11, <2>1
<1> QED BY <1>10, <1>11

\* The pin of a rule counts as the user's.
LEMMA ConvertedAgrees ==
  ASSUME NEW L, NEW d, Held(d, L), Settled(d), NEW w \in DOMAIN d.tile, w \notin DOMAIN d.full,
         ~IsGrouped(d, w), NEW k, d.tile[w] = k, k[1] \in d.live, NEW rule, w \in Window
  PROVE  /\ Settled(Converted(d, w, k, rule)) /\ w \in Homed(Converted(d, w, k, rule))
         /\ Pins(Converted(d, w, k, rule)) =
              IF rule.placed = "pin" THEN Pins(d) \cup {w} ELSE Pins(d)
<1> DEFINE hidden == ~IsActive(d, k)
           e == IF hidden THEN FloatHidden(d, w, k) ELSE ToggleFloating(d, w, k[1])
           f == IF IsTagged(e, w) THEN [e EXCEPT !.over = Put(@, w, k[1])] ELSE e
           p == [f EXCEPT !.pinned = @ \cup {w}, !.shown = IF hidden THEN @ \cup {w} ELSE @]
           c == Converted(d, w, k, rule)
<1>1. c = IF rule.placed = "tile" /\ ~rule.maximize
          THEN IF rule.pseudo THEN TogglePseudo(d, w) ELSE d
          ELSE IF rule.placed # "pin" THEN f ELSE p
  BY DEF Converted
<1>2. MadeFloat(e, d, w, k)
  <2>1. MadeFloat(IF IsActive(d, k) THEN ToggleFloating(d, w, k[1]) ELSE FloatHidden(d, w, k),
                  d, w, k)
    BY MadeFloatIs
  <2>2. e = IF IsActive(d, k) THEN ToggleFloating(d, w, k[1]) ELSE FloatHidden(d, w, k) OBVIOUS
  <2> HIDE DEF e
  <2> QED BY <2>1, <2>2
<1> HIDE DEF e
<1>3. /\ e.full = d.full /\ e.active = d.active /\ w \in DOMAIN e.tag /\ e.tag[w] = k
      /\ w \notin DOMAIN e.tile /\ IsDesk(e) /\ Settled(e) /\ Pins(e) = Pins(d)
  BY <1>2 DEF MadeFloat
<1>4. /\ IsDesk(f) /\ f.live = e.live /\ f.active = e.active /\ f.tile = e.tile /\ f.tag = e.tag
      /\ f.full = e.full /\ f.maxi = e.maxi /\ f.groups = e.groups /\ f.pinned = e.pinned
      /\ f.pseudo = e.pseudo /\ f.shown = e.shown /\ f.over = Put(e.over, w, k[1])
  BY <1>3 DEF IsDesk, IsTagged
<1> HIDE DEF f
<1>5. Pins(f) = Pins(d) BY <1>3, <1>4 DEF Pins
<1>6. Moded(f)
  <2>1. Moded(e) BY <1>3 DEF Settled, Agree
  <2>2. PinsFloat(f) /\ PseudoAt(f) /\ MaxiAt(f) /\ FullAt(f) /\ FullOnce(f) /\ Untabbed(f)
    BY <1>4, <2>1 DEF Moded, PinsFloat, PseudoAt, MaxiAt, FullAt, FullOnce, Untabbed
  <2>3. OverAt(f) BY <1>3, <1>4, <2>1 DEF Moded, OverAt, Put
  <2> QED BY <2>2, <2>3 DEF Moded
<1>7. \A x : IsActive(f, x) <=> IsActive(e, x) BY <1>4, IsActiveSame
<1>8. InView(f) /\ LitTiles(f) BY <1>3, <1>4, <1>7 DEF Settled, Agree, InView, LitTiles
<1>9. Settled(f) /\ w \in Homed(f) BY <1>3, <1>4, <1>6, <1>8 DEF Settled, Agree, Homed
<1>10. /\ IsDesk(p) /\ p.live = f.live /\ p.active = f.active /\ p.tile = f.tile /\ p.tag = f.tag
       /\ p.full = f.full /\ p.maxi = f.maxi /\ p.groups = f.groups /\ p.over = f.over
       /\ p.pinned = f.pinned \cup {w} /\ p.pseudo = f.pseudo
       /\ p.shown = IF hidden THEN f.shown \cup {w} ELSE f.shown
  BY <1>4 DEF IsDesk
<1> HIDE DEF p
<1>11. Pins(p) = Pins(d) \cup {w} BY <1>5, <1>10 DEF Pins
<1>12. Moded(p)
  <2>1. PinsFloat(p) BY <1>3, <1>4, <1>6, <1>10 DEF Moded, PinsFloat
  <2>2. PseudoAt(p) /\ MaxiAt(p) /\ FullAt(p) /\ FullOnce(p) /\ Untabbed(p) /\ OverAt(p)
    BY <1>6, <1>10 DEF Moded, PseudoAt, MaxiAt, FullAt, FullOnce, Untabbed, OverAt
  <2> QED BY <2>1, <2>2 DEF Moded
<1>13. \A x : IsActive(p, x) <=> IsActive(f, x) BY <1>10, IsActiveSame
<1>14. hidden <=> ~IsActive(f, f.tag[w]) BY <1>3, <1>4 DEF IsActive
<1> HIDE DEF hidden
<1>15. InView(p)
  <2>1. w \in DOMAIN f.tag /\ w \notin DOMAIN f.tile BY <1>3, <1>4
  <2> QED BY <1>8, <1>10, <1>13, <1>14, <2>1 DEF InView
<1>16. LitTiles(p) BY <1>8, <1>10, <1>13 DEF LitTiles
<1>17. Settled(p) /\ w \in Homed(p) BY <1>9, <1>10, <1>12, <1>15, <1>16 DEF Settled, Agree, Homed
<1>18. /\ Settled(TogglePseudo(d, w)) /\ Pins(TogglePseudo(d, w)) = Pins(d)
       /\ w \in Homed(TogglePseudo(d, w))
  <2>1. Same(TogglePseudo(d, w), d) BY TogglePseudoKeeps
  <2> QED BY <2>1, TogglePseudoAgrees DEF Same, Homed
<1>19. w \in Homed(d) BY DEF Homed
<1> HIDE DEF c
<1>20. Settled(c) /\ w \in Homed(c)
       /\ Pins(c) = IF rule.placed = "pin" THEN Pins(d) \cup {w} ELSE Pins(d)
  BY <1>1, <1>5, <1>9, <1>11, <1>17, <1>18, <1>19
<1> QED BY <1>20 DEF c

\* map_toplevel
LEMMA MapAgrees ==
  ASSUME NEW L, NEW d, Held(d, L), Settled(d), L = d.live, NEW w \in Window, w \notin d.mapped,
         ~IsGrouped(d, w), NEW o \in L, NEW n \in Workspace, NEW rule
  PROVE  /\ Settled(Map(d, w, o, n, rule))
         /\ Pins(Map(d, w, o, n, rule)) =
              IF rule.placed = "pin" THEN Pins(d) \cup {w} ELSE Pins(d)
<1> DEFINE k == <<o, n>>
           z == Tiled([d EXCEPT !.mapped = @ \cup {w}], w, k)
           r == Retile(z)
           at(f) == IF Live(f, Preferred(f, w)) # NoOutput THEN Preferred(f, w) ELSE o
           e == Converted(r, w, k, rule)
           m == IF rule.maximize THEN Maximize(e, w, at(e)) ELSE e
<1>1. d \in Desks(L) /\ L \subseteq Output BY DEF Held
<1>2. k \in Keys(L) /\ k[1] = o BY DEF Keys
<1> HIDE DEF k
<1>3. Put(d.tile, w, k) \in Maps(Keys(L)) BY <1>1, <1>2, PutMaps DEF Desks
<1>4. /\ z \in Desks(L) /\ z.live = d.live /\ z.mapped = d.mapped \cup {w}
      /\ z.tile = Put(d.tile, w, k) /\ z.tag = d.tag /\ z.groups = d.groups
      /\ z.shown = d.shown /\ z.over = d.over /\ z.full = d.full /\ z.maxi = d.maxi
      /\ z.pinned = d.pinned /\ z.pseudo = d.pseudo /\ z.active = d.active
  BY <1>1, <1>3 DEF Tiled, Desks
<1> HIDE DEF z
<1>5. z.shown \subseteq d.shown \cup {w} BY <1>4
<1>6. Held(z, L) /\ w \in DOMAIN z.tile /\ z.tile[w] = k BY <1>2, <1>4, <1>5, InsertHeld
<1>7. Held(r, L) /\ Same(r, z) BY <1>6, RetileKeeps
<1>8. /\ d.mapped = DOMAIN d.tile \cup DOMAIN d.tag \cup Parked(d)
      /\ d.shown \subseteq DOMAIN d.tile \cup DOMAIN d.tag
      /\ DOMAIN d.tile \cap DOMAIN d.tag = {} /\ Agree(d)
  BY DeskMaps DEF Held, Once, Settled
<1>9. /\ w \notin DOMAIN d.tile /\ w \notin DOMAIN d.tag /\ w \notin d.shown BY <1>8
<1>10. w \notin DOMAIN d.full BY <1>8, <1>9 DEF Agree, Moded, FullAt
<1>11. Regrouped(z, d)
  <2>1. IsDesk(z) BY <1>6, HeldIsDesk
  <2>2. Untabbed(z) BY <1>4, <1>8 DEF Agree, Moded, Untabbed
  <2>3. /\ DOMAIN z.tile = DOMAIN d.tile \cup {w}
        /\ \A x \in DOMAIN d.tile \ {w} : z.tile[x] = d.tile[x]
    BY <1>4 DEF Put
  <2> QED BY <1>4, <1>9, <2>1, <2>2, <2>3 DEF Regrouped
<1>12. Settled(r) /\ Pins(r) = Pins(d) /\ SameModes(r, z) BY <1>8, <1>11, RegroupedSettles
<1> HIDE DEF r
<1>13. /\ w \in DOMAIN r.tile /\ r.tile[w] = k /\ r.live = d.live /\ r.groups = d.groups
       /\ r.full = d.full
  BY <1>4, <1>6, <1>7, <1>12 DEF Same, SameModes
<1>14. ~IsGrouped(r, w) BY <1>13 DEF IsGrouped
<1>15. /\ Settled(e) /\ w \in Homed(e)
       /\ Pins(e) = IF rule.placed = "pin" THEN Pins(d) \cup {w} ELSE Pins(d)
  <2>1. k[1] \in r.live /\ w \notin DOMAIN r.full BY <1>2, <1>10, <1>13
  <2>2. /\ Settled(Converted(r, w, k, rule)) /\ w \in Homed(Converted(r, w, k, rule))
        /\ Pins(Converted(r, w, k, rule)) =
             IF rule.placed = "pin" THEN Pins(r) \cup {w} ELSE Pins(r)
    BY <1>7, <1>12, <1>13, <1>14, <2>1, ConvertedAgrees
  <2> QED BY <1>12, <2>2
<1>16. Held(e, L) /\ e.live = d.live /\ Loose(e, r, w) BY <1>2, <1>7, <1>13, ConvertedHeld
<1> HIDE DEF e
<1>17. ~IsGrouped(e, w) BY <1>14, <1>16 DEF IsGrouped, Loose
<1>18. at(e) = At(e, w)[1] /\ at(e) \in Output
  <2>1. /\ Preferred(e, w) = At(e, w)[1] /\ At(e, w)[1] \in L /\ At(e, w)[1] # NoOutput
    BY <1>15, <1>16, RenderedAt DEF Settled
  <2> QED BY <1>1, <1>16, <2>1 DEF Live
<1>19. /\ Settled(m) /\ Pins(m) = Pins(e) /\ Held(m, L) /\ m.live = d.live
       /\ w \in Homed(m) /\ ~IsGrouped(m, w)
  <2>1. CASE rule.maximize
    <3>1. m = Maximize(e, w, at(e)) BY <2>1
    <3> HIDE DEF m, at
    <3>2. Settled(m) /\ Pins(m) = Pins(e) BY <1>15, <1>16, <1>17, <1>18, <3>1, MaximizeAgrees
    <3>3. Held(m, L) /\ Same(m, e) BY <1>16, <1>18, <3>1, MaximizeKeeps
    <3> QED BY <1>15, <1>16, <1>17, <3>2, <3>3 DEF Same, Homed, IsGrouped
  <2>2. CASE ~rule.maximize BY <1>15, <1>16, <1>17, <2>2
  <2> QED BY <2>1, <2>2
<1>20. Map(d, w, o, n, rule) = IF rule.fullscreen THEN Fullscreen(m, w, at(m)) ELSE m
  BY DEF Map, m, e, r, z, k
<1> HIDE DEF m
<1>21. at(m) = At(m, w)[1]
  <2>1. /\ Preferred(m, w) = At(m, w)[1] /\ At(m, w)[1] \in L /\ At(m, w)[1] # NoOutput
    BY <1>19, RenderedAt DEF Settled
  <2> QED BY <1>19, <2>1 DEF Live
<1> HIDE DEF at
<1>22. Settled(Fullscreen(m, w, at(m))) /\ Pins(Fullscreen(m, w, at(m))) = Pins(m)
  BY <1>19, <1>21, FullscreenAgrees
<1> QED BY <1>15, <1>19, <1>20, <1>22

\* What every handler keeps: the modes and the view agree, the pins are the ones
\* the user wants, and the focus is on a window that is shown.
Whole(d) == Settled(d) /\ Leafed(d)
Quiet == Inv /\ Whole(desk) /\ wantsPin = Pins(desk) /\ stray = {}
Lasting(d) == Settled(d) /\ Pins(d) = Pins(desk)
NextQuiet == Settled(desk') /\ wantsPin' = Pins(desk') /\ stray' = {}

LEMMA BecomesQuiet ==
  ASSUME Quiet, NEW d, Lasting(d), Becomes(d)
  PROVE  NextQuiet
BY DEF Quiet, Lasting, Becomes, NextQuiet

LEMMA QuietDesk ==
  ASSUME Quiet
  PROVE  /\ Held(desk, Reach(desk)) /\ Settled(desk) /\ Leafed(desk)
         /\ desk.live \subseteq Output /\ Aimable = desk.shown /\ desk.shown \subseteq Window
         /\ \A o \in desk.live : Reach(desk) = desk.live
BY Aimed DEF Quiet, Whole, Inv, Reach, Aimable

\* What the user does to a window, tab or not.
LEMMA TabOpsQuiet ==
  ASSUME Quiet, NEW w,
         \/ LeaveTabs(w) \/ \E forward \in BOOLEAN : NextTab(w, forward)
         \/ \E b \in desk.shown : JoinGroup(w, b)
         \/ \E o \in desk.live : SendToMonitor(w, o) \/ DropOnMonitor(w, o)
  PROVE  NextQuiet
<1> DEFINE L == Reach(desk)
<1>1. /\ Held(desk, L) /\ Settled(desk) /\ Leafed(desk)
      /\ \A o \in desk.live : L = desk.live
  BY QuietDesk
<1> HIDE DEF L
<1>2. CASE LeaveTabs(w)
  BY <1>1, <1>2, UngroupAgrees, BecomesQuiet DEF LeaveTabs, Lasting
<1>3. ASSUME NEW forward \in BOOLEAN, NextTab(w, forward) PROVE NextQuiet
  BY <1>1, <1>3, CycleTabAgrees, BecomesQuiet DEF NextTab, Lasting
<1>4. ASSUME NEW b \in desk.shown, JoinGroup(w, b) PROVE NextQuiet
  BY <1>1, <1>4, GroupWithAgrees, BecomesQuiet DEF JoinGroup, Lasting
<1>5. ASSUME NEW o \in desk.live, SendToMonitor(w, o) PROVE NextQuiet
  BY <1>1, <1>5, MoveWindowToMonitorAgrees, BecomesQuiet DEF SendToMonitor, Lasting
<1>6. ASSUME NEW o \in desk.live, DropOnMonitor(w, o) PROVE NextQuiet
  BY <1>1, <1>6, DropTileAgrees, BecomesQuiet DEF DropOnMonitor, Lasting
<1> QED BY <1>2, <1>3, <1>4, <1>5, <1>6

\* What the user does to a window that is no tab.
LEMMA PlainOpsQuiet ==
  ASSUME Quiet, NEW w \in desk.shown, ~IsGrouped(desk, w),
         \/ PseudoTile(w) \/ \E n \in Numbers : SendToWorkspace(w, n)
         \/ \E o \in desk.live : FloatWindow(w, o) \/ PinWindow(w, o)
  PROVE  NextQuiet
<1> DEFINE L == Reach(desk)
<1>1. /\ Held(desk, L) /\ Settled(desk)
      /\ \A o \in desk.live : L = desk.live
  BY QuietDesk
<1> HIDE DEF L
<1>2. wantsPin = Pins(desk) BY DEF Quiet
<1>3. CASE PseudoTile(w)
  BY <1>1, <1>3, TogglePseudoAgrees, BecomesQuiet DEF PseudoTile, Lasting
<1>4. ASSUME NEW n \in Numbers, SendToWorkspace(w, n) PROVE NextQuiet
  BY <1>1, <1>4, MoveToWorkspaceAgrees, BecomesQuiet DEF SendToWorkspace, Lasting
<1>5. ASSUME NEW o \in desk.live, FloatWindow(w, o) PROVE NextQuiet
  <2>1. L = desk.live BY <1>1
  <2>2. Toggled(ToggleFloating(desk, w, o), desk, w) BY <1>1, <2>1, ToggleFloatingAgrees
  <2>3. Toggled(desk', desk, w) BY <1>5, <2>2 DEF FloatWindow
  <2>4. wantsPin' = (IF IsTiled(desk', w) THEN wantsPin \ {w} ELSE wantsPin) /\ stray' = {}
    BY <1>5 DEF FloatWindow
  <2>5. wantsPin' = Pins(desk') BY <1>2, <2>3, <2>4 DEF Toggled, IsTiled
  <2> QED BY <2>3, <2>4, <2>5 DEF Toggled, NextQuiet
<1>6. ASSUME NEW o \in desk.live, PinWindow(w, o) PROVE NextQuiet
  <2>1. L = desk.live /\ o \in L BY <1>1
  <2>2. Flipped(TogglePin(desk, w, o), desk, w) BY <1>1, <2>1, TogglePinAgrees
  <2>3. Flipped(desk', desk, w) BY <1>6, <2>2 DEF PinWindow
  <2>4. /\ wantsPin' = IF w \in wantsPin THEN wantsPin \ {w} ELSE wantsPin \cup {w}
        /\ stray' = {}
    BY <1>6 DEF PinWindow
  <2> QED BY <1>2, <2>3, <2>4 DEF Flipped, NextQuiet
<1> QED BY <1>3, <1>4, <1>5, <1>6

LEMMA UserQuiet ==
  ASSUME Quiet, User, {"nudges", "tabModes", "outputPins"} \cap Features = {}
  PROVE  NextQuiet
<1> DEFINE L == Reach(desk)
<1>1. /\ Held(desk, L) /\ Settled(desk) /\ Aimable = desk.shown /\ desk.live \subseteq Output
      /\ \A o \in desk.live : L = desk.live
  BY QuietDesk
<1> HIDE DEF L
<1>2. \A w : ~PinToMonitor(w) /\ (Plainly(w) => ~IsGrouped(desk, w))
  BY DEF PinToMonitor, Plainly
<1>3. ASSUME NEW w \in Aimable,
             \/ PinToMonitor(w) \/ LeaveTabs(w)
             \/ \E forward \in BOOLEAN : NextTab(w, forward)
             \/ \E b \in desk.shown : JoinGroup(w, b)
             \/ \E o \in desk.live : SendToMonitor(w, o) \/ DropOnMonitor(w, o)
      PROVE  NextQuiet
  BY <1>2, <1>3, TabOpsQuiet
<1>4. ASSUME NEW w \in {x \in Aimable : Plainly(x)},
             \/ PseudoTile(w)
             \/ \E n \in Numbers : SendToWorkspace(w, n)
             \/ \E o \in desk.live : FloatWindow(w, o) \/ PinWindow(w, o)
      PROVE  NextQuiet
  BY <1>1, <1>2, <1>4, PlainOpsQuiet
<1>5. ASSUME NEW w \in desk.shown, NEW o \in desk.live, NudgeFloat(w, o) \/ DropFloat(w, o)
      PROVE  NextQuiet
  <2>1. ~NudgeFloat(w, o) BY DEF NudgeFloat
  <2>2. DropFloat(w, o) BY <1>5, <2>1
  <2>3. Lasting(SyncFloating(Nudge(desk, w, o), w))
    BY <1>1, <2>2, DroppedAgrees DEF DropFloat, Lasting
  <2> QED BY <2>2, <2>3, BecomesQuiet DEF DropFloat
<1>6. ASSUME NEW o \in desk.live, NEW n \in Numbers, SwitchWorkspace(o, n) PROVE NextQuiet
  <2>1. Lasting(Switch(desk, o, n)) BY <1>1, SwitchAgrees DEF Lasting
  <2> QED BY <1>6, <2>1, BecomesQuiet DEF SwitchWorkspace
<1>7. ASSUME NEW a \in desk.live, NEW b \in desk.live, SendWorkspace(a, b) PROVE NextQuiet
  <2>1. a \in Output /\ b \in L BY <1>1
  <2>2. Lasting(MoveWorkspace(desk, a, b)) BY <1>1, <2>1, MoveWorkspaceAgrees DEF Lasting
  <2> QED BY <1>7, <2>2, BecomesQuiet DEF SendWorkspace
<1>8. ASSUME NEW a \in desk.live, NEW b \in desk.live, SwapWorkspaces(a, b) PROVE NextQuiet
  <2>1. a \in L /\ b \in L BY <1>1
  <2>2. Lasting(Swap(desk, a, b)) BY <1>1, <2>1, SwapAgrees DEF Lasting
  <2> QED BY <1>8, <2>2, BecomesQuiet DEF SwapWorkspaces
<1> QED BY <1>3, <1>4, <1>5, <1>6, <1>7, <1>8 DEF User

\* What a client asks for on no output in particular.
LEMMA RequestsQuiet ==
  ASSUME Quiet, NEW w \in Window,
         \/ RequestUnfullscreen(w) \/ RequestUnmaximize(w)
         \/ CommitFloat(w) \/ ActivateWindow(w) \/ UnmapWindow(w)
  PROVE  NextQuiet
<1> DEFINE L == Reach(desk)
<1>1. /\ Held(desk, L) /\ Settled(desk) /\ Leafed(desk) /\ Agree(desk)
      /\ desk.live = {} \/ desk.live = L
  BY QuietDesk DEF Settled
<1> HIDE DEF L
<1>2. wantsPin = Pins(desk) BY DEF Quiet
<1>3. CASE RequestUnfullscreen(w)
  <2>1. CASE w \in DOMAIN desk.full
    <3>1. Lasting(Unfullscreen(desk, w)) BY <1>1, <2>1, UnfullscreenAgrees DEF Lasting
    <3> QED BY <1>3, <3>1, BecomesQuiet DEF RequestUnfullscreen
  <2>2. CASE w \notin DOMAIN desk.full
    <3>1. Unfullscreen(desk, w) = desk BY <2>2 DEF Unfullscreen, IsFull
    <3>2. Lasting(Unfullscreen(desk, w)) BY <1>1, <3>1 DEF Lasting
    <3> QED BY <1>3, <3>2, BecomesQuiet DEF RequestUnfullscreen
  <2> QED BY <2>1, <2>2
<1>4. CASE RequestUnmaximize(w)
  <2>1. Lasting(Unmaximize(desk, w)) BY <1>1, UnmaximizeAgrees DEF Lasting
  <2> QED BY <1>4, <2>1, BecomesQuiet DEF RequestUnmaximize
<1>5. CASE CommitFloat(w)
  <2>1. Lasting(SyncFloating(desk, w)) BY <1>1, SyncFloatingAgrees DEF Lasting
  <2> QED BY <1>5, <2>1, BecomesQuiet DEF CommitFloat
<1>6. CASE ActivateWindow(w)
  <2>1. w \in desk.mapped BY <1>6 DEF ActivateWindow
  <2>2. Lasting(Activate(desk, w)) BY <1>1, <2>1, ActivateAgrees DEF Lasting
  <2> QED BY <1>6, <2>2, BecomesQuiet DEF ActivateWindow
<1>7. CASE UnmapWindow(w)
  <2>1. Settled(Unmap(desk, w)) /\ Pins(Unmap(desk, w)) = Pins(desk) \ {w}
    BY <1>1, UnmapAgrees
  <2> QED BY <1>2, <1>7, <2>1 DEF UnmapWindow, NextQuiet
<1> QED BY <1>3, <1>4, <1>5, <1>6, <1>7

\* What a client asks for on an output.
LEMMA OutputRequestsQuiet ==
  ASSUME Quiet, NEW w \in Window, NEW o \in desk.live,
         {"earlyFullscreen", "tabModes"} \cap Features = {},
         \/ RequestFullscreen(w, o) \/ RequestMaximize(w, o)
         \/ \E n \in Numbers, rule \in Rules : MapWindow(w, o, n, rule)
  PROVE  NextQuiet
<1> DEFINE L == Reach(desk)
<1>1. /\ Held(desk, L) /\ Settled(desk) /\ Leafed(desk) /\ Agree(desk) /\ L = desk.live
  BY QuietDesk DEF Settled
<1> HIDE DEF L
<1>2. wantsPin = Pins(desk) BY DEF Quiet
<1>3. w \in Homed(desk) => /\ Preferred(desk, w) = At(desk, w)[1]
                           /\ Live(desk, Preferred(desk, w)) = Preferred(desk, w)
                           /\ Preferred(desk, w) # NoOutput
  <2> SUFFICES ASSUME w \in Homed(desk)
               PROVE  /\ Preferred(desk, w) = At(desk, w)[1]
                      /\ Live(desk, Preferred(desk, w)) = Preferred(desk, w)
                      /\ Preferred(desk, w) # NoOutput
    OBVIOUS
  <2>1. /\ Preferred(desk, w) = At(desk, w)[1] /\ At(desk, w)[1] \in L
        /\ At(desk, w)[1] # NoOutput
    BY <1>1, RenderedAt
  <2> QED BY <1>1, <2>1 DEF Live
<1>4. CASE RequestFullscreen(w, o)
  <2>1. /\ w \in desk.mapped /\ o \in FullscreenOutputs(desk, w) /\ ~IsGrouped(desk, w)
        /\ Becomes(Fullscreen(desk, w, o))
    BY <1>4 DEF RequestFullscreen, Plainly
  <2>2. w \in Homed(desk)
    <3>1. desk.mapped = DOMAIN desk.tile \cup DOMAIN desk.tag \cup Parked(desk)
      BY <1>1 DEF Held, Once
    <3>2. w \notin Parked(desk) BY <2>1 DEF Parked, ParkedIn, IsGrouped
    <3> QED BY <2>1, <3>1, <3>2 DEF Homed
  <2>3. o = At(desk, w)[1] BY <1>3, <2>1, <2>2 DEF FullscreenOutputs
  <2>4. Lasting(Fullscreen(desk, w, o)) BY <1>1, <2>1, <2>2, <2>3, FullscreenAgrees DEF Lasting
  <2> QED BY <2>1, <2>4, BecomesQuiet
<1>5. CASE RequestMaximize(w, o)
  <2>1. /\ o = IF Live(desk, Preferred(desk, w)) # NoOutput THEN Preferred(desk, w) ELSE o
        /\ ~IsGrouped(desk, w) /\ Becomes(Maximize(desk, w, o))
    BY <1>5 DEF RequestMaximize, Plainly
  <2>2. w \in Homed(desk) => o = At(desk, w)[1] BY <1>3, <2>1
  <2>3. Lasting(Maximize(desk, w, o)) BY <1>1, <2>1, <2>2, MaximizeAgrees DEF Lasting
  <2> QED BY <2>1, <2>3, BecomesQuiet
<1>6. ASSUME NEW n \in Numbers, NEW rule \in Rules, MapWindow(w, o, n, rule) PROVE NextQuiet
  <2>1. /\ w \notin desk.mapped /\ desk' = Map(desk, w, o, n, rule) /\ stray' = {}
        /\ wantsPin' = IF rule.placed = "pin" THEN wantsPin \cup {w} ELSE wantsPin
    BY <1>6 DEF MapWindow
  <2>2. n \in Workspace /\ o \in L BY <1>1, NumbersAssumption DEF NumbersAssumption
  <2>3. ~IsGrouped(desk, w) BY <1>1, <2>1, UnmappedLoose
  <2>4. /\ Settled(Map(desk, w, o, n, rule))
        /\ Pins(Map(desk, w, o, n, rule)) =
             IF rule.placed = "pin" THEN Pins(desk) \cup {w} ELSE Pins(desk)
    BY <1>1, <2>1, <2>2, <2>3, MapAgrees
  <2> QED BY <1>2, <2>1, <2>4 DEF NextQuiet
<1> QED BY <1>4, <1>5, <1>6

LEMMA HotplugQuiet ==
  ASSUME Quiet, Hotplug, {"outputPins", "staleFocus"} \cap Features = {}
  PROVE  NextQuiet
<1>1. Held(desk, Reach(desk)) /\ Agree(desk) BY QuietDesk DEF Settled
<1>2. wantsPin = Pins(desk) /\ "outputPins" \notin Features BY DEF Quiet
<1>3. ASSUME NEW o \in Output \ desk.live, ConnectOutput(o) PROVE NextQuiet
  <2> DEFINE lit == [desk EXCEPT !.live = @ \cup {o}]
  <2>1. lit = [desk EXCEPT !.live = @ \cup {o}] OBVIOUS
  <2>2. /\ \E orphaned \in SetToSeqs(Owned(lit) \ lit.live) :
             LET e == Adopt(lit, o, orphaned)
             IN \E displaced \in SetToSeqs(Displaced(e, o)) : desk' = Recall(e, o, displaced)
        /\ wantsPin' = wantsPin /\ stray' = {}
    BY <1>3 DEF ConnectOutput
  <2> HIDE DEF lit
  <2>3. PICK orphaned \in SetToSeqs(Owned(lit) \ lit.live) :
          \E displaced \in SetToSeqs(Displaced(Adopt(lit, o, orphaned), o)) :
            desk' = Recall(Adopt(lit, o, orphaned), o, displaced)
    BY <2>2
  <2> DEFINE e == Adopt(lit, o, orphaned)
  <2>4. PICK displaced \in SetToSeqs(Displaced(e, o)) : desk' = Recall(e, o, displaced)
    BY <2>3
  <2>5. e = Adopt(lit, o, orphaned) OBVIOUS
  <2> HIDE DEF e
  <2>6. o \in Output OBVIOUS
  <2>8. /\ Held(desk, Reach(desk)) /\ Agree(desk) /\ "outputPins" \notin Features
        /\ lit = [desk EXCEPT !.live = @ \cup {o}] /\ e = Adopt(lit, o, orphaned)
    BY <1>1, <1>2, <2>1, <2>5
  <2>9. Settles(Recall(e, o, displaced), desk)
    <3>1. /\ orphaned \in SetToSeqs(Owned(lit) \ lit.live)
          /\ displaced \in SetToSeqs(Displaced(e, o))
      BY <2>3, <2>4
    <3> QED BY ONLY <2>6, <2>8, <3>1, ConnectSettles
  <2>7. Settles(desk', desk) BY ONLY <2>4, <2>9
  <2> QED BY <1>2, <2>2, <2>7 DEF Settles, NextQuiet
<1>4. ASSUME NEW o \in desk.live, NEW fallback, DisconnectOutput(o, fallback),
             IF desk.live = {o} THEN fallback = NoOutput ELSE fallback \in desk.live \ {o}
      PROVE  NextQuiet
  <2>1. Lasting(Disconnect(desk, o, fallback)) BY <1>1, <1>4, DisconnectSettles DEF Lasting
  <2> QED BY <1>4, <2>1, BecomesQuiet DEF DisconnectOutput
<1> QED BY <1>3, <1>4 DEF Hotplug

LEMMA InitQuiet == Init => Quiet
<1> SUFFICES ASSUME Init PROVE Quiet OBVIOUS
<1>1. DOMAIN <<>> = {} BY EmptyMap
<1>2. /\ desk.tile = <<>> /\ desk.tag = <<>> /\ desk.full = <<>> /\ desk.maxi = <<>>
      /\ desk.groups = {} /\ desk.pinned = {} /\ desk.pseudo = {} /\ wantsPin = {} /\ stray = {}
  BY DEF Init
<1>3. Moded(desk)
  BY <1>1, <1>2 DEF Moded, PinsFloat, PseudoAt, MaxiAt, FullAt, FullOnce, OverAt, Untabbed
<1>4. InView(desk) /\ LitTiles(desk) BY <1>1, <1>2 DEF InView, LitTiles
<1>5. Leafed(desk) /\ wantsPin = Pins(desk) BY <1>1, <1>2 DEF Leafed, Pins
<1> QED BY <1>2, <1>3, <1>4, <1>5, InitHeld DEF Quiet, Whole, Settled, Agree

LEMMA StepQuiet ==
  ASSUME {"nudges", "tabModes", "outputPins", "earlyFullscreen", "staleFocus"} \cap Features = {}
  PROVE  Quiet /\ [Next]_vars => Quiet'
<1> SUFFICES ASSUME Quiet, [Next]_vars PROVE Quiet' OBVIOUS
<1>0. /\ {"nudges", "tabModes", "outputPins"} \cap Features = {}
      /\ {"earlyFullscreen", "tabModes"} \cap Features = {}
      /\ {"outputPins", "staleFocus"} \cap Features = {}
  OBVIOUS
<1>1. Inv' /\ Leafed(desk)'
  <2>1. Inv /\ Leafed(desk) /\ "tabModes" \notin Features /\ "outputPins" \notin Features
    BY DEF Quiet, Whole
  <2> QED BY <2>1, LeafedStays
<1>2. CASE Next
  <2>1. ASSUME User PROVE NextQuiet BY <1>0, <2>1, UserQuiet
  <2>2. ASSUME Client PROVE NextQuiet BY <1>0, <2>2, RequestsQuiet, OutputRequestsQuiet DEF Client
  <2>3. ASSUME Hotplug PROVE NextQuiet BY <1>0, <2>3, HotplugQuiet
  <2>4. NextQuiet BY <1>2, <2>1, <2>2, <2>3 DEF Next
  <2> QED BY <1>1, <2>4 DEF NextQuiet, Quiet, Whole
<1>3. CASE UNCHANGED vars BY <1>1, <1>3 DEF vars, Quiet, Whole
<1> QED BY <1>2, <1>3

LEMMA QuietShows ==
  ASSUME Quiet
  PROVE  VisibleIsActive
<1> DEFINE L == Reach(desk)
<1>1. Held(desk, L) /\ Settled(desk) /\ L \subseteq Output BY QuietDesk, Aimed DEF Quiet
<1> HIDE DEF L
<1>2. /\ desk.mapped = DOMAIN desk.tile \cup DOMAIN desk.tag \cup Parked(desk)
      /\ DOMAIN desk.tile \cap Parked(desk) = {} /\ DOMAIN desk.tag \cap Parked(desk) = {}
      /\ desk.shown \subseteq DOMAIN desk.tile \cup DOMAIN desk.tag
      /\ DOMAIN desk.tile \cap DOMAIN desk.tag = {}
  BY <1>1 DEF Held, Once
<1>3. PinsFloat(desk) /\ InView(desk) /\ LitTiles(desk) BY <1>1 DEF Settled, Agree, Moded
<1>4. ASSUME NEW w \in desk.mapped \ Parked(desk)
      PROVE  LET k == IF IsTiled(desk, w) THEN desk.tile[w] ELSE desk.tag[w] IN
             k[1] \in desk.live => (w \in desk.shown <=> IsActive(desk, k) \/ w \in desk.pinned)
  <2>1. CASE IsTiled(desk, w)
    <3>1. w \in DOMAIN desk.tile /\ w \notin desk.pinned
      BY <1>2, <1>3, <2>1 DEF IsTiled, PinsFloat
    <3> QED BY <1>3, <2>1, <3>1 DEF InView, LitTiles
  <2>2. CASE ~IsTiled(desk, w)
    <3>1. w \in DOMAIN desk.tag BY <1>2, <1>4, <2>2 DEF IsTiled
    <3> QED BY <1>3, <2>2, <3>1 DEF InView
  <2> QED BY <2>1, <2>2
<1> QED BY <1>2, <1>4 DEF VisibleIsActive

LEMMA QuietModes ==
  ASSUME Quiet
  PROVE  ModesAgree
<1> DEFINE L == Reach(desk)
<1>1. Held(desk, L) /\ Settled(desk) /\ (desk.live # {} => L = desk.live)
  BY QuietDesk
<1> HIDE DEF L
<1>2. Agree(desk) /\ Moded(desk) /\ DOMAIN desk.tile \cap DOMAIN desk.tag = {}
  BY <1>1, DeskMaps DEF Settled, Agree
<1>3. PinnedFloats /\ PinSuspended /\ PseudoTiled /\ MaximizedOwned
  BY <1>2 DEF Moded, PinsFloat, PseudoAt, MaxiAt,
              PinnedFloats, PinSuspended, PseudoTiled, MaximizedOwned, IsTagged, IsTiled
<1>4. OneFullscreen BY <1>2 DEF Moded, FullOnce, OneFullscreen
<1>5. PinIntent BY DEF Quiet, Pins, PinIntent
<1>6. ASSUME NEW w \in DOMAIN desk.full
      PROVE  w \in Homed(desk) /\ At(desk, w)[1] = desk.full[w].output
  BY <1>2 DEF Moded, FullAt, Homed, At, IsTiled
<1>7. FullscreenOwned
  <2> SUFFICES ASSUME NEW w \in DOMAIN desk.full
               PROVE  Preferred(desk, w) = desk.full[w].output
    BY DEF FullscreenOwned
  <2>1. Preferred(desk, w) = At(desk, w)[1] BY <1>1, <1>2, <1>6, RenderedAt
  <2> QED BY <1>6, <2>1
<1>8. ModesLive
  <2> SUFFICES ASSUME desk.live # {}, NEW w
               PROVE  /\ IsFull(desk, w) => desk.full[w].output \in desk.live
                      /\ IsMaxi(desk, w) => desk.maxi[w] \in desk.live
    BY DEF ModesLive
  <2>1. CASE IsFull(desk, w)
    <3>1. w \in DOMAIN desk.full BY <2>1 DEF IsFull
    <3>2. At(desk, w)[1] \in L BY <1>1, <1>2, <1>6, <3>1, RenderedAt
    <3>3. desk.full[w].output \in desk.live BY <1>1, <1>6, <3>1, <3>2
    <3>4. IsMaxi(desk, w) => desk.maxi[w] \in desk.live
      <4> SUFFICES ASSUME IsMaxi(desk, w) PROVE desk.maxi[w] \in desk.live OBVIOUS
      <4>1. w \in DOMAIN desk.tag /\ desk.tag[w][1] = desk.maxi[w]
        BY <1>2 DEF Moded, MaxiAt, IsMaxi
      <4>2. At(desk, w) = desk.tag[w] BY <1>2, <4>1 DEF At, IsTiled
      <4> QED BY <1>1, <3>2, <4>1, <4>2
    <3> QED BY <3>3, <3>4
  <2>2. CASE ~IsFull(desk, w)
    <3> SUFFICES ASSUME IsMaxi(desk, w) PROVE desk.maxi[w] \in desk.live BY <2>2
    <3>1. w \in DOMAIN desk.tag /\ desk.tag[w][1] = desk.maxi[w]
      BY <1>2 DEF Moded, MaxiAt, IsMaxi
    <3>2. At(desk, w) = desk.tag[w] /\ w \in Homed(desk) BY <1>2, <3>1 DEF At, IsTiled, Homed
    <3>3. At(desk, w)[1] \in L BY <1>1, <1>2, <3>2, RenderedAt
    <3> QED BY <1>1, <3>1, <3>2, <3>3
  <2> QED BY <2>1, <2>2
<1> QED BY <1>3, <1>4, <1>5, <1>7, <1>8 DEF ModesAgree

\* What is on the screen is what the maps say: on a lit output a window is visible
\* exactly if its workspace is the open one or it is pinned, and a parked tab never
\* is, through every switch, send, float, pin, fullscreen, tab, map and unmap, and
\* every unplug and replug of a display.
THEOREM WhatIsShown ==
  ASSUME {"nudges", "tabModes", "outputPins", "earlyFullscreen", "staleFocus"} \cap Features = {}
  PROVE  Spec => []VisibleIsActive
<1>1. Init => Quiet BY InitQuiet
<1>2. Quiet /\ [Next]_vars => Quiet' BY StepQuiet
<1>3. Quiet => VisibleIsActive BY QuietShows
<1> QED BY <1>1, <1>2, <1>3, PTL DEF Spec

\* The modes of a window agree with its place and with what the user asked for:
\* only floaters are pinned and only tiles pseudo-tiled, a maximized or fullscreen
\* window belongs to the one lit output it covers, and a pin outlives fullscreen,
\* demotion, migration and recall until the user takes it back.
THEOREM ModesFollowPlaces ==
  ASSUME {"nudges", "tabModes", "outputPins", "earlyFullscreen", "staleFocus"} \cap Features = {}
  PROVE  Spec => []ModesAgree
<1>1. Init => Quiet BY InitQuiet
<1>2. Quiet /\ [Next]_vars => Quiet' BY StepQuiet
<1>3. Quiet => ModesAgree BY QuietModes
<1> QED BY <1>1, <1>2, <1>3, PTL DEF Spec
=============================================================================
