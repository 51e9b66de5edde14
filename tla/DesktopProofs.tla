---------------------------- MODULE DesktopProofs ----------------------------
(***************************************************************************)
(* Proofs about keyboard focus, for any windows, layer surfaces, menus and *)
(* workspaces: after every step the keyboard has the one owner that the    *)
(* priorities give, everything that depends on it agrees, and no menu      *)
(* grab is left behind.  One lemma about reconcile_keyboard_focus carries  *)
(* the proof: whatever the step did before it, the seat, the activated     *)
(* state and the menu grab come out right, if the pointer's grab is owed   *)
(* (GrabAnswers).                                                          *)
(*                                                                         *)
(* And about window ownership, for any windows, monitors and workspaces:   *)
(* every window has the owner it should in the tables of two engines, the  *)
(* two translations lose and rearrange nothing, and Classic to Ocean and   *)
(* back shows what was shown (EsInv, and the geometry of the islands).     *)
(***************************************************************************)
EXTENDS Focus, EngineSwitch, FiniteSetTheorems, NaturalsInduction, WellFoundedInduction,
        SequenceTheorems, TLAPS

\* The pointer's grab is one that the tracked menus answer to, or its release is
\* already queued.
GrabAnswers == grabbed # Nobody => grabbed \in menu.serials \/ grabbed \in releasing

\* A tracked chain of menus answers to a serial.
MenusAnswer == menu # NoMenu => menu.serials # {}

MenuType == [root : Targets, open : Seq(Menus), typing : BOOLEAN, serials : SUBSET Menus]

World ==
  /\ home \in [Windows -> Desks \cup {0}] /\ desk \in Desks
  /\ keyboard \in [Layers -> {"unmapped", "none", "on_demand", "exclusive"}]
  /\ lock \in BOOLEAN /\ lockSurface \in BOOLEAN
  /\ grabbed \in Menus \cup {Nobody}

OwnerType ==
  /\ intent \in Windows \cup {Nobody} /\ onDemand \in Layers \cup {Nobody}
  /\ focus \in Targets /\ seat \in Targets \cup Menus
  /\ activated \subseteq Windows /\ urgent \subseteq Windows

Listed(s) == s \in Seq(Windows) /\ IsInjective(s) /\ Range(s) \subseteq Windows

\* What reconcile_keyboard_focus leaves behind.
Settled ==
  /\ OwnerType /\ Listed(history) /\ menu \in MenuType /\ releasing \subseteq Menus
  /\ OwnerFollowsPriority /\ OneOwner /\ MenuBelongsToOwner
  /\ GrabAnswers /\ MenusAnswer

FoInv == World /\ Settled /\ walk \in Seq(Windows)

-----------------------------------------------------------------------------
(* Operators.                                                              *)

(* Among finitely many layers, ranked apart, one is the highest: the set of *)
(* those above it is a least one.                                           *)
LEMMA HighestExists ==
  ASSUME NEW E \in SUBSET Layers, E # {}
  PROVE  (CHOOSE l \in E : \A k \in E : Above[k] <= Above[l]) \in E
<1> DEFINE up(l) == {k \in E : Above[k] > Above[l]}
           ups == {up(l) : l \in E}
<1>1. /\ IsFiniteSet(E) /\ Above \in [Layers -> Nat]
  BY FoAssumption, FS_Subset DEF FoAssumption
<1>2. IsWellFoundedOn(StrictSubsetOrdering(E), SUBSET E)
  BY <1>1, FS_StrictSubsetOrderingWellFounded, FS_FiniteSubsetsOfFinite
<1>3. ups \subseteq SUBSET E /\ ups # {}
  OBVIOUS
<1>4. PICK u \in ups : \A v \in ups : ~ (<<v, u>> \in StrictSubsetOrdering(E))
  <2> HIDE DEF ups
  <2> QED  BY <1>2, <1>3, WFMin
<1>5. PICK l \in E : u = up(l)
  BY <1>4
<1>6. \A k \in E : Above[k] <= Above[l]
  <2> SUFFICES ASSUME NEW k \in E, ~ (Above[k] <= Above[l]) PROVE FALSE
    OBVIOUS
  <2>1. Above[k] \in Nat /\ Above[l] \in Nat /\ k \in up(l)
    BY <1>1
  <2>2. up(k) \subseteq up(l) /\ k \notin up(k)
    <3> SUFFICES ASSUME NEW j \in E, Above[j] > Above[k] PROVE Above[j] > Above[l]
      BY <2>1
    <3> QED  BY <2>1, <1>1
  <2>3. <<up(k), up(l)>> \in StrictSubsetOrdering(E)
    BY <2>1, <2>2 DEF StrictSubsetOrdering
  <2> QED  BY <2>3, <1>4, <1>5
<1> QED  BY <1>6

(* A listed window taken out leaves the others, in order and once each.    *)
LEMMA UnlistedProperties ==
  ASSUME NEW S, NEW s \in Seq(S), IsInjective(s), NEW x
  PROVE  /\ Unlisted(s, x) \in Seq(S) /\ IsInjective(Unlisted(s, x))
         /\ Range(Unlisted(s, x)) = Range(s) \ {x}
<1>1. CASE x \notin Range(s)
  BY <1>1 DEF Unlisted
<1>2. CASE x \in Range(s)
  <2> DEFINE i == CHOOSE j \in DOMAIN s : s[j] = x
             t == RemoveAt(s, i)
  <2>1. i \in 1 .. Len(s) /\ s[i] = x
    BY <1>2 DEF Range
  <2> HIDE DEF i
  <2>2. /\ t \in Seq(S) /\ Len(t) = Len(s) - 1
        /\ \A j \in 1 .. Len(t) : t[j] = IF j < i THEN s[j] ELSE s[j + 1]
    <3> DEFINE u == SubSeq(s, 1, i - 1)
               v == SubSeq(s, i + 1, Len(s))
    <3>1. u \in Seq(S) /\ Len(u) = i - 1 /\ \A j \in 1 .. i - 1 : u[j] = s[j]
      BY <2>1
    <3>2. /\ v \in Seq(S) /\ Len(v) = Len(s) - i
          /\ \A j \in 1 .. Len(s) - i : v[j] = s[i + j]
      BY <2>1
    <3>3. t = u \o v
      BY DEF RemoveAt
    <3> HIDE DEF t, u, v
    <3>4. t \in Seq(S) /\ Len(t) = Len(s) - 1
      <4>1. u \o v \in Seq(S) /\ Len(u \o v) = Len(u) + Len(v)
        BY <3>1, <3>2, ConcatProperties, Zenon
      <4> QED  BY <4>1, <2>1, <3>1, <3>2, <3>3
    <3>5. ASSUME NEW j \in 1 .. Len(t) PROVE t[j] = IF j < i THEN s[j] ELSE s[j + 1]
      <4>1. CASE j < i
        BY <4>1, <2>1, <3>1, <3>2, <3>3, <3>4
      <4>2. CASE ~ (j < i)
        <5>1. t[j] = v[j - (i - 1)] /\ j - (i - 1) \in 1 .. Len(s) - i
          BY <4>2, <2>1, <3>1, <3>2, <3>3, <3>4
        <5> QED  BY <5>1, <4>2, <3>2, <2>1
      <4> QED  BY <4>1, <4>2
    <3> QED  BY <3>4, <3>5
  <2> HIDE DEF t
  <2>3. IsInjective(t)
    <3> SUFFICES ASSUME NEW j \in 1 .. Len(t), NEW k \in 1 .. Len(t), t[j] = t[k] PROVE j = k
      BY <2>2 DEF IsInjective
    <3> DEFINE J == IF j < i THEN j ELSE j + 1
               K == IF k < i THEN k ELSE k + 1
    <3>1. J \in 1 .. Len(s) /\ K \in 1 .. Len(s) /\ s[J] = s[K]
      BY <2>1, <2>2
    <3>2. J = K
      BY <3>1 DEF IsInjective
    <3> QED  BY <3>2, <2>1
  <2>4. Range(t) \subseteq Range(s) \ {x}
    <3> SUFFICES ASSUME NEW j \in 1 .. Len(t) PROVE t[j] \in Range(s) /\ t[j] # x
      BY <2>2 DEF Range
    <3> QED  BY <2>1, <2>2 DEF Range, IsInjective
  <2>5. Range(s) \ {x} \subseteq Range(t)
    <3> SUFFICES ASSUME NEW j \in 1 .. Len(s), s[j] # x PROVE s[j] \in Range(t)
      BY DEF Range
    <3>1. CASE j < i
      BY <3>1, <2>1, <2>2 DEF Range
    <3>2. CASE j > i
      <4>1. j - 1 \in 1 .. Len(t) /\ t[j - 1] = s[j]
        BY <3>2, <2>1, <2>2
      <4> QED  BY <4>1, <2>2 DEF Range
    <3> QED  BY <3>1, <3>2, <2>1
  <2> QED  BY <1>2, <2>2, <2>3, <2>4, <2>5 DEF Unlisted, i, t
<1> QED  BY <1>1, <1>2

(* Focusing a window lists it first, once.                                 *)
LEMMA ListedFirst ==
  ASSUME NEW s \in Seq(Windows), IsInjective(s), NEW x \in Windows
  PROVE  /\ <<x>> \o Unlisted(s, x) \in Seq(Windows)
         /\ IsInjective(<<x>> \o Unlisted(s, x))
         /\ Range(<<x>> \o Unlisted(s, x)) \subseteq Windows
<1> DEFINE t == Unlisted(s, x)
           r == <<x>> \o t
<1>1. t \in Seq(Windows) /\ IsInjective(t) /\ x \notin Range(t)
  BY UnlistedProperties
<1> HIDE DEF t
<1>2. /\ r \in Seq(Windows) /\ Len(r) = Len(t) + 1
      /\ \A j \in 1 .. Len(r) : r[j] = IF j = 1 THEN x ELSE t[j - 1]
  BY <1>1
<1> HIDE DEF r
<1>3. \A j \in 1 .. Len(r) : j # 1 => r[j] # x
  BY <1>1, <1>2 DEF Range
<1>4. IsInjective(r)
  <2> SUFFICES ASSUME NEW i \in 1 .. Len(r), NEW j \in 1 .. Len(r), r[i] = r[j] PROVE i = j
    BY <1>2 DEF IsInjective
  <2>1. CASE i = 1 \/ j = 1
    BY <2>1, <1>2, <1>3
  <2>2. CASE i # 1 /\ j # 1
    <3>1. t[i - 1] = t[j - 1] /\ i - 1 \in 1 .. Len(t) /\ j - 1 \in 1 .. Len(t)
      BY <2>2, <1>1, <1>2
    <3>2. i - 1 = j - 1
      BY <3>1, <1>1 DEF IsInjective
    <3> QED  BY <3>2
  <2> QED  BY <2>1, <2>2
<1>5. Range(r) \subseteq Windows
  BY <1>2 DEF Range
<1> QED  BY <1>2, <1>4, <1>5 DEF r, t

(* Last and Front of a chain of menus.                                     *)
LEMMA ChainEnds ==
  ASSUME NEW S, NEW s \in Seq(S), s # <<>>
  PROVE  Last(s) \in Range(s) /\ Last(s) \in S /\ Front(s) \in Seq(S)
         /\ Range(Front(s)) \subseteq Range(s)
<1>1. Len(s) \in 1 .. Len(s)
  OBVIOUS
<1>2. /\ Front(s) \in Seq(S) /\ Len(Front(s)) = Len(s) - 1
      /\ \A j \in 1 .. Len(s) - 1 : Front(s)[j] = s[j]
  <2> DEFINE n == Len(s) - 1
  <2>1. n \in Int /\ 1 \in Int /\ n >= 0
    BY <1>1
  <2>2. \A j \in 1 .. n : s[j] \in S
    BY <1>1
  <2>3. /\ SubSeq(s, 1, n) \in Seq(S) /\ Len(SubSeq(s, 1, n)) = IF 1 <= n THEN n - 1 + 1 ELSE 0
        /\ \A j \in 1 .. n - 1 + 1 : SubSeq(s, 1, n)[j] = s[1 + j - 1]
    <3> HIDE DEF n
    <3> QED  BY <2>1, <2>2, SubSeqProperties
  <2>4. Len(SubSeq(s, 1, n)) = n /\ \A j \in 1 .. n : SubSeq(s, 1, n)[j] = s[j]
    <3> HIDE DEF n
    <3> QED  BY <2>1, <2>3
  <2> QED  BY <2>3, <2>4, Zenon DEF Front
<1> QED  BY <1>1, <1>2 DEF Last, Range

-----------------------------------------------------------------------------
(* reconcile_keyboard_focus.                                               *)

LEMMA FoInitIsSettled == FoInit => FoInv
<1> USE DEF FoInit
<1>1. FoInit => World /\ OwnerType /\ Listed(history) /\ walk \in Seq(Windows)
  <2>1. FoInit => World
    BY DEF World
  <2>2. FoInit => OwnerType
    BY DEF OwnerType, Targets
  <2>3. <<>> \in Seq(Windows) /\ DOMAIN <<>> = {}
    OBVIOUS
  <2>4. FoInit => Listed(history)
    BY <2>3 DEF Listed, IsInjective, Range
  <2> QED  BY <2>1, <2>2, <2>3, <2>4
<1>2. FoInit => menu \in MenuType /\ releasing \subseteq Menus
  BY DEF MenuType, NoMenu, Targets
<1>3. FoInit => Exclusives = {} /\ ~ Preempted
  BY DEF Exclusives, Exclusive, Preempted
<1>4. FoInit => OwnerFollowsPriority /\ OneOwner /\ MenuBelongsToOwner /\ GrabAnswers /\ MenusAnswer
  BY <1>3, FoAssumption
    DEF OwnerFollowsPriority, OneOwner, MenuBelongsToOwner, GrabAnswers, MenusAnswer,
        Meant, SeatOf, NoMenu, FoAssumption
<1> QED  BY <1>1, <1>2, <1>4 DEF FoInv, Settled

(* Whatever a step does first, reconciling settles the keyboard, if the    *)
(* window wanted is one, the history lists each once, nothing new asks for *)
(* attention, windows gone are out of sight, and the pointer's grab is one *)
(* of the menus' or queued for release.                                    *)
LEMMA ReconcileSettles ==
  ASSUME World, Settled, World',
         NEW win \in Windows \cup {Nobody}, NEW dem \in Layers \cup {Nobody},
         NEW old, Listed(old), NEW asks, asks \subseteq urgent,
         NEW pop \in MenuType, pop # NoMenu => pop.serials # {},
         NEW queued, queued \subseteq Menus, NEW gone, gone \cap Visible' = {},
         grabbed' # Nobody => grabbed' \in pop.serials \cup queued,
         NEW cycling \in BOOLEAN,
         Reconcile(win, dem, old, asks, pop, queued, gone, cycling)
  PROVE  Settled'
<1> DEFINE win1   == IF win \in Visible' THEN win ELSE Nobody
           dem1   == IF dem # Nobody /\ keyboard'[dem] = "on_demand" THEN dem ELSE Nobody
           target == IF Preempted' THEN Preempter' ELSE Meant(win1, dem1)
           leaves == pop.typing /\ target # pop.root
           pop1   == IF leaves THEN NoMenu ELSE pop
           moved  == target # focus /\ (target \in Windows \/ focus \in Windows)
<1>1. /\ intent' = win1 /\ onDemand' = dem1 /\ focus' = target /\ menu' = pop1
      /\ releasing' = queued \cup (IF leaves THEN Released(pop) ELSE {})
      /\ seat' = SeatOf(target, pop1)
  BY DEF Reconcile, Remembered
<1>2. IF moved
        THEN /\ activated' = ((activated \ {focus}) \cup ({target} \cap Windows)) \ gone
             /\ urgent' = asks \ {target}
             /\ history' = IF target \in Windows /\ ~cycling
                             THEN <<target>> \o Unlisted(old, target) ELSE old
        ELSE activated' = activated \ gone /\ urgent' = asks /\ history' = old
  BY DEF Reconcile, Remembered
<1>3. /\ win1 \in Windows \cup {Nobody} /\ (win1 # Nobody => win1 \in Visible')
      /\ dem1 \in Layers \cup {Nobody}
      /\ (dem1 # Nobody => keyboard'[dem1] = "on_demand")
  OBVIOUS
<1>4. Exclusive' \in Layers \cup {Nobody}
  BY HighestExists DEF Exclusive, Exclusives
<1> HIDE DEF win1, dem1
<1>5. /\ target \in Targets
      /\ target \in Windows => target \in Visible'
  <2>1. CASE Preempted'
    <3>1. target \in Layers \cup {Nobody, LockScreen}
      BY <2>1, <1>4 DEF Preempter
    <3> QED  BY <3>1, FoAssumption DEF Targets, FoAssumption
  <2>2. CASE ~ Preempted'
    <3>1. target = IF dem1 # Nobody THEN dem1 ELSE win1
      BY <2>2 DEF Meant
    <3> QED  BY <3>1, <1>3, FoAssumption DEF Targets, FoAssumption
  <2> QED  BY <2>1, <2>2
<1>6. OwnerFollowsPriority'
  BY <1>1, <1>3 DEF OwnerFollowsPriority
<1> HIDE DEF target
<1>7. pop1 \in MenuType /\ (pop1 # NoMenu => pop1.serials # {})
  <2>1. NoMenu \in MenuType
    <3>1. Nobody \in Targets /\ <<>> \in Seq(Menus)
      BY DEF Targets
    <3> QED  BY <3>1 DEF MenuType, NoMenu
  <2> QED  BY <2>1
<1>8. pop1.typing => pop1.root = target
  BY DEF NoMenu
<1>9. SeatOf(target, pop1) \in Targets \cup Menus
  <2>1. pop1.open \in Seq(Menus)
    BY <1>7 DEF MenuType
  <2>2. pop1.open # <<>> => Last(pop1.open) \in Menus
    BY <2>1, ChainEnds
  <2> QED  BY <2>2, <1>5 DEF SeatOf
<1>10. activated' = {target} \cap Windows /\ target \notin urgent' /\ urgent' \subseteq Windows
  <2>1. activated = {focus} \cap Windows /\ focus \notin urgent /\ urgent \subseteq Windows
    BY DEF Settled, OneOwner, OwnerType
  <2>2. target \in Windows => target \notin gone
    BY <1>5
  <2>3. CASE moved
    BY <2>1, <2>2, <2>3, <1>2
  <2>4. CASE ~ moved
    BY <2>1, <2>2, <2>4, <1>2
  <2> QED  BY <2>3, <2>4
<1>11. Listed(history')
  <2>1. CASE history' = old
    BY <2>1
  <2>2. CASE target \in Windows /\ history' = <<target>> \o Unlisted(old, target)
    BY <2>2, ListedFirst DEF Listed
  <2> QED  BY <2>1, <2>2, <1>2
<1>12. OwnerType'
  BY <1>1, <1>3, <1>5, <1>9, <1>10 DEF OwnerType
<1>13. releasing' \subseteq Menus
  BY <1>1 DEF Released, MenuType
<1>14. OneOwner' /\ MenuBelongsToOwner' /\ MenusAnswer'
  BY <1>1, <1>7, <1>8, <1>10 DEF OneOwner, MenuBelongsToOwner, MenusAnswer
<1>15. GrabAnswers'
  BY <1>1 DEF GrabAnswers, Released
<1> QED  BY <1>1, <1>6, <1>7, <1>11, <1>12, <1>13, <1>14, <1>15 DEF Settled

LEMMA SettleSettles ==
  ASSUME World, Settled, World', grabbed' = grabbed,
         NEW win \in Windows \cup {Nobody}, NEW dem \in Layers \cup {Nobody},
         Settle(win, dem)
  PROVE  Settled'
<1>1. /\ Listed(history) /\ urgent \subseteq urgent /\ menu \in MenuType
      /\ (menu # NoMenu => menu.serials # {}) /\ releasing \subseteq Menus
      /\ (grabbed' # Nobody => grabbed' \in menu.serials \cup releasing)
  BY DEF Settled, MenusAnswer, GrabAnswers
<1>2. Reconcile(win, dem, history, urgent, menu, releasing, {}, FALSE)
  BY DEF Settle
<1> QED  BY <1>1, <1>2, ReconcileSettles

(* Focus falls back to a window, or to nobody.                             *)
LEMMA FallbackType ==
  ASSUME NEW old, NEW shown \in SUBSET Windows
  PROVE  Recent(old, shown) \subseteq Windows \cup {Nobody}
BY DEF Recent

LEMMA RepairedType ==
  ASSUME NEW win, NEW old, NEW byLayer
  PROVE  Repaired(win, old, byLayer) \subseteq Windows \cup {Nobody}
<1>1. Visible' \subseteq Windows
  BY DEF Visible
<1>2. Recent(old, Visible') \subseteq Windows \cup {Nobody}
  BY <1>1, FallbackType
<1> QED  BY <1>1, <1>2 DEF Repaired

(* A chain of menus forgotten with its root queues what it answered to.    *)
LEMMA ForgetType ==
  ASSUME NEW pop \in MenuType, NEW root,
         pop # NoMenu => pop.serials # {}
  PROVE  /\ Forget(pop, root) \in MenuType /\ Dropped(pop, root) \subseteq Menus
         /\ Forget(pop, root) # NoMenu => Forget(pop, root).serials # {}
         /\ pop.serials \subseteq Forget(pop, root).serials \cup Dropped(pop, root)
<1>1. NoMenu \in MenuType
  BY DEF MenuType, NoMenu, Targets
<1>2. pop.serials \subseteq Menus
  BY DEF MenuType
<1> QED  BY <1>1, <1>2 DEF Forget, Dropped, Released

-----------------------------------------------------------------------------
(* The steps.                                                              *)

LEMMA WindowStep ==
  ASSUME FoInv, NEW w \in Windows,
         \/ \E d \in Desks : MoveAway(w, d) \/ MapWindow(w, d, FALSE)
         \/ Activate(w)
  PROVE  World' /\ Settled' /\ walk' = <<>>
<1>1. World /\ Settled
  BY DEF FoInv
<1>2. CASE \E d \in Desks : MoveAway(w, d)
  <2>1. PICK d \in Desks : MoveAway(w, d)
    BY <1>2
  <2>2. World' /\ grabbed' = grabbed /\ walk' = <<>>
    BY <1>1, <2>1 DEF MoveAway, World, locks
  <2>3. PICK next \in Recent(history, Visible') : Settle(next, Nobody)
    BY <2>1 DEF MoveAway, FocusWindow
  <2>4. next \in Windows \cup {Nobody}
    BY <2>3, FallbackType DEF Visible
  <2> QED  BY <1>1, <2>2, <2>3, <2>4, SettleSettles
<1>3. CASE \E d \in Desks : MapWindow(w, d, FALSE)
  <2>1. PICK d \in Desks : MapWindow(w, d, FALSE)
    BY <1>3
  <2>2. World' /\ grabbed' = grabbed /\ walk' = <<>>
    BY <1>1, <2>1 DEF MapWindow, World, locks
  <2>3. Settle(w, Nobody)
    BY <2>1 DEF MapWindow, FocusWindow
  <2> QED  BY <1>1, <2>2, <2>3, SettleSettles
<1>4. CASE Activate(w)
  <2>1. World' /\ grabbed' = grabbed /\ walk' = <<>>
    BY <1>1, <1>4 DEF Activate, World, locks
  <2>2. Settle(w, Nobody)
    BY <1>4 DEF Activate, FocusWindow
  <2> QED  BY <1>1, <2>1, <2>2, SettleSettles
<1> QED  BY <1>2, <1>3, <1>4

LEMMA HoverStep ==
  ASSUME FoInv, NEW w \in Windows \cup {Nobody}, Hover(w)
  PROVE  World' /\ Settled' /\ walk' = <<>>
<1>1. World /\ Settled
  BY DEF FoInv
<1>2. World' /\ grabbed' = grabbed /\ walk' = <<>>
  BY <1>1 DEF Hover, World, locks, desktop
<1>3. Settle(w, Nobody)
  BY DEF Hover, FocusWindow
<1> QED  BY <1>1, <1>2, <1>3, SettleSettles

(* A window that opens quietly or asks for attention takes nothing.        *)
LEMMA QuietStep ==
  ASSUME FoInv, NEW w \in Windows,
         (\E d \in Desks : MapWindow(w, d, TRUE)) \/ MarkUrgent(w)
  PROVE  World' /\ Settled' /\ walk' \in {<<>>, walk}
<1>1. World /\ Settled
  BY DEF FoInv
<1>2. CASE \E d \in Desks : MapWindow(w, d, TRUE)
  <2>1. PICK d \in Desks : MapWindow(w, d, TRUE)
    BY <1>2
  <2>2. World' /\ walk' = <<>> /\ UNCHANGED <<keyboard, locks, wants, owner, history, urgent, menu, releasing, grabbed>>
    BY <1>1, <2>1 DEF MapWindow, World, locks
  <2>3. intent # Nobody => intent \in Visible'
    <3>1. home[w] = 0 /\ desk' = desk /\ desk # 0
      BY <1>1, <2>1, FoAssumption DEF MapWindow, World, FoAssumption
    <3>2. home \in [Windows -> Desks \cup {0}] /\ (intent # Nobody => intent \in Visible)
      BY <1>1 DEF World, Settled, OwnerFollowsPriority
    <3>3. \A v \in Windows : home[v] = desk => home'[v] = desk'
      BY <3>1, <3>2, <2>1 DEF MapWindow
    <3> QED  BY <3>2, <3>3 DEF Visible
  <2>4. Preempted' = Preempted /\ Preempter' = Preempter
    BY <2>2 DEF Preempted, Preempter, Exclusive, Exclusives, locks
  <2>5. OwnerFollowsPriority'
    BY <1>1, <2>2, <2>3, <2>4 DEF OwnerFollowsPriority, Settled, Meant, wants, owner, locks
  <2> QED  BY <1>1, <2>2, <2>5 DEF Settled, OwnerType, OneOwner, MenuBelongsToOwner, GrabAnswers, MenusAnswer, wants, owner
<1>3. CASE MarkUrgent(w)
  <2>1. /\ World' /\ walk' = walk /\ urgent' = urgent \cup {w} /\ intent # w
        /\ UNCHANGED <<desktop, keyboard, locks, wants, owner, history, pops>>
    BY <1>1, <1>3 DEF MarkUrgent, World, desktop, locks, pops
  <2>2. OwnerFollowsPriority'
    BY <1>1, <2>1
      DEF OwnerFollowsPriority, Settled, Meant, wants, owner, locks, desktop, Visible,
          Preempted, Preempter, Exclusive, Exclusives
  <2>3. focus # w
    <3>1. Exclusive \in Layers \cup {Nobody}
      BY HighestExists DEF Exclusive, Exclusives
    <3>2. focus \in {Exclusive, LockScreen, Nobody, intent} \cup Layers
      BY <1>1 DEF Settled, OwnerFollowsPriority, Preempter, Meant, OwnerType
    <3> QED  BY <2>1, <3>1, <3>2, FoAssumption DEF FoAssumption
  <2>4. OneOwner'
    BY <1>1, <2>1, <2>3 DEF Settled, OneOwner, owner, pops, SeatOf
  <2> QED  BY <1>1, <2>1, <2>2, <2>4 DEF Settled, OwnerType, MenuBelongsToOwner, GrabAnswers, MenusAnswer, wants, owner, pops
<1> QED  BY <1>2, <1>3

LEMMA CloseStep ==
  ASSUME FoInv, NEW w \in Windows, CloseWindow(w)
  PROVE  World' /\ Settled' /\ walk' = <<>>
<1>1. World /\ Settled /\ OwnerType /\ Listed(history) /\ menu \in MenuType /\ releasing \subseteq Menus
  BY DEF FoInv, Settled
<1>2. World' /\ grabbed' = grabbed /\ walk' = <<>>
  BY <1>1 DEF CloseWindow, World, locks
<1>3. PICK next \in Repaired(intent, Unlisted(history, w), FALSE) :
        Reconcile(next, onDemand, Unlisted(history, w), urgent \ {w},
                  Forget(menu, w), releasing \cup Dropped(menu, w), {w}, FALSE)
  BY DEF CloseWindow
<1>4. next \in Windows \cup {Nobody}
  BY <1>3, RepairedType
<1>5. Listed(Unlisted(history, w))
  BY <1>1, UnlistedProperties DEF Listed
<1>6. {w} \cap Visible' = {}
  <2>1. home'[w] = 0 /\ desk' # 0
    BY <1>1, FoAssumption DEF CloseWindow, World, FoAssumption
  <2> QED  BY <2>1 DEF Visible
<1>7. /\ Forget(menu, w) \in MenuType /\ releasing \cup Dropped(menu, w) \subseteq Menus
      /\ (Forget(menu, w) # NoMenu => Forget(menu, w).serials # {})
      /\ (grabbed' # Nobody => grabbed' \in Forget(menu, w).serials \cup (releasing \cup Dropped(menu, w)))
  BY <1>1, <1>2, ForgetType DEF Settled, MenusAnswer, GrabAnswers
<1>8. onDemand \in Layers \cup {Nobody} /\ urgent \ {w} \subseteq urgent
  BY <1>1 DEF OwnerType
<1> QED  BY <1>1, <1>2, <1>3, <1>4, <1>5, <1>6, <1>7, <1>8, ReconcileSettles

LEMMA SwitchStep ==
  ASSUME FoInv, NEW d \in Desks, SwitchTo(d)
  PROVE  World' /\ Settled' /\ walk' = <<>>
<1>1. World /\ Settled
  BY DEF FoInv
<1>2. World' /\ grabbed' = grabbed /\ walk' = <<>>
  BY <1>1 DEF SwitchTo, World, locks
<1>3. PICK next \in Recent(history, Visible') : Settle(next, Nobody)
  BY DEF SwitchTo, FocusWindow
<1>4. next \in Windows \cup {Nobody}
  BY <1>3, FallbackType DEF Visible
<1> QED  BY <1>1, <1>2, <1>3, <1>4, SettleSettles

(* Layer surfaces.                                                         *)
LEMMA LayerStep ==
  ASSUME FoInv, NEW l \in Layers,
         \/ UnmapLayer(l)
         \/ \E k \in {"none", "on_demand", "exclusive"} : MapLayer(l, k) \/ CommitLayer(l, k)
  PROVE  World' /\ Settled' /\ walk' = <<>>
<1>1. World /\ Settled /\ OwnerType /\ Listed(history) /\ menu \in MenuType /\ releasing \subseteq Menus
  BY DEF FoInv, Settled
<1>2. CASE \E k \in {"none", "on_demand", "exclusive"} : MapLayer(l, k) \/ CommitLayer(l, k)
  <2>1. PICK k \in {"none", "on_demand", "exclusive"} : MapLayer(l, k) \/ CommitLayer(l, k)
    BY <1>2
  <2>2. /\ keyboard' = [keyboard EXCEPT ![l] = k] /\ UNCHANGED <<desktop, locks, grabbed>>
        /\ walk' = <<>>
    BY <2>1 DEF MapLayer, CommitLayer
  <2>3. World'
    BY <1>1, <2>2 DEF World, desktop, locks
  <2>4. PICK dem \in {l, onDemand} : Settle(intent, dem)
    BY <2>1 DEF MapLayer, CommitLayer
  <2>5. intent \in Windows \cup {Nobody} /\ dem \in Layers \cup {Nobody}
    BY <1>1, <2>4 DEF OwnerType
  <2> QED  BY <1>1, <2>2, <2>3, <2>4, <2>5, SettleSettles
<1>3. CASE UnmapLayer(l)
  <2> DEFINE dem == IF onDemand = l THEN Nobody ELSE onDemand
  <2>1. World' /\ grabbed' = grabbed /\ walk' = <<>>
    BY <1>1, <1>3 DEF UnmapLayer, World, desktop, locks
  <2>2. PICK next \in Repaired(intent, history, TRUE) :
          Reconcile(next, dem, history, urgent,
                    Forget(menu, l), releasing \cup Dropped(menu, l), {}, FALSE)
    BY <1>3 DEF UnmapLayer
  <2>3. next \in Windows \cup {Nobody}
    BY <2>2, RepairedType
  <2>4. dem \in Layers \cup {Nobody} /\ urgent \subseteq urgent /\ {} \cap Visible' = {}
    BY <1>1 DEF OwnerType
  <2>5. /\ Forget(menu, l) \in MenuType /\ releasing \cup Dropped(menu, l) \subseteq Menus
        /\ (Forget(menu, l) # NoMenu => Forget(menu, l).serials # {})
        /\ (grabbed' # Nobody => grabbed' \in Forget(menu, l).serials \cup (releasing \cup Dropped(menu, l)))
    BY <1>1, <2>1, ForgetType DEF Settled, MenusAnswer, GrabAnswers
  <2> HIDE DEF dem
  <2> QED  BY <1>1, <2>1, <2>2, <2>3, <2>4, <2>5, ReconcileSettles
<1> QED  BY <1>2, <1>3

(* The session lock.                                                       *)
LEMMA LockStep ==
  ASSUME FoInv, LockSession \/ RegisterLockSurface \/ Unlock
  PROVE  World' /\ Settled' /\ walk' = <<>>
<1>1. World /\ Settled /\ OwnerType /\ Listed(history) /\ menu \in MenuType /\ releasing \subseteq Menus
  BY DEF FoInv, Settled
<1>2. intent \in Windows \cup {Nobody} /\ onDemand \in Layers \cup {Nobody}
  BY <1>1 DEF OwnerType
<1>3. CASE RegisterLockSurface \/ Unlock
  <2>1. World' /\ grabbed' = grabbed /\ walk' = <<>>
    BY <1>1, <1>3 DEF RegisterLockSurface, Unlock, World, desktop
  <2>2. Settle(intent, onDemand)
    BY <1>3 DEF RegisterLockSurface, Unlock
  <2> QED  BY <1>1, <1>2, <2>1, <2>2, SettleSettles
<1>4. CASE LockSession
  <2>1. World' /\ grabbed' = Nobody /\ walk' = <<>>
    BY <1>1, <1>4 DEF LockSession, World, desktop
  <2>2. Reconcile(intent, onDemand, history, urgent, NoMenu,
                  releasing \cup Released(menu), {}, FALSE)
    BY <1>4 DEF LockSession
  <2>3. NoMenu \in MenuType /\ releasing \cup Released(menu) \subseteq Menus /\ {} \cap Visible' = {}
    BY <1>1 DEF MenuType, NoMenu, Targets, Released
  <2> QED  BY <1>1, <1>2, <2>1, <2>2, <2>3, ReconcileSettles
<1> QED  BY <1>3, <1>4

LEMMA PressStep ==
  ASSUME FoInv, NEW t \in Windows \cup Layers \cup {Nobody}, Press(t)
  PROVE  World' /\ Settled' /\ walk' = <<>>
<1>1. World /\ Settled /\ OwnerType
  BY DEF FoInv, Settled
<1>2. UNCHANGED <<desktop, keyboard, locks, grabbed>> /\ walk' = <<>>
  BY DEF Press
<1>3. World'
  BY <1>1, <1>2 DEF World, desktop, locks
<1>4. PICK win \in Windows \cup {Nobody}, dem \in Layers \cup {Nobody} : Settle(win, dem)
  <2>1. intent \in Windows \cup {Nobody} /\ onDemand \in Layers \cup {Nobody}
    BY <1>1 DEF OwnerType
  <2>2. CASE t \in Layers /\ Settle(intent, IF keyboard[t] = "on_demand" THEN t ELSE onDemand)
    <3>1. PICK dem \in {t, onDemand} : Settle(intent, dem)
      BY <2>2
    <3>2. dem \in Layers \cup {Nobody}
      BY <3>1, <2>1, <2>2
    <3> QED  BY <2>1, <3>1, <3>2
  <2>3. CASE t \in Visible \cup {Nobody} /\ FocusWindow(t)
    BY <2>3 DEF FocusWindow, Visible
  <2> QED  BY <2>2, <2>3 DEF Press
<1> QED  BY <1>1, <1>2, <1>3, <1>4, SettleSettles

(* Popup menus.                                                            *)
LEMMA MenuStep ==
  ASSUME FoInv,
         \/ \E m \in Menus : UnmapMenu(m) \/ \E r \in Windows \cup Layers : OpenMenu(m, r)
         \/ RefreshGrab
  PROVE  World' /\ Settled' /\ walk' = walk
<1>1. World /\ Settled /\ OwnerType /\ Listed(history) /\ menu \in MenuType /\ releasing \subseteq Menus
  BY DEF FoInv, Settled
<1>2. /\ intent \in Windows \cup {Nobody} /\ onDemand \in Layers \cup {Nobody}
      /\ urgent \subseteq urgent /\ {} \cap Visible' = {}
  BY <1>1 DEF OwnerType
<1>3. NoMenu \in MenuType
  BY DEF MenuType, NoMenu, Targets
<1>4. menu.open \in Seq(Menus) /\ menu.serials \subseteq Menus /\ (menu # NoMenu => menu.serials # {})
      /\ (grabbed # Nobody => grabbed \in menu.serials \cup releasing)
  BY <1>1 DEF MenuType, Settled, MenusAnswer, GrabAnswers
<1>5. CASE \E m \in Menus : UnmapMenu(m)
  <2>1. PICK m \in Menus : UnmapMenu(m)
    BY <1>5
  <2> DEFINE rest == IF Last(menu.open) = m THEN Front(menu.open) ELSE <<>>
             pop  == IF rest = <<>> THEN NoMenu ELSE [menu EXCEPT !.open = rest]
  <2>2. /\ m \in Range(menu.open)
        /\ grabbed' = IF rest = <<>> /\ grabbed \in menu.serials THEN Nobody ELSE grabbed
        /\ UNCHANGED <<desktop, keyboard, locks>> /\ walk' = walk
        /\ Reconcile(intent, onDemand, history, urgent, pop, releasing, {}, FALSE)
    BY <2>1 DEF UnmapMenu
  <2>3. World'
    BY <1>1, <2>2 DEF World, desktop, locks
  <2>4. menu.open # <<>>
    BY <2>2 DEF Range
  <2>5. rest \in Seq(Menus)
    BY <1>4, <2>4, ChainEnds
  <2> HIDE DEF rest
  <2>6. pop \in MenuType
    BY <1>1, <1>3, <2>5 DEF MenuType
  <2>7. pop.serials = IF rest = <<>> THEN {} ELSE menu.serials
    BY <1>1 DEF NoMenu, MenuType
  <2>8. pop # NoMenu => pop.serials # {}
    BY <1>4, <2>4, <2>7 DEF NoMenu
  <2>9. grabbed' # Nobody => grabbed' \in pop.serials \cup releasing
    BY <1>4, <2>2, <2>7
  <2> HIDE DEF pop
  <2> QED  BY <1>1, <1>2, <2>2, <2>3, <2>6, <2>8, <2>9, ReconcileSettles
<1>6. CASE \E m \in Menus : \E r \in Windows \cup Layers : OpenMenu(m, r)
  <2>1. PICK m \in Menus, r \in Windows \cup Layers : OpenMenu(m, r)
    BY <1>6
  <2> DEFINE pop == [root |-> r, open |-> Append(menu.open, m),
                     typing |-> r \in Windows \/ keyboard[r] # "none",
                     serials |-> {m} \cup (IF menu = NoMenu THEN {} ELSE {Last(menu.open)})]
  <2>2. /\ grabbed' = m /\ UNCHANGED <<desktop, keyboard, locks>> /\ walk' = walk
        /\ menu # NoMenu => menu.open # <<>>
        /\ Reconcile(intent, onDemand, history, urgent, pop, releasing, {}, FALSE)
    BY <2>1 DEF OpenMenu
  <2>3. World'
    BY <1>1, <2>2 DEF World, desktop, locks
  <2>4. pop \in MenuType
    <3>1. r \in Targets
      BY DEF Targets
    <3>2. Append(menu.open, m) \in Seq(Menus)
      BY <1>4
    <3>3. {m} \cup (IF menu = NoMenu THEN {} ELSE {Last(menu.open)}) \subseteq Menus
      BY <1>4, <2>2, ChainEnds
    <3> QED  BY <3>1, <3>2, <3>3 DEF MenuType
  <2>5. m \in pop.serials
    OBVIOUS
  <2>6. pop.serials # {} /\ (grabbed' # Nobody => grabbed' \in pop.serials \cup releasing)
    BY <2>2, <2>5
  <2> HIDE DEF pop
  <2> QED  BY <1>1, <1>2, <2>2, <2>3, <2>4, <2>6, ReconcileSettles
<1>7. CASE RefreshGrab
  <2>1. /\ grabbed' = IF grabbed \in menu.serials THEN Nobody ELSE grabbed
        /\ UNCHANGED <<desktop, keyboard, locks>> /\ walk' = walk
        /\ Reconcile(intent, onDemand, history, urgent, NoMenu, releasing, {}, FALSE)
    BY <1>7 DEF RefreshGrab
  <2>2. World'
    BY <1>1, <2>1 DEF World, desktop, locks
  <2>3. grabbed' # Nobody => grabbed' \in NoMenu.serials \cup releasing
    BY <1>4, <2>1
  <2> QED  BY <1>1, <1>2, <1>3, <2>1, <2>2, <2>3, ReconcileSettles
<1> QED  BY <1>5, <1>6, <1>7

(* Menus that die with their client, and the idle callback.                *)
LEMMA QuietMenuStep ==
  ASSUME FoInv, MenusDie \/ IdleRelease
  PROVE  World' /\ Settled' /\ walk' = walk
<1>1. World /\ Settled /\ OwnerType /\ menu \in MenuType
  BY DEF FoInv, Settled
<1>2. /\ UNCHANGED <<desktop, keyboard, locks, wants, focus, activated, history, urgent, walk>>
  BY DEF MenusDie, IdleRelease, owner
<1>3. OwnerFollowsPriority'
  BY <1>1, <1>2
    DEF OwnerFollowsPriority, Settled, Meant, wants, locks, desktop, Visible,
        Preempted, Preempter, Exclusive, Exclusives
<1>4. OwnerType' /\ Listed(history)'
  <2>1. seat' \in Targets \cup Menus
    BY <1>1 DEF MenusDie, IdleRelease, owner, OwnerType, Targets
  <2> QED  BY <1>1, <1>2, <2>1 DEF OwnerType, Settled, Listed, wants
<1>5. CASE MenusDie
  <2>1. menu' = [menu EXCEPT !.open = <<>>] /\ UNCHANGED <<grabbed, releasing>> /\ menu.open # <<>>
    BY <1>5 DEF MenusDie
  <2>2. /\ menu' \in MenuType /\ menu'.open = <<>> /\ menu'.serials = menu.serials
        /\ menu'.root = menu.root /\ menu'.typing = menu.typing
    <3>1. <<>> \in Seq(Menus)
      OBVIOUS
    <3> QED  BY <1>1, <2>1, <3>1 DEF MenuType
  <2>3. menu'.serials # {}
    BY <1>1, <2>1, <2>2 DEF Settled, MenusAnswer, NoMenu
  <2>4. menu' # NoMenu
    BY <2>3 DEF NoMenu
  <2>5. World'
    BY <1>1, <1>2, <2>1 DEF World, desktop, locks
  <2>6. OneOwner'
    BY <1>1, <1>2, <2>2, <2>4 DEF Settled, OneOwner
  <2> QED  BY <1>1, <1>2, <1>3, <1>4, <2>1, <2>2, <2>3, <2>5, <2>6
        DEF Settled, MenuBelongsToOwner, GrabAnswers, MenusAnswer
<1>6. CASE IdleRelease
  <2>1. /\ releasing' = {} /\ grabbed' = IF grabbed \in releasing THEN Nobody ELSE grabbed
        /\ UNCHANGED <<menu, seat>>
    BY <1>6 DEF IdleRelease, owner
  <2>2. World'
    BY <1>1, <1>2, <2>1 DEF World, desktop, locks
  <2> QED  BY <1>1, <1>2, <1>3, <1>4, <2>1, <2>2
        DEF Settled, OneOwner, MenuBelongsToOwner, GrabAnswers, MenusAnswer, SeatOf
<1> QED  BY <1>2, <1>5, <1>6

-----------------------------------------------------------------------------
(* Alt-Tab.                                                                *)

(* An order lists every visible window once.                               *)
LEMMA OrderListsAll ==
  ASSUME NEW o \in CycleOrders
  PROVE  /\ Cardinality(Visible) \in Nat /\ o \in [1 .. Cardinality(Visible) -> Visible]
         /\ \A i, j \in 1 .. Cardinality(Visible) : o[i] = o[j] => i = j
         /\ \A w \in Visible : \E i \in 1 .. Cardinality(Visible) : o[i] = w
<1> DEFINE n == Cardinality(Visible)
<1>1. IsFiniteSet(Visible) /\ n \in Nat
  BY FoAssumption, FS_Subset, FS_CardinalityType DEF Visible, FoAssumption
<1>2. o \in [1 .. n -> Visible] /\ \A i, j \in 1 .. n : i # j => o[i] # o[j]
  BY DEF CycleOrders, SetToSeqs
<1>3. o \in Injection(1 .. n, Visible)
  BY <1>2 DEF Injection, IsInjective
<1>4. IsFiniteSet(1 .. n) /\ Cardinality(1 .. n) = n
  <2> HIDE DEF n
  <2>1. 1 \in Int /\ n \in Int /\ (IF 1 > n THEN 0 ELSE n - 1 + 1) = n
    BY <1>1
  <2> QED  BY <2>1, FS_Interval
<1>5. o \in Surjection(1 .. n, Visible)
  BY <1>1, <1>3, <1>4, FS_Injection
<1> QED  BY <1>1, <1>2, <1>5 DEF Surjection

LEMMA OrderIsSequence ==
  ASSUME NEW o \in CycleOrders
  PROVE  o \in Seq(Windows) /\ Len(o) = Cardinality(Visible) /\ DOMAIN o = 1 .. Len(o)
<1>1. Cardinality(Visible) \in Nat /\ o \in [1 .. Cardinality(Visible) -> Visible]
  BY OrderListsAll
<1>2. Visible \subseteq Windows
  BY DEF Visible
<1> QED  BY <1>1, <1>2

(* Of two windows used, one was used before the other, not both.           *)
LEMMA UsedOrder ==
  ASSUME Listed(history), NEW v, NEW w, UsedBefore(v, w)
  PROVE  ~ UsedBefore(w, v)
<1>1. PICK i, j \in DOMAIN history : i < j /\ history[i] = v /\ history[j] = w
  BY DEF UsedBefore
<1> SUFFICES ASSUME NEW k \in DOMAIN history, NEW l \in DOMAIN history,
                    k < l, history[k] = w, history[l] = v
             PROVE  FALSE
  BY DEF UsedBefore
<1>2. k = j /\ l = i
  BY <1>1 DEF Listed, IsInjective
<1>3. i \in Nat /\ j \in Nat
  BY DEF Listed
<1> QED  BY <1>1, <1>2, <1>3

LEMMA LeastIndex ==
  ASSUME NEW D \in SUBSET Nat, D # {}
  PROVE  \E d \in D : \A e \in D : d <= e
<1>1. \E d \in D : \A e \in D : ~ (<<e, d>> \in OpToRel(<, Nat))
  BY NatLessThanWellFounded, WFMin
<1>2. \E d \in D : \A e \in D : ~ (e < d)
  BY <1>1, Zenon DEF OpToRel
<1> QED  BY <1>2

(* With every visible window used there is one order to cycle in: at the   *)
(* first place where two differ, each would have used its own window       *)
(* before the other's.                                                     *)
LEMMA OrdersAgree ==
  ASSUME Listed(history), Visible \subseteq Range(history),
         NEW o \in CycleOrders, NEW p \in CycleOrders
  PROVE  o = p
<1> DEFINE n == Cardinality(Visible)
           D == {i \in 1 .. n : o[i] # p[i]}
<1>1. /\ n \in Nat /\ o \in [1 .. n -> Visible] /\ p \in [1 .. n -> Visible]
      /\ \A i, j \in 1 .. n : o[i] = o[j] => i = j
      /\ \A i, j \in 1 .. n : p[i] = p[j] => i = j
      /\ \A w \in Visible : \E i \in 1 .. n : o[i] = w
      /\ \A w \in Visible : \E i \in 1 .. n : p[i] = w
  BY OrderListsAll
<1>2. /\ \A i, j \in 1 .. n : i < j => UsedBefore(o[i], o[j])
      /\ \A i, j \in 1 .. n : i < j => UsedBefore(p[i], p[j])
  BY <1>1 DEF CycleOrders, Used
<1> HIDE DEF n
<1>3. SUFFICES ASSUME D # {} PROVE FALSE
  <2>1. D = {} => \A i \in 1 .. n : o[i] = p[i]
    OBVIOUS
  <2>2. DOMAIN o = 1 .. n /\ DOMAIN p = 1 .. n
    BY <1>1
  <2>3. o = [i \in 1 .. n |-> o[i]] /\ p = [i \in 1 .. n |-> p[i]]
    BY <1>1
  <2> HIDE DEF D
  <2> QED  BY <2>1, <2>3, Zenon
<1>4. PICK d \in D : \A e \in D : d <= e
  <2>1. D \subseteq Nat
    BY <1>1
  <2> HIDE DEF D
  <2> QED  BY <1>3, <2>1, LeastIndex
<1>5. d \in 1 .. n /\ o[d] # p[d] /\ \A i \in 1 .. n : i < d => o[i] = p[i]
  BY <1>1, <1>4
<1>6. PICK i \in 1 .. n : o[i] = p[d]
  BY <1>1, <1>5
<1>7. PICK j \in 1 .. n : p[j] = o[d]
  BY <1>1, <1>5
<1>8. d < i
  BY <1>1, <1>5, <1>6
<1>9. d < j
  <2>1. j # d
    BY <1>5, <1>7
  <2>2. ~ (j < d)
    BY <1>1, <1>5, <1>7
  <2> QED  BY <1>1, <1>5, <2>1, <2>2
<1>10. UsedBefore(o[d], p[d]) /\ UsedBefore(p[d], o[d])
  BY <1>2, <1>5, <1>6, <1>7, <1>8, <1>9
<1> QED  BY <1>10, UsedOrder

\* Where a walk that began at k has come to after i windows of n.
Place(k, i, n) == IF k + i - 1 <= n THEN k + i - 1 ELSE k + i - 1 - n

OnRound(w, o, k) ==
  /\ Len(w) <= Len(o)
  /\ \A i \in 1 .. Len(w) : w[i] = o[Place(k, i, Len(o))]

\* The walk is a stretch of the order, and the focus is where it has come to.
WalkInOrder ==
  walk # <<>> /\ Visible \subseteq Range(history) =>
    \E o \in CycleOrders, k \in 1 .. Cardinality(Visible) :
      OnRound(walk, o, k) /\ focus = walk[Len(walk)]

LEMMA PlaceType ==
  ASSUME NEW n \in Nat, NEW k \in 1 .. n, NEW i \in 1 .. n
  PROVE  /\ Place(k, i, n) \in 1 .. n
         /\ \A j \in 1 .. n : Place(k, i, n) = Place(k, j, n) => i = j
BY DEF Place

LEMMA WalkVisitsOnce ==
  ASSUME Listed(history), walk \in Seq(Windows), WalkInOrder
  PROVE  CycleVisitsAll
<1> SUFFICES ASSUME Visible \subseteq Range(history), walk # <<>> PROVE IsInjective(walk)
  <2>1. IsInjective(<<>>)
    BY DEF IsInjective
  <2> QED  BY <2>1 DEF CycleVisitsAll
<1> DEFINE n == Cardinality(Visible)
<1>1. PICK o \in CycleOrders, k \in 1 .. n : OnRound(walk, o, k)
  BY DEF WalkInOrder
<1>2. n \in Nat /\ Len(o) = n /\ \A i, j \in 1 .. n : o[i] = o[j] => i = j
  BY OrderListsAll, OrderIsSequence
<1> HIDE DEF n
<1>3. Len(walk) <= n /\ Len(walk) \in Nat /\ DOMAIN walk = 1 .. Len(walk)
  BY <1>1, <1>2 DEF OnRound
<1> SUFFICES ASSUME NEW i \in 1 .. Len(walk), NEW j \in 1 .. Len(walk), walk[i] = walk[j]
             PROVE  i = j
  BY <1>3 DEF IsInjective
<1>4. i \in 1 .. n /\ j \in 1 .. n
  BY <1>2, <1>3
<1>5. o[Place(k, i, n)] = o[Place(k, j, n)]
  BY <1>1, <1>2 DEF OnRound
<1>6. Place(k, i, n) = Place(k, j, n)
  BY <1>1, <1>2, <1>4, <1>5, PlaceType
<1> QED  BY <1>2, <1>1, <1>4, <1>6, PlaceType

(* The window after the one in place p.                                    *)
LEMMA NextInOrder ==
  ASSUME NEW o \in CycleOrders, NEW p \in 1 .. Cardinality(Visible), focus = o[p]
  PROVE  NextOf(o) = o[IF p = Cardinality(Visible) THEN 1 ELSE p + 1]
<1> DEFINE c == CHOOSE i \in DOMAIN o : o[i] = focus
<1>1. PICK n \in Nat : n = Cardinality(Visible)
  BY OrderListsAll
<1>2. /\ Len(o) = n /\ DOMAIN o = 1 .. n /\ p \in 1 .. n
      /\ \A i, j \in 1 .. n : o[i] = o[j] => i = j
  BY <1>1, OrderListsAll, OrderIsSequence
<1>3. c = p
  BY <1>2
<1>4. Head(o) = o[1]
  BY <1>2
<1>5. (\E i \in DOMAIN o : o[i] = focus /\ i < Len(o)) <=> p < n
  BY <1>1, <1>2
<1>6. NextOf(o) = IF p < n THEN o[1 + p] ELSE o[1]
  BY <1>3, <1>4, <1>5 DEF NextOf
<1>7. p < n <=> p # n
  BY <1>1, <1>2
<1> QED  BY <1>1, <1>2, <1>6, <1>7

(* Reconciling again, with nothing wanted anew, moves nothing.             *)
LEMMA OwnerStays ==
  ASSUME World, Settled, UNCHANGED <<desktop, keyboard, locks>>, NEW pop, NEW queued,
         Reconcile(intent, onDemand, history, urgent, pop, queued, {}, FALSE)
  PROVE  focus' = focus /\ history' = history
<1> DEFINE win1   == IF intent \in Visible' THEN intent ELSE Nobody
           dem1   == IF onDemand # Nobody /\ keyboard'[onDemand] = "on_demand" THEN onDemand ELSE Nobody
           target == IF Preempted' THEN Preempter' ELSE Meant(win1, dem1)
           moved  == target # focus /\ (target \in Windows \/ focus \in Windows)
<1>1. focus' = target /\ (~ moved => history' = history)
  BY DEF Reconcile
<1>2. Visible' = Visible /\ Preempted' = Preempted /\ Preempter' = Preempter
  BY DEF desktop, locks, Visible, Preempted, Preempter, Exclusive, Exclusives
<1>3. win1 = intent /\ dem1 = onDemand
  BY <1>2 DEF Settled, OwnerFollowsPriority
<1> HIDE DEF win1, dem1
<1>4. target = focus
  BY <1>2, <1>3 DEF Settled, OwnerFollowsPriority
<1> QED  BY <1>1, <1>4

LEMMA WalkStays ==
  ASSUME WalkInOrder, UNCHANGED <<desktop, history, focus, walk>>
  PROVE  WalkInOrder'
<1>1. Visible' = Visible
  BY DEF desktop, Visible
<1>2. CycleOrders' = CycleOrders
  BY <1>1 DEF CycleOrders, Used, UsedBefore
<1> QED  BY <1>1, <1>2 DEF WalkInOrder

LEMMA WalkKept ==
  ASSUME FoInv, WalkInOrder,
         \/ \E m \in Menus : UnmapMenu(m) \/ \E r \in Windows \cup Layers : OpenMenu(m, r)
         \/ RefreshGrab \/ MenusDie \/ IdleRelease \/ \E w \in Windows : MarkUrgent(w)
  PROVE  WalkInOrder'
<1>1. CASE MenusDie \/ IdleRelease \/ \E w \in Windows : MarkUrgent(w)
  BY <1>1, WalkStays DEF MenusDie, IdleRelease, MarkUrgent, owner
<1>2. CASE \/ \E m \in Menus : UnmapMenu(m) \/ \E r \in Windows \cup Layers : OpenMenu(m, r)
           \/ RefreshGrab
  <2>1. /\ UNCHANGED <<desktop, keyboard, locks, walk>>
        /\ \E pop : Reconcile(intent, onDemand, history, urgent, pop, releasing, {}, FALSE)
    BY <1>2 DEF UnmapMenu, OpenMenu, RefreshGrab
  <2>2. focus' = focus /\ history' = history
    BY <2>1, OwnerStays DEF FoInv
  <2> QED  BY <2>1, <2>2, WalkStays
<1> QED  BY <1>1, <1>2

(* Cycling goes one place on in the order, and comes round after all.      *)
LEMMA CycleStep ==
  ASSUME FoInv, WalkInOrder, CycleFocus
  PROVE  World' /\ Settled' /\ walk' \in Seq(Windows) /\ WalkInOrder'
<1>1. World /\ Settled /\ OwnerType /\ Listed(history) /\ menu \in MenuType /\ releasing \subseteq Menus
      /\ walk \in Seq(Windows)
  BY DEF FoInv, Settled
<1>2. /\ UNCHANGED <<desktop, keyboard, locks, grabbed>> /\ Exclusive = Nobody /\ Visible # {}
  BY DEF CycleFocus
<1>3. PICK o \in CycleOrders :
        /\ Reconcile(NextOf(o), Nobody, history, urgent, menu, releasing, {}, TRUE)
        /\ walk' = IF lock \/ Len(Round) = Cardinality(Visible) THEN <<>>
                   ELSE Append(Round, NextOf(o))
  BY DEF CycleFocus
<1>4. World'
  BY <1>1, <1>2 DEF World, desktop, locks
<1>5. PICK n \in Nat : n = Cardinality(Visible)
  BY <1>3, OrderListsAll
<1>6. /\ o \in Seq(Windows) /\ Len(o) = n /\ DOMAIN o = 1 .. n
      /\ \A i \in 1 .. n : o[i] \in Visible
      /\ \A w \in Visible : \E i \in 1 .. n : o[i] = w
      /\ \A i, j \in 1 .. n : o[i] = o[j] => i = j
  BY <1>5, OrderListsAll, OrderIsSequence
<1>7. n # 0 /\ Head(o) = o[1]
  BY <1>2, <1>6
<1>8. focus \notin Visible => NextOf(o) = o[1]
  BY <1>6, <1>7 DEF NextOf
<1>9. \A p \in 1 .. n : focus = o[p] => NextOf(o) = o[IF p = n THEN 1 ELSE p + 1]
  BY <1>5, NextInOrder
<1>10. NextOf(o) \in Visible /\ NextOf(o) \in Windows
  <2>1. NextOf(o) \in Visible
    BY <1>6, <1>7, <1>8, <1>9
  <2> QED  BY <2>1 DEF Visible
<1>11. Settled'
  <2>1. /\ urgent \subseteq urgent /\ {} \cap Visible' = {}
        /\ (menu # NoMenu => menu.serials # {})
        /\ (grabbed' # Nobody => grabbed' \in menu.serials \cup releasing)
    BY <1>1, <1>2 DEF Settled, MenusAnswer, GrabAnswers
  <2> QED  BY <1>1, <1>3, <1>4, <1>10, <2>1, ReconcileSettles
<1>12. Visible' = Visible
  BY <1>2 DEF desktop, Visible
<1>13. history' = history
  BY <1>3 DEF Reconcile, Remembered
<1>14. CycleOrders' = CycleOrders
  BY <1>12, <1>13 DEF CycleOrders, Used, UsedBefore
<1>15. ~ lock => focus' = NextOf(o)
  <2>1. ~ lock => ~ Preempted'
    BY <1>2 DEF Preempted, Exclusive, Exclusives, locks
  <2>2. NextOf(o) \in Visible'
    BY <1>10, <1>12
  <2> QED  BY <1>3, <2>1, <2>2 DEF Reconcile, Meant
<1>16. Round \in Seq(Windows)
  <2>1. focus \in Visible => focus \in Windows
    BY DEF Visible
  <2> QED  BY <1>1, <2>1 DEF Round
<1>17. walk' \in Seq(Windows)
  BY <1>3, <1>10, <1>16
<1>18. WalkInOrder'
  <2> SUFFICES ASSUME walk' # <<>>, Visible \subseteq Range(history)
               PROVE  \E k \in 1 .. n : OnRound(walk', o, k) /\ focus' = walk'[Len(walk')]
    BY <1>5, <1>12, <1>13, <1>14 DEF WalkInOrder
  <2>1. /\ walk' = Append(Round, NextOf(o)) /\ Len(Round) # n /\ focus' = NextOf(o)
    BY <1>3, <1>5, <1>15
  <2>2. /\ Len(walk') = Len(Round) + 1 /\ walk'[Len(walk')] = NextOf(o)
        /\ \A i \in 1 .. Len(Round) : walk'[i] = Round[i]
    BY <1>16, <1>10, <2>1
  <2>3. CASE Round = <<>>
    <3>1. focus \notin Visible
      <4>1. walk = <<>>
        BY <2>3 DEF Round
      <4>2. <<focus>> # <<>>
        OBVIOUS
      <4> QED  BY <2>3, <4>1, <4>2 DEF Round
    <3>2. Place(1, 1, n) = 1
      BY <1>7 DEF Place
    <3>3. Len(walk') = 1 /\ walk'[1] = o[1]
      BY <1>8, <2>2, <2>3, <3>1
    <3>4. OnRound(walk', o, 1)
      BY <1>6, <1>7, <3>2, <3>3 DEF OnRound
    <3> QED  BY <1>7, <2>1, <2>2, <3>4
  <2>4. CASE Round # <<>>
    <3>1. PICK k \in 1 .. n : OnRound(Round, o, k) /\ focus = Round[Len(Round)]
      <4>1. CASE walk # <<>>
        <5>1. PICK q \in CycleOrders, k \in 1 .. n : OnRound(walk, q, k) /\ focus = walk[Len(walk)]
          BY <1>5, <4>1 DEF WalkInOrder
        <5>2. q = o
          BY <1>1, OrdersAgree
        <5> QED  BY <4>1, <5>1, <5>2 DEF Round
      <4>2. CASE walk = <<>>
        <5>1. Round = <<focus>> /\ focus \in Visible
          BY <2>4, <4>2 DEF Round
        <5>2. PICK k \in 1 .. n : o[k] = focus
          BY <1>6, <5>1
        <5>3. Place(k, 1, n) = k
          BY <5>2 DEF Place
        <5>4. Len(Round) = 1 /\ Round[1] = focus
          BY <5>1
        <5>5. OnRound(Round, o, k)
          BY <1>6, <1>7, <5>2, <5>3, <5>4 DEF OnRound
        <5> QED  BY <5>4, <5>5
      <4> QED  BY <4>1, <4>2
    <3> DEFINE l == Len(Round)
    <3>2. l \in 1 .. n /\ l < n
      BY <1>6, <1>16, <2>1, <2>4, <3>1 DEF OnRound
    <3>3. focus = o[Place(k, l, n)] /\ Place(k, l, n) \in 1 .. n
      <4>1. focus = o[Place(k, l, n)]
        BY <1>6, <3>1, <3>2 DEF OnRound
      <4>2. Place(k, l, n) \in 1 .. n
        BY <3>1, <3>2 DEF Place
      <4> QED  BY <4>1, <4>2
    <3>4. Place(k, l + 1, n) = IF Place(k, l, n) = n THEN 1 ELSE Place(k, l, n) + 1
      BY <3>1, <3>2 DEF Place
    <3>5. NextOf(o) = o[Place(k, l + 1, n)]
      BY <1>9, <3>3, <3>4
    <3>6. \A i \in 1 .. l : Round[i] = o[Place(k, i, n)]
      BY <1>6, <3>1 DEF OnRound
    <3> HIDE DEF l
    <3>7. Len(walk') = l + 1 /\ \A i \in 1 .. l + 1 : walk'[i] = o[Place(k, i, n)]
      <4>1. Len(walk') = l + 1 /\ walk'[l + 1] = NextOf(o) /\ \A i \in 1 .. l : walk'[i] = Round[i]
        BY <2>2 DEF l
      <4> QED  BY <3>2, <3>5, <3>6, <4>1
    <3>8. OnRound(walk', o, k)
      BY <1>6, <3>2, <3>7 DEF OnRound
    <3> QED  BY <2>1, <2>2, <3>1, <3>8
  <2> QED  BY <2>3, <2>4
<1> QED  BY <1>4, <1>11, <1>17, <1>18

-----------------------------------------------------------------------------
(* The specification.                                                      *)

LEMMA FoNextKeeps ==
  ASSUME FoInv, WalkInOrder, [FoNext]_foVars
  PROVE  (FoInv /\ WalkInOrder)'
<1> SUFFICES World' /\ Settled' /\ walk' \in Seq(Windows) /\ WalkInOrder'
  BY DEF FoInv
<1>1. World /\ Settled /\ walk \in Seq(Windows)
  BY DEF FoInv
<1>2. ASSUME walk' = <<>> PROVE walk' \in Seq(Windows) /\ WalkInOrder'
  BY <1>2 DEF WalkInOrder
<1>3. CASE UNCHANGED foVars
  <2>1. UNCHANGED <<desktop, keyboard, locks, wants, owner, history, urgent, pops, walk>>
    BY <1>3 DEF foVars
  <2>2. World' /\ Visible' = Visible /\ Exclusive' = Exclusive
    BY <1>1, <2>1 DEF World, desktop, locks, pops, Visible, Exclusive, Exclusives
  <2>3. OwnerFollowsPriority'
    BY <1>1, <2>1, <2>2 DEF Settled, OwnerFollowsPriority, Preempted, Preempter, Meant, wants, owner, locks
  <2>4. Settled'
    BY <1>1, <2>1, <2>3
      DEF Settled, OwnerType, Listed, OneOwner, MenuBelongsToOwner, GrabAnswers, MenusAnswer,
          SeatOf, wants, owner, pops
  <2>5. WalkInOrder'
    BY <2>1, WalkStays DEF owner
  <2> QED  BY <1>1, <2>1, <2>2, <2>4, <2>5
<1>4. CASE \E w \in Windows : \/ \E d \in Desks : MoveAway(w, d) \/ MapWindow(w, d, FALSE)
                              \/ Activate(w)
  BY <1>2, <1>4, WindowStep
<1>5. CASE \E w \in Windows : \E d \in Desks : MapWindow(w, d, TRUE)
  <2>1. walk' = <<>>
    BY <1>5 DEF MapWindow
  <2> QED  BY <1>2, <1>5, <2>1, QuietStep
<1>6. CASE \E w \in Windows : MarkUrgent(w)
  <2>1. walk' = walk
    BY <1>6 DEF MarkUrgent
  <2> QED  BY <1>1, <1>6, <2>1, QuietStep, WalkKept
<1>7. CASE \E w \in Windows : CloseWindow(w)
  BY <1>2, <1>7, CloseStep
<1>8. CASE \E d \in Desks : SwitchTo(d)
  BY <1>2, <1>8, SwitchStep
<1>9. CASE CycleFocus
  BY <1>9, CycleStep
<1>10. CASE \E l \in Layers : \/ UnmapLayer(l)
                              \/ \E k \in {"none", "on_demand", "exclusive"} :
                                   MapLayer(l, k) \/ CommitLayer(l, k)
  BY <1>2, <1>10, LayerStep
<1>11. CASE LockSession \/ RegisterLockSurface \/ Unlock
  BY <1>2, <1>11, LockStep
<1>12. CASE \E t \in Windows \cup Layers \cup {Nobody} : Press(t)
  BY <1>2, <1>12, PressStep
<1>15. CASE \E w \in Windows \cup {Nobody} : Hover(w)
  BY <1>2, <1>15, HoverStep
<1>13. CASE \/ \E m \in Menus : UnmapMenu(m) \/ \E r \in Windows \cup Layers : OpenMenu(m, r)
            \/ RefreshGrab
  BY <1>1, <1>13, MenuStep, WalkKept
<1>14. CASE MenusDie \/ IdleRelease
  BY <1>1, <1>14, QuietMenuStep, WalkKept
<1> QED
  BY <1>3, <1>4, <1>5, <1>6, <1>7, <1>8, <1>9, <1>10, <1>11, <1>12, <1>13, <1>14, <1>15
    DEF FoNext

LEMMA SettledIsKeyboardSettled == ASSUME FoInv PROVE KeyboardSettled
<1>1. World /\ Settled /\ walk \in Seq(Windows) /\ OwnerType /\ Listed(history) /\ menu \in MenuType
  BY DEF FoInv, Settled
<1>2. /\ menu.root \in Targets /\ Range(menu.open) \subseteq Menus /\ menu.serials \subseteq Menus
  BY <1>1 DEF MenuType, Range
<1>3. Range(walk) \subseteq Windows
  BY <1>1 DEF Range
<1>4. FoTypeOK
  BY <1>1, <1>2, <1>3 DEF FoTypeOK, World, OwnerType, Listed, Settled
<1>5. PointerGrabIsOwed
  BY <1>1 DEF Settled, GrabAnswers, PointerGrabIsOwed, NoMenu
<1> QED  BY <1>1, <1>4, <1>5 DEF KeyboardSettled, Settled

(* Whatever is mapped, hidden, closed, locked, clicked, hovered or cycled   *)
(* through, in any order and for any number of windows, layer surfaces,     *)
(* menus and workspaces: the keyboard has the one owner that the priorities *)
(* give, its seat, activation and urgency agree, and no menu's grab outlives*)
(* what it was for (reconcile_keyboard_focus).                              *)
THEOREM KeyboardIsSettled == FoSpec => []KeyboardSettled
<1>1. FoInit => FoInv /\ WalkInOrder
  BY FoInitIsSettled DEF FoInit, WalkInOrder
<1>2. FoInv /\ WalkInOrder /\ [FoNext]_foVars => (FoInv /\ WalkInOrder)'
  BY FoNextKeeps
<1>3. FoInv => KeyboardSettled
  BY SettledIsKeyboardSettled
<1> QED  BY <1>1, <1>2, <1>3, PTL DEF FoSpec

(* With every visible window focused before, Alt-Tab goes through them all, *)
(* each once, before it comes round: cycling leaves alone the history it    *)
(* walks, and nothing that keeps the walk going moves focus or history      *)
(* (cycle_focus).                                                           *)
THEOREM CyclingVisitsAll == FoSpec => []CycleVisitsAll
<1>1. FoInit => FoInv /\ WalkInOrder
  BY FoInitIsSettled DEF FoInit, WalkInOrder
<1>2. FoInv /\ WalkInOrder /\ [FoNext]_foVars => (FoInv /\ WalkInOrder)'
  BY FoNextKeeps
<1>3. FoInv /\ WalkInOrder => CycleVisitsAll
  BY WalkVisitsOnce DEF FoInv, Settled
<1> QED  BY <1>1, <1>2, <1>3, PTL DEF FoSpec

-----------------------------------------------------------------------------
(* Leaf orders.                                                            *)

\* An order of windows that lists none twice.
Orders == {s \in Seq(Apps) : IsInjective(s)}

LEMMA FirstPlace ==
  ASSUME NEW s \in Orders, NEW i \in DOMAIN s
  PROVE  LET I == {j \in 1 .. Len(s) : s[j] = s[i]} IN I # {} /\ Min(I) = i
<1> DEFINE I == {j \in 1 .. Len(s) : s[j] = s[i]}
<1>1. s \in Seq(Apps) /\ DOMAIN s = 1 .. Len(s) /\ IsInjective(s) BY DEF Orders
<1>2. I = {i} BY <1>1 DEF IsInjective
<1>3. i \in Nat BY <1>1
<1> HIDE DEF I
<1>4. Min(I) = i BY <1>2, <1>3 DEF Min
<1> QED BY <1>2, <1>4 DEF I

\* A window taken out of an order leaves the others as they were.
LEMMA LessIs ==
  ASSUME NEW s \in Orders, NEW i \in DOMAIN s
  PROVE  /\ Less(s, s[i]) \in Seq(Apps) /\ Len(Less(s, s[i])) = Len(s) - 1
         /\ \A j \in 1 .. Len(s) - 1 : Less(s, s[i])[j] = IF j < i THEN s[j] ELSE s[j + 1]
<1> DEFINE u == SubSeq(s, 1, i - 1)
           v == SubSeq(s, i + 1, Len(s))
           t == Less(s, s[i])
           I == {j \in 1 .. Len(s) : s[j] = s[i]}
<1>1. s \in Seq(Apps) /\ i \in 1 .. Len(s) BY DEF Orders
<1>2. I # {} /\ Min(I) = i BY FirstPlace
<1>3. SelectInSeq(s, LAMBDA x : x = s[i]) = IF I # {} THEN Min(I) ELSE 0 BY DEF SelectInSeq
<1>4. t = u \o v BY <1>1, <1>2, <1>3 DEF Less, RemoveFirst, RemoveAt
<1>5. u \in Seq(Apps) /\ Len(u) = i - 1 /\ \A j \in 1 .. i - 1 : u[j] = s[j] BY <1>1
<1>6. /\ v \in Seq(Apps) /\ Len(v) = Len(s) - i
      /\ \A j \in 1 .. Len(s) - i : v[j] = s[i + j]
  BY <1>1
<1> HIDE DEF t, u, v
<1>7. t \in Seq(Apps) /\ Len(t) = Len(s) - 1
  <2>1. u \o v \in Seq(Apps) /\ Len(u \o v) = Len(u) + Len(v) BY <1>5, <1>6, ConcatProperties, Zenon
  <2> QED BY <2>1, <1>1, <1>4, <1>5, <1>6
<1>8. ASSUME NEW j \in 1 .. Len(s) - 1 PROVE t[j] = IF j < i THEN s[j] ELSE s[j + 1]
  <2>1. CASE j < i BY <2>1, <1>1, <1>4, <1>5, <1>6
  <2>2. CASE ~ (j < i)
    <3>1. t[j] = v[j - (i - 1)] /\ j - (i - 1) \in 1 .. Len(s) - i
      BY <2>2, <1>1, <1>4, <1>5, <1>6
    <3> QED BY <3>1, <2>2, <1>6, <1>1
  <2> QED BY <2>1, <2>2
<1> QED BY <1>7, <1>8 DEF t

LEMMA LessKeeps ==
  ASSUME NEW s \in Orders, NEW x
  PROVE  /\ Less(s, x) \in Orders /\ Range(Less(s, x)) = Range(s) \ {x}
         /\ x \notin Range(s) => Less(s, x) = s
<1>1. s \in Seq(Apps) /\ DOMAIN s = 1 .. Len(s) /\ IsInjective(s) /\ Len(s) \in Nat BY DEF Orders
<1>2. CASE x \notin Range(s)
  <2>1. ~ \E i \in 1 .. Len(s) : s[i] = x BY <1>1, <1>2 DEF Range
  <2>2. Less(s, x) = s BY <2>1 DEF Less, RemoveFirst
  <2> QED BY <2>2, <1>2
<1>3. CASE x \in Range(s)
  <2> DEFINE t == Less(s, x)
  <2>1. PICK i \in 1 .. Len(s) : s[i] = x BY <1>1, <1>3 DEF Range
  <2>2. /\ t \in Seq(Apps) /\ Len(t) = Len(s) - 1
        /\ \A j \in 1 .. Len(s) - 1 : t[j] = IF j < i THEN s[j] ELSE s[j + 1]
    BY <2>1, <1>1, LessIs
  <2> HIDE DEF t
  <2>3. DOMAIN t = 1 .. Len(s) - 1 BY <2>2
  <2>4. IsInjective(t)
    <3> SUFFICES ASSUME NEW j \in DOMAIN t, NEW k \in DOMAIN t, t[j] = t[k] PROVE j = k
      BY DEF IsInjective
    <3> DEFINE J == IF j < i THEN j ELSE j + 1
               K == IF k < i THEN k ELSE k + 1
    <3>1. J \in 1 .. Len(s) /\ K \in 1 .. Len(s) /\ s[J] = s[K] BY <2>1, <2>2, <2>3, <1>1
    <3>2. J = K BY <3>1, <1>1 DEF IsInjective
    <3> QED BY <3>2, <2>1, <2>3, <1>1
  <2>5. ASSUME NEW j \in DOMAIN t PROVE t[j] \in Range(s) \ {x}
    <3> DEFINE J == IF j < i THEN j ELSE j + 1
    <3>1. J \in 1 .. Len(s) /\ J # i /\ t[j] = s[J] BY <2>1, <2>2, <2>3, <1>1
    <3>2. s[J] # s[i] BY <3>1, <2>1, <1>1 DEF IsInjective
    <3> QED BY <3>1, <3>2, <2>1, <1>1 DEF Range
  <2>6. ASSUME NEW y \in Range(s) \ {x} PROVE y \in Range(t)
    <3>1. PICK k \in 1 .. Len(s) : s[k] = y BY <1>1 DEF Range
    <3>2. k # i BY <3>1, <2>1
    <3> DEFINE j == IF k < i THEN k ELSE k - 1
    <3>3. j \in DOMAIN t /\ t[j] = s[k] BY <3>1, <3>2, <2>1, <2>2, <2>3, <1>1
    <3> HIDE DEF j
    <3> QED BY <3>3, <3>1 DEF Range
  <2>7. Range(t) = Range(s) \ {x} BY <2>5, <2>6 DEF Range
  <2> QED BY <2>2, <2>4, <2>7, <1>3 DEF t, Orders
<1> QED BY <1>2, <1>3

\* A window put beside another one, or at the end.
LEMMA BesideIs ==
  ASSUME NEW s \in Orders, NEW x \in Apps, NEW target
  PROVE  \E i \in 0 .. Len(s) :
           /\ Beside(s, x, target) \in Seq(Apps) /\ Len(Beside(s, x, target)) = Len(s) + 1
           /\ \A j \in 1 .. Len(s) + 1 : Beside(s, x, target)[j] =
                IF j <= i THEN s[j] ELSE IF j = i + 1 THEN x ELSE s[j - 1]
           /\ target \in Range(s) => i # 0 /\ s[i] = target
<1> DEFINE t == Beside(s, x, target)
<1>1. s \in Seq(Apps) /\ DOMAIN s = 1 .. Len(s) /\ Len(s) \in Nat BY DEF Orders
<1>2. CASE target \notin Range(s)
  <2>1. t = Append(s, x) BY <1>2 DEF Beside
  <2>2. t \in Seq(Apps) /\ Len(t) = Len(s) + 1 BY <2>1, <1>1
  <2>3. \A j \in 1 .. Len(s) + 1 : t[j] =
          IF j <= Len(s) THEN s[j] ELSE IF j = Len(s) + 1 THEN x ELSE s[j - 1]
    BY <2>1, <1>1
  <2> HIDE DEF t
  <2>4. Len(s) \in 0 .. Len(s) BY <1>1
  <2> QED BY <2>2, <2>3, <2>4, <1>2 DEF t
<1>3. CASE target \in Range(s)
  <2>1. PICK i \in 1 .. Len(s) : s[i] = target BY <1>1, <1>3 DEF Range
  <2> DEFINE I == {j \in 1 .. Len(s) : s[j] = target}
             u == SubSeq(s, 1, (i + 1) - 1)
             w == u \o <<x>>
             v == SubSeq(s, i + 1, Len(s))
  <2>2. I # {} /\ Min(I) = i BY <2>1, <1>1, FirstPlace
  <2>3. SelectInSeq(s, LAMBDA y : y = target) = IF I # {} THEN Min(I) ELSE 0 BY DEF SelectInSeq
  <2>4. t = w \o v BY <1>3, <2>2, <2>3 DEF Beside, InsertAt
  <2> HIDE DEF t, I
  <2>5. u \in Seq(Apps) /\ Len(u) = i /\ \A j \in 1 .. i : u[j] = s[j] BY <1>1
  <2>6. /\ v \in Seq(Apps) /\ Len(v) = Len(s) - i
        /\ \A j \in 1 .. Len(s) - i : v[j] = s[i + j]
    <3> HIDE DEF u, w
    <3>1. i + 1 \in 1 .. Len(s) + 1 BY <1>1
    <3>2. v \in Seq(Apps) BY <1>1, <3>1
    <3>3. Len(v) = Len(s) - i
      <4>1. Len(v) = IF i + 1 <= Len(s) THEN Len(s) - (i + 1) + 1 ELSE 0 BY <1>1, <3>1, SubSeqProperties
      <4> HIDE DEF v
      <4>2. i \in Int /\ Len(s) \in Int /\ i <= Len(s) BY <1>1
      <4> QED BY <4>1, <4>2
    <3>4. \A j \in 1 .. Len(s) - i : v[j] = s[i + j] BY <1>1, <3>1
    <3> QED BY <3>2, <3>3, <3>4
  <2> HIDE DEF u, v
  <2>7. /\ w \in Seq(Apps) /\ Len(w) = i + 1 /\ w[i + 1] = x
        /\ \A j \in 1 .. i : w[j] = s[j]
    BY <2>5
  <2> HIDE DEF w
  <2>8. t \in Seq(Apps) /\ Len(t) = Len(s) + 1
    <3>1. w \o v \in Seq(Apps) /\ Len(w \o v) = Len(w) + Len(v) BY <2>6, <2>7, ConcatProperties, Zenon
    <3>2. (i + 1) + (Len(s) - i) = Len(s) + 1 BY <1>1
    <3>3. Len(t) = (i + 1) + (Len(s) - i) BY <3>1, <2>4, <2>6, <2>7
    <3> QED BY <3>1, <3>2, <3>3, <2>4
  <2>9. ASSUME NEW j \in 1 .. Len(s) + 1
        PROVE  t[j] = IF j <= i THEN s[j] ELSE IF j = i + 1 THEN x ELSE s[j - 1]
    <3>1. CASE j <= i BY <3>1, <1>1, <2>4, <2>6, <2>7
    <3>2. CASE j = i + 1 BY <3>2, <1>1, <2>4, <2>6, <2>7
    <3>3. CASE j > i + 1
      <4>1. t[j] = v[j - (i + 1)] /\ j - (i + 1) \in 1 .. Len(s) - i
        BY <3>3, <1>1, <2>4, <2>6, <2>7
      <4>2. v[j - (i + 1)] = s[i + (j - (i + 1))] BY <4>1, <2>6
      <4>3. i + (j - (i + 1)) = j - 1 OBVIOUS
      <4> QED BY <4>1, <4>2, <4>3, <3>3
    <3> QED BY <3>1, <3>2, <3>3
  <2>10. i \in 0 .. Len(s) /\ i # 0 BY <1>1
  <2> QED BY <2>1, <2>8, <2>9, <2>10 DEF t
<1> QED BY <1>2, <1>3

LEMMA BesideKeeps ==
  ASSUME NEW s \in Orders, NEW x \in Apps, x \notin Range(s), NEW target
  PROVE  /\ Beside(s, x, target) \in Orders
         /\ Range(Beside(s, x, target)) = Range(s) \cup {x}
<1> DEFINE t == Beside(s, x, target)
<1>1. s \in Seq(Apps) /\ DOMAIN s = 1 .. Len(s) /\ IsInjective(s) /\ Len(s) \in Nat BY DEF Orders
<1>2. PICK i \in 0 .. Len(s) :
        /\ t \in Seq(Apps) /\ Len(t) = Len(s) + 1
        /\ \A j \in 1 .. Len(s) + 1 : t[j] = IF j <= i THEN s[j] ELSE IF j = i + 1 THEN x ELSE s[j - 1]
  BY BesideIs
<1> HIDE DEF t
<1>3. DOMAIN t = 1 .. Len(s) + 1 BY <1>2
<1>4. \A k \in 1 .. Len(s) : s[k] # x BY <1>1 DEF Range
<1>5. IsInjective(t)
  <2> SUFFICES ASSUME NEW j \in DOMAIN t, NEW k \in DOMAIN t, t[j] = t[k] PROVE j = k
    BY DEF IsInjective
  <2> DEFINE J == IF j <= i THEN j ELSE j - 1
             K == IF k <= i THEN k ELSE k - 1
  <2>1. CASE j = i + 1 /\ k = i + 1 BY <2>1
  <2>2. CASE j = i + 1 /\ k # i + 1
    <3>1. K \in 1 .. Len(s) /\ t[k] = s[K] /\ t[j] = x BY <2>2, <1>1, <1>2, <1>3
    <3> QED BY <3>1, <1>4
  <2>3. CASE j # i + 1 /\ k = i + 1
    <3>1. J \in 1 .. Len(s) /\ t[j] = s[J] /\ t[k] = x BY <2>3, <1>1, <1>2, <1>3
    <3> QED BY <3>1, <1>4
  <2>4. CASE j # i + 1 /\ k # i + 1
    <3>1. J \in 1 .. Len(s) /\ K \in 1 .. Len(s) /\ s[J] = s[K] BY <2>4, <1>1, <1>2, <1>3
    <3>2. J = K BY <3>1, <1>1 DEF IsInjective
    <3> QED BY <3>2, <2>4, <1>3, <1>1
  <2> QED BY <2>1, <2>2, <2>3, <2>4
<1>6. ASSUME NEW j \in DOMAIN t PROVE t[j] \in Range(s) \cup {x}
  <2> DEFINE J == IF j <= i THEN j ELSE j - 1
  <2>1. CASE j = i + 1 BY <2>1, <1>2, <1>3
  <2>2. CASE j # i + 1
    <3>1. J \in 1 .. Len(s) /\ t[j] = s[J] BY <2>2, <1>1, <1>2, <1>3
    <3> QED BY <3>1, <1>1 DEF Range
  <2> QED BY <2>1, <2>2
<1>7. ASSUME NEW y \in Range(s) PROVE y \in Range(t)
  <2>1. PICK k \in 1 .. Len(s) : s[k] = y BY <1>1 DEF Range
  <2> DEFINE j == IF k <= i THEN k ELSE k + 1
  <2>2. j \in DOMAIN t /\ t[j] = s[k] BY <1>1, <1>2, <1>3
  <2> HIDE DEF j
  <2> QED BY <2>2, <2>1 DEF Range
<1>8. x \in Range(t)
  <2>1. i + 1 \in DOMAIN t /\ t[i + 1] = x BY <1>1, <1>2, <1>3
  <2> QED BY <2>1 DEF Range
<1>9. Range(t) = Range(s) \cup {x} BY <1>6, <1>7, <1>8 DEF Range
<1> QED BY <1>2, <1>5, <1>9 DEF t, Orders

-----------------------------------------------------------------------------
(* The tables of the two engines.                                          *)

IsTable(f, T) == DOMAIN f \subseteq Apps /\ \A x \in DOMAIN f : f[x] \in T
Tag == [out : Heads, desk : Spaces]
Reef == [at : Nat, wins : Orders, auto : BOOLEAN]

ClassicType(c) ==
  /\ DOMAIN c = {"tree", "tag", "pinned", "active", "before"}
  /\ c.tree \in [Trees -> Orders] /\ IsTable(c.tag, Tag) /\ c.pinned \subseteq DOMAIN c.tag
  /\ c.active \in [Heads -> Spaces] /\ c.before \in [Heads -> 0 .. Numbered]

\* What Ocean keeps has a monitor it was opened from.
OceanType(o) ==
  /\ DOMAIN o = {"reefs", "loose", "entry", "pins", "camera"}
  /\ o.reefs \in Seq(Reef) /\ IsTable(o.loose, Nat) /\ IsTable(o.entry, Heads)
  /\ IsTable(o.pins, Heads) /\ DOMAIN o.pins \subseteq DOMAIN o.loose
  /\ o.camera \in [Heads -> Nat]
  /\ \A x \in Apps : ReefOf(o, x) # {} \/ x \in DOMAIN o.loose => x \in DOMAIN o.entry

\* A window has no more than one owner.
Alone(c, o, x) ==
  /\ \A t, u \in TileOf(c, x) : t = u
  /\ \A r, q \in ReefOf(o, x) : r = q
  /\ TileOf(c, x) # {} => ReefOf(o, x) = {} /\ x \notin DOMAIN c.tag /\ x \notin DOMAIN o.loose
  /\ ReefOf(o, x) # {} => x \notin DOMAIN c.tag /\ x \notin DOMAIN o.loose
  /\ x \in DOMAIN c.tag => x \notin DOMAIN o.loose

Owned(c, o, x) ==
  TileOf(c, x) # {} \/ ReefOf(o, x) # {} \/ x \in DOMAIN c.tag \/ x \in DOMAIN o.loose

\* Nothing changes for window y between two pairs of tables.
Same(c, o, e, p, y) ==
  /\ TileOf(e, y) = TileOf(c, y) /\ ReefOf(p, y) = ReefOf(o, y)
  /\ y \in DOMAIN e.tag <=> y \in DOMAIN c.tag
  /\ y \in DOMAIN p.loose <=> y \in DOMAIN o.loose
  /\ y \in DOMAIN c.tag => e.tag[y] = c.tag[y]

LEMMA SameStays ==
  ASSUME NEW c, NEW o, NEW e, NEW p, NEW y, Same(c, o, e, p, y)
  PROVE  (Alone(e, p, y) <=> Alone(c, o, y)) /\ (Owned(e, p, y) <=> Owned(c, o, y))
BY DEF Same, Alone, Owned

\* detach_mapped_toplevel takes a window out of every Classic table.
LEMMA UntiledIs ==
  ASSUME NEW c, ClassicType(c), NEW x
  PROVE  /\ ClassicType(Untiled(c, x))
         /\ Untiled(c, x).active = c.active /\ Untiled(c, x).before = c.before
         /\ \A t \in Trees : /\ Untiled(c, x).tree[t] = Less(c.tree[t], x)
                             /\ Range(Untiled(c, x).tree[t]) = Range(c.tree[t]) \ {x}
         /\ DOMAIN Untiled(c, x).tag = DOMAIN c.tag \ {x}
         /\ \A y \in DOMAIN c.tag \ {x} : Untiled(c, x).tag[y] = c.tag[y]
         /\ Untiled(c, x).pinned = c.pinned \ {x}
<1> DEFINE e == Untiled(c, x)
<1>1. /\ DOMAIN e = DOMAIN c /\ e.tree = [t \in Trees |-> Less(c.tree[t], x)]
      /\ e.tag = Lose(c.tag, {x}) /\ e.pinned = c.pinned \ {x}
      /\ e.active = c.active /\ e.before = c.before
  BY DEF ClassicType, Untiled
<1> HIDE DEF e
<1>2. \A t \in Trees : Less(c.tree[t], x) \in Orders /\ Range(Less(c.tree[t], x)) = Range(c.tree[t]) \ {x}
  BY LessKeeps DEF ClassicType
<1>3. DOMAIN e.tag = DOMAIN c.tag \ {x} /\ \A y \in DOMAIN c.tag \ {x} : e.tag[y] = c.tag[y]
  BY <1>1 DEF Lose
<1>4. e.tree \in [Trees -> Orders] BY <1>1, <1>2
<1>5. IsTable(e.tag, Tag) BY <1>3 DEF ClassicType, IsTable
<1>6. ClassicType(e) BY <1>1, <1>3, <1>4, <1>5 DEF ClassicType
<1> QED BY <1>1, <1>2, <1>3, <1>6 DEF e

LEMMA TiledInIs ==
  ASSUME NEW c, ClassicType(c), NEW x \in Apps, NEW t \in Trees, x \notin Range(c.tree[t]), NEW target
  PROVE  LET e == TiledIn(c, x, t, target) IN
         /\ ClassicType(e) /\ e.tag = c.tag /\ e.pinned = c.pinned
         /\ e.active = c.active /\ e.before = c.before
         /\ e.tree[t] = Beside(c.tree[t], x, target) /\ Range(e.tree[t]) = Range(c.tree[t]) \cup {x}
         /\ \A u \in Trees \ {t} : e.tree[u] = c.tree[u]
<1> DEFINE e == TiledIn(c, x, t, target)
           s == Beside(c.tree[t], x, target)
<1>1. /\ DOMAIN e = DOMAIN c /\ e.tree = [c.tree EXCEPT ![t] = s]
      /\ e.tag = c.tag /\ e.pinned = c.pinned /\ e.active = c.active /\ e.before = c.before
  BY DEF ClassicType, TiledIn
<1> HIDE DEF e
<1>2. s \in Orders /\ Range(s) = Range(c.tree[t]) \cup {x} BY BesideKeeps DEF ClassicType
<1> HIDE DEF s
<1>3. e.tree \in [Trees -> Orders] /\ e.tree[t] = s /\ \A u \in Trees \ {t} : e.tree[u] = c.tree[u]
  BY <1>1, <1>2 DEF ClassicType
<1>4. ClassicType(e) BY <1>1, <1>3 DEF ClassicType
<1> QED BY <1>1, <1>2, <1>3, <1>4 DEF e, s

\* OceanSpace::remove takes a window out of every Ocean table.
LEMMA SunkIs ==
  ASSUME NEW o, OceanType(o), NEW x
  PROVE  /\ OceanType(Sunk(o, x)) /\ Reefs(Sunk(o, x)) = Reefs(o)
         /\ \A r \in Reefs(o) : Range(Sunk(o, x).reefs[r].wins) = Range(o.reefs[r].wins) \ {x}
         /\ DOMAIN Sunk(o, x).loose = DOMAIN o.loose \ {x}
<1> DEFINE p == Sunk(o, x)
           q == [r \in DOMAIN o.reefs |-> Lacking(o.reefs[r], x)]
<1>1. /\ DOMAIN p = DOMAIN o /\ p.reefs = q /\ p.loose = Lose(o.loose, {x})
      /\ p.entry = Lose(o.entry, {x}) /\ p.pins = Lose(o.pins, {x}) /\ p.camera = o.camera
  BY DEF OceanType, Sunk
<1> HIDE DEF p
<1>2. o.reefs \in Seq(Reef) /\ DOMAIN o.reefs = 1 .. Len(o.reefs) BY DEF OceanType
<1>3. ASSUME NEW r \in DOMAIN o.reefs
      PROVE  /\ q[r] \in Reef /\ q[r].wins = Less(o.reefs[r].wins, x)
             /\ Range(q[r].wins) = Range(o.reefs[r].wins) \ {x}
  <2>1. o.reefs[r] \in Reef BY <1>2
  <2>2. Less(o.reefs[r].wins, x) \in Orders /\ Range(Less(o.reefs[r].wins, x)) = Range(o.reefs[r].wins) \ {x}
    BY <2>1, LessKeeps DEF Reef
  <2> QED BY <2>1, <2>2 DEF Reef, Lacking
<1>4. q \in Seq(Reef) /\ DOMAIN q = DOMAIN o.reefs
  <2>1. q \in [1 .. Len(o.reefs) -> Reef] BY <1>2, <1>3
  <2> HIDE DEF q
  <2> QED BY <2>1, <1>2, SeqDef
<1> HIDE DEF q
<1>5. /\ DOMAIN p.loose = DOMAIN o.loose \ {x} /\ DOMAIN p.entry = DOMAIN o.entry \ {x}
      /\ DOMAIN p.pins = DOMAIN o.pins \ {x}
      /\ IsTable(p.loose, Nat) /\ IsTable(p.entry, Heads) /\ IsTable(p.pins, Heads)
  BY <1>1 DEF Lose, OceanType, IsTable
<1>6. \A y \in Apps : ReefOf(p, y) = IF y = x THEN {} ELSE ReefOf(o, y)
  BY <1>1, <1>3, <1>4 DEF ReefOf, Reefs
<1>7. OceanType(p) BY <1>1, <1>4, <1>5, <1>6 DEF OceanType
<1> QED BY <1>1, <1>3, <1>4, <1>5, <1>7 DEF p, Reefs

LEMMA Lowest ==
  ASSUME NEW S \in SUBSET Nat, S # {}
  PROVE  \E m \in S : \A k \in S : m <= k
<1>1. \E m \in S : \A k \in S : ~ (<<k, m>> \in OpToRel(<, Nat))
  BY NatLessThanWellFounded, WFMin
<1>2. PICK m \in S : \A k \in S : ~ (k < m) BY <1>1, Zenon DEF OpToRel
<1>3. \A k \in S : m <= k BY <1>2
<1> QED BY <1>3

LEMMA LeastIs ==
  ASSUME NEW S \in SUBSET Nat, S # {}
  PROVE  Least(S) \in S /\ \A y \in S : Least(S) <= y
BY Lowest DEF Least

\* Of indices with a measure, the first with the smallest one.
LEMMA ClosestIs ==
  ASSUME NEW S \in SUBSET Nat, S # {}, NEW f, \A r \in S : f[r] \in Nat
  PROVE  LET near == {r \in S : \A q \in S : f[r] <= f[q]} IN Least(near) \in near
<1> DEFINE near == {r \in S : \A q \in S : f[r] <= f[q]}
           T == {f[r] : r \in S}
<1>1. T \in SUBSET Nat /\ T # {} OBVIOUS
<1> HIDE DEF T
<1>2. PICK k \in T : \A q \in T : k <= q BY <1>1, Lowest
<1>3. PICK r \in S : f[r] = k BY DEF T
<1>4. \A q \in S : f[r] <= f[q] BY <1>2, <1>3 DEF T
<1>5. near \in SUBSET Nat /\ near # {} BY <1>4
<1> HIDE DEF near
<1>6. Least(near) \in near BY <1>5, LeastIs
<1> QED BY <1>6 DEF near

\* Window x, in no table of Ocean before, is in one reef now.
Berthed(o, p, x) ==
  /\ OceanType(p) /\ \E r \in Reefs(p) : ReefOf(p, x) = {r}
  /\ \A y \in Apps \ {x} : ReefOf(p, y) = ReefOf(o, y)
  /\ p.loose = o.loose /\ p.pins = o.pins /\ p.camera = o.camera

LEMMA ReefInIs ==
  ASSUME NEW o, OceanType(o), NEW x \in Apps, ReefOf(o, x) = {}, NEW m \in Heads,
         NEW r \in Reefs(o), NEW target
  PROVE  Berthed(o, ReefIn(o, r, x, target, m), x)
<1> DEFINE p == ReefIn(o, r, x, target, m)
           h == Anchored(o.reefs[r], o.camera[m])
           n == Holding(h, x, target)
<1>1. o.reefs \in Seq(Reef) /\ o.reefs[r] \in Reef /\ r \in DOMAIN o.reefs /\ o.camera[m] \in Nat
  BY DEF OceanType, Reefs
<1>2. h \in Reef /\ h.wins = o.reefs[r].wins BY <1>1 DEF Anchored, Reef
<1>3. x \notin Range(h.wins) BY <1>1, <1>2 DEF ReefOf, Reefs
<1>4. Beside(h.wins, x, target) \in Orders /\ Range(Beside(h.wins, x, target)) = Range(h.wins) \cup {x}
  BY <1>2, <1>3, BesideKeeps DEF Reef
<1>5. n \in Reef /\ Range(n.wins) = Range(o.reefs[r].wins) \cup {x}
  <2> HIDE DEF h
  <2> QED BY <1>2, <1>4 DEF Holding, Reef
<1>6. /\ DOMAIN p = DOMAIN o /\ p.reefs = [o.reefs EXCEPT ![r] = n]
      /\ p.loose = o.loose /\ p.entry = Bind(o.entry, x, m)
      /\ p.pins = o.pins /\ p.camera = o.camera
  BY DEF OceanType, ReefIn
<1> HIDE DEF p, n, h
<1>7. /\ p.reefs \in Seq(Reef) /\ DOMAIN p.reefs = DOMAIN o.reefs /\ p.reefs[r] = n
      /\ \A q \in DOMAIN o.reefs \ {r} : p.reefs[q] = o.reefs[q]
  <2>1. p.reefs \in Seq(Reef) BY <1>1, <1>5, <1>6
  <2> QED BY <2>1, <1>1, <1>6
<1>8. \A y \in Apps \ {x} : ReefOf(p, y) = ReefOf(o, y)
  BY <1>5, <1>7, <1>1 DEF ReefOf, Reefs
<1>9. ReefOf(p, x) = {r} BY <1>1, <1>5, <1>7 DEF ReefOf, Reefs
<1>10. DOMAIN p.entry = DOMAIN o.entry \cup {x} /\ IsTable(p.entry, Heads)
  BY <1>6 DEF Bind, IsTable, OceanType
<1>11. OceanType(p) BY <1>6, <1>7, <1>8, <1>10 DEF OceanType
<1>12. r \in Reefs(p) BY <1>7, <1>1 DEF Reefs
<1> QED BY <1>6, <1>8, <1>9, <1>11, <1>12 DEF p, Berthed

\* An empty reef opens behind the others.
LEMMA OpenedIs ==
  ASSUME NEW o, OceanType(o), NEW m \in Heads, NEW auto \in BOOLEAN, NEW p,
         p = [o EXCEPT !.reefs = Append(@, [at |-> o.camera[m], wins |-> <<>>, auto |-> auto])]
  PROVE  /\ OceanType(p) /\ Len(o.reefs) + 1 \in Reefs(p)
         /\ \A y \in Apps : ReefOf(p, y) = ReefOf(o, y)
         /\ p.loose = o.loose /\ p.pins = o.pins /\ p.camera = o.camera
<1> DEFINE n == [at |-> o.camera[m], wins |-> <<>>, auto |-> auto]
<1>1. /\ DOMAIN p = DOMAIN o /\ p.reefs = Append(o.reefs, n)
      /\ p.loose = o.loose /\ p.entry = o.entry /\ p.pins = o.pins /\ p.camera = o.camera
  BY DEF OceanType
<1>2. o.camera[m] \in Nat /\ o.reefs \in Seq(Reef) BY DEF OceanType
<1>3. <<>> \in Orders BY DEF Orders, IsInjective
<1>4. n \in Reef /\ n.wins = <<>> BY <1>2, <1>3 DEF Reef
<1>5. ~ \E y : y \in Range(n.wins) BY <1>4 DEF Range
<1> HIDE DEF n
<1>6. /\ p.reefs \in Seq(Reef) /\ DOMAIN p.reefs = 1 .. Len(o.reefs) + 1
      /\ DOMAIN o.reefs = 1 .. Len(o.reefs) /\ p.reefs[Len(o.reefs) + 1] = n
      /\ \A q \in 1 .. Len(o.reefs) : p.reefs[q] = o.reefs[q]
  BY <1>1, <1>2, <1>4
<1>7. Len(o.reefs) \in Nat BY <1>2
<1>8. \A y \in Apps : ReefOf(p, y) = ReefOf(o, y) BY <1>5, <1>6, <1>7 DEF ReefOf, Reefs
<1>9. OceanType(p) BY <1>1, <1>6, <1>8 DEF OceanType
<1>10. Len(o.reefs) + 1 \in Reefs(p) BY <1>6, <1>7 DEF Reefs
<1> QED BY <1>1, <1>8, <1>9, <1>10

LEMMA IntoReefIs ==
  ASSUME NEW o, OceanType(o), NEW x \in Apps, ReefOf(o, x) = {}, NEW m \in Heads, NEW target
  PROVE  Berthed(o, IntoReef(o, x, target, m), x)
<1> DEFINE fits == {r \in Reefs(o) : Accepts(o, r, m)}
           far(r) == Away(o.reefs[r].at, o.camera[m])
           closest(S) == Least({r \in S : \A q \in S : far(r) <= far(q)})
           asked == {r \in fits : target \in Range(o.reefs[r].wins) /\ SeenFrom(o, target, m)}
           near == closest(Reefs(o))
           private == /\ Reefs(o) # {} /\ far(near) = 0
                      /\ \A r \in fits : far(r) # 0
           opened(auto) == [o EXCEPT !.reefs = Append(@, [at |-> o.camera[m], wins |-> <<>>, auto |-> auto])]
<1>1. /\ o.reefs \in Seq(Reef) /\ Reefs(o) = 1 .. Len(o.reefs) /\ o.camera[m] \in Nat
      /\ \A r \in Reefs(o) : o.reefs[r] \in Reef
  BY DEF OceanType, Reefs
<1>2. \A r \in Reefs(o) : far(r) \in Nat BY <1>1 DEF Reef, Away
<1>3. ASSUME NEW S \in SUBSET Reefs(o), S # {} PROVE closest(S) \in S
  <2> DEFINE f == [r \in Reefs(o) |-> far(r)]
  <2>1. S \in SUBSET Nat /\ \A r \in S : f[r] \in Nat /\ f[r] = far(r) BY <1>1, <1>2
  <2>2. {r \in S : \A q \in S : far(r) <= far(q)} = {r \in S : \A q \in S : f[r] <= f[q]} BY <2>1
  <2> HIDE DEF f
  <2>3. LET n == {r \in S : \A q \in S : f[r] <= f[q]} IN Least(n) \in n BY <2>1, <1>3, ClosestIs
  <2> QED BY <2>2, <2>3
<1>4. IntoReef(o, x, target, m) =
        IF asked # {} THEN ReefIn(o, Least(asked), x, target, m)
        ELSE IF private THEN ReefIn(opened(o.reefs[near].auto), Len(o.reefs) + 1, x, target, m)
        ELSE IF fits = {} THEN ReefIn(opened(TRUE), Len(o.reefs) + 1, x, target, m)
        ELSE ReefIn(o, closest(fits), x, target, m)
  BY DEF IntoReef
<1>5. asked # {} => Least(asked) \in Reefs(o)
  <2>1. asked \in SUBSET Nat BY <1>1
  <2> QED BY <2>1, LeastIs
<1>6. fits # {} => closest(fits) \in Reefs(o) BY <1>3
<1>7. private => o.reefs[near].auto \in BOOLEAN
  <2>1. private => near \in Reefs(o)
    <3>1. Reefs(o) # {} => closest(Reefs(o)) \in Reefs(o) BY <1>3
    <3> QED BY <3>1
  <2> HIDE DEF near, private
  <2> QED BY <2>1, <1>1 DEF Reef
<1>8. ASSUME NEW auto \in BOOLEAN
      PROVE  Berthed(o, ReefIn(opened(auto), Len(o.reefs) + 1, x, target, m), x)
  <2> DEFINE p == opened(auto)
  <2>1. /\ OceanType(p) /\ Len(o.reefs) + 1 \in Reefs(p)
        /\ \A y \in Apps : ReefOf(p, y) = ReefOf(o, y)
        /\ p.loose = o.loose /\ p.pins = o.pins /\ p.camera = o.camera
    BY OpenedIs
  <2> HIDE DEF p
  <2>2. Berthed(p, ReefIn(p, Len(o.reefs) + 1, x, target, m), x) BY <2>1, ReefInIs
  <2>3. Berthed(o, ReefIn(p, Len(o.reefs) + 1, x, target, m), x) BY <2>1, <2>2 DEF Berthed
  <2> QED BY <2>3 DEF p
<1> HIDE DEF asked, private, fits, near, closest, opened
<1>9. CASE asked # {} BY <1>9, <1>4, <1>5, ReefInIs
<1>10. CASE asked = {} /\ private BY <1>10, <1>4, <1>7, <1>8
<1>11. CASE asked = {} /\ ~private /\ fits = {} BY <1>11, <1>4, <1>8
<1>12. CASE asked = {} /\ ~private /\ fits # {} BY <1>12, <1>4, <1>6, ReefInIs
<1> QED BY <1>9, <1>10, <1>11, <1>12

LEMMA UntiledOwners ==
  ASSUME NEW c, ClassicType(c), NEW x
  PROVE  \A y : TileOf(Untiled(c, x), y) = IF y = x THEN {} ELSE TileOf(c, y)
BY UntiledIs DEF TileOf

LEMMA TiledInOwners ==
  ASSUME NEW c, ClassicType(c), NEW x \in Apps, NEW t \in Trees, x \notin Range(c.tree[t]), NEW target
  PROVE  \A y : TileOf(TiledIn(c, x, t, target), y) =
                  IF y = x THEN TileOf(c, x) \cup {t} ELSE TileOf(c, y)
<1> DEFINE e == TiledIn(c, x, t, target)
<1>1. /\ Range(e.tree[t]) = Range(c.tree[t]) \cup {x}
      /\ \A u \in Trees \ {t} : e.tree[u] = c.tree[u]
  BY TiledInIs
<1> HIDE DEF e
<1>2. \A y : TileOf(e, y) = IF y = x THEN TileOf(c, x) \cup {t} ELSE TileOf(c, y)
  BY <1>1 DEF TileOf
<1> QED BY <1>2 DEF e

-----------------------------------------------------------------------------
(* The inductive invariant: one owner at most for every window, none that  *)
(* is not live or is hidden, and one for those that are; a window hides    *)
(* one window and is hidden by one; and what an engine that does not run   *)
(* may keep.                                                               *)

Meal == [of : Apps, out : Heads, desk : Spaces]

Typed ==
  /\ surface \in [Apps -> {"none", "unmapped", "live", "dead"}] /\ attached \subseteq Apps
  /\ ClassicType(classic) /\ OceanType(ocean) /\ IsTable(eaten, Meal)
  /\ spatial \in {"classic", "ocean"} /\ strays \subseteq Apps

OwnedRightly ==
  \A x \in Apps :
    /\ Alone(classic, ocean, x)
    /\ Owned(classic, ocean, x) => surface[x] = "live" /\ x \notin Hidden
    /\ surface[x] = "live" /\ x \notin Hidden /\ x \notin strays => Owned(classic, ocean, x)

Meals ==
  /\ \A x \in DOMAIN eaten : surface[x] = "live" /\ surface[eaten[x].of] = "live" /\ eaten[x].of # x
  /\ \A x, y \in DOMAIN eaten : eaten[x].of = eaten[y].of => x = y

Deserted == spatial = "classic" => Reefs(ocean) = {} /\ DOMAIN ocean.loose = {}

EsInv == Typed /\ OwnedRightly /\ Meals /\ EngineOwnsItsWindows /\ Deserted

LEMMA EsInitIsOwned == EsInit => EsInv
<1> SUFFICES ASSUME EsInit PROVE EsInv OBVIOUS
<1> USE DEF EsInit
<1>1. <<>> \in Orders BY DEF Orders, IsInjective
<1>2. DOMAIN Nowhere = {} BY DEF Nowhere
<1>3. 1 \in Spaces /\ Numbered \in Nat BY EsAssumption DEF EsAssumption, Spaces, Scratchpad
<1>4. ClassicType(classic)
  <2>1. classic.tree \in [Trees -> Orders] BY <1>1
  <2>2. classic.active \in [Heads -> Spaces] /\ classic.before \in [Heads -> 0 .. Numbered] BY <1>3
  <2> QED BY <1>2, <2>1, <2>2 DEF ClassicType, IsTable
<1>5. ocean.reefs = <<>> /\ DOMAIN ocean.loose = {} /\ Reefs(ocean) = {} BY <1>2 DEF Reefs
<1>6. OceanType(ocean)
  <2>1. ocean.reefs \in Seq(Reef) /\ ocean.camera \in [Heads -> Nat] OBVIOUS
  <2>2. \A x \in Apps : ReefOf(ocean, x) = {} BY <1>5 DEF ReefOf
  <2> QED BY <1>2, <1>5, <2>1, <2>2 DEF OceanType, IsTable
<1>7. \A x \in Apps : TileOf(classic, x) = {} /\ ReefOf(ocean, x) = {} /\ DOMAIN classic.tag = {}
  <2>1. Range(<<>>) = {} BY DEF Range
  <2> QED BY <1>2, <1>5, <2>1 DEF TileOf, ReefOf
<1>8. Typed BY <1>2, <1>4, <1>6 DEF Typed, IsTable
<1>9. OwnedRightly BY <1>5, <1>7 DEF OwnedRightly, Alone, Owned
<1>10. Meals /\ EngineOwnsItsWindows BY <1>2 DEF Meals, EngineOwnsItsWindows
<1> QED BY <1>5, <1>8, <1>9, <1>10 DEF EsInv, Deserted

-----------------------------------------------------------------------------
(* What the user does.                                                     *)

LEMMA DesktopKeeps ==
  ASSUME EsInv, NEW c, NEW o, Desktop(c, o), ClassicType(c), OceanType(o),
         spatial = "classic" => o = ocean, spatial = "ocean" => c = classic,
         \A y \in Apps : Alone(c, o, y) /\ (Owned(c, o, y) <=> Owned(classic, ocean, y))
  PROVE  EsInv'
<1> USE DEF EsInv
<1>1. classic' = c /\ ocean' = o /\ UNCHANGED <<surface, attached, eaten, spatial, strays>> BY DEF Desktop
<1>2. Hidden' = Hidden BY <1>1 DEF Hidden
<1>3. Typed' BY <1>1 DEF Typed
<1>4. OwnedRightly' BY <1>1, <1>2 DEF OwnedRightly
<1>5. Meals' BY <1>1 DEF Meals
<1>6. EngineOwnsItsWindows' BY <1>1 DEF EngineOwnsItsWindows
<1>7. Deserted' BY <1>1 DEF Deserted
<1> QED BY <1>3, <1>4, <1>5, <1>6, <1>7

LEMMA SwitchSpaceKeeps ==
  ASSUME EsInv, NEW m \in Heads, NEW d \in Spaces, SwitchSpace(m, d) PROVE EsInv'
<1> DEFINE e == [classic EXCEPT !.active[m] = d,
                                !.before[m] = IF d = Scratchpad THEN classic.active[m] ELSE @]
<1>1. spatial = "classic" /\ d # classic.active[m] /\ Desktop(e, ocean) BY DEF SwitchSpace
<1>2. ClassicType(classic) BY DEF EsInv, Typed
<1>3. /\ DOMAIN e = DOMAIN classic /\ e.tree = classic.tree /\ e.tag = classic.tag
      /\ e.pinned = classic.pinned /\ e.active = [classic.active EXCEPT ![m] = d]
      /\ e.before = [classic.before EXCEPT ![m] = IF d = Scratchpad THEN classic.active[m] ELSE @]
  BY <1>2 DEF ClassicType
<1> HIDE DEF e
<1>4. d = Scratchpad => classic.active[m] \in 0 .. Numbered
  BY <1>1, <1>2, EsAssumption DEF EsAssumption, ClassicType, Spaces, Scratchpad
<1>5. e.active \in [Heads -> Spaces] /\ e.before \in [Heads -> 0 .. Numbered] BY <1>2, <1>3, <1>4 DEF ClassicType
<1>6. ClassicType(e) BY <1>2, <1>3, <1>5 DEF ClassicType
<1>7. \A y \in Apps : Same(classic, ocean, e, ocean, y) BY <1>3 DEF Same, TileOf
<1>8. \A y \in Apps : Alone(e, ocean, y) /\ (Owned(e, ocean, y) <=> Owned(classic, ocean, y))
  BY <1>7, SameStays DEF EsInv, OwnedRightly
<1> QED BY <1>1, <1>6, <1>8, DesktopKeeps DEF EsInv, Typed

LEMMA TravelKeeps ==
  ASSUME EsInv, NEW m \in Heads, NEW x \in 0 .. Len(MonitorOrder) * Numbered - 1, Travel(m, x) PROVE EsInv'
<1> DEFINE p == [ocean EXCEPT !.camera[m] = x]
<1>1. spatial = "ocean" /\ Desktop(classic, p) BY DEF Travel
<1>2. OceanType(ocean) BY DEF EsInv, Typed
<1>3. /\ DOMAIN p = DOMAIN ocean /\ p.reefs = ocean.reefs /\ p.loose = ocean.loose
      /\ p.entry = ocean.entry /\ p.pins = ocean.pins /\ p.camera = [ocean.camera EXCEPT ![m] = x]
  BY <1>2 DEF OceanType
<1> HIDE DEF p
<1>4. x \in Nat OBVIOUS
<1>5. \A y \in Apps : ReefOf(p, y) = ReefOf(ocean, y) BY <1>3 DEF ReefOf, Reefs
<1>6. OceanType(p) BY <1>2, <1>3, <1>4, <1>5 DEF OceanType
<1>7. \A y \in Apps : Same(classic, ocean, classic, p, y) BY <1>3, <1>5 DEF Same
<1>8. \A y \in Apps : Alone(classic, p, y) /\ (Owned(classic, p, y) <=> Owned(classic, ocean, y))
  BY <1>7, SameStays DEF EsInv, OwnedRightly
<1> QED BY <1>1, <1>6, <1>8, DesktopKeeps DEF EsInv, Typed

\* A window is taken from wherever Classic has it and tiled.
LEMMA Retiled ==
  ASSUME NEW c, ClassicType(c), NEW o, NEW x \in Apps, NEW t \in Trees, NEW target
  PROVE  LET e == TiledIn(Untiled(c, x), x, t, target) IN
         /\ ClassicType(e) /\ TileOf(e, x) = {t} /\ x \notin DOMAIN e.tag
         /\ \A y \in Apps \ {x} : Same(c, o, e, o, y)
<1> DEFINE u == Untiled(c, x)
           e == TiledIn(u, x, t, target)
<1>1. /\ ClassicType(u) /\ x \notin Range(u.tree[t]) /\ DOMAIN u.tag = DOMAIN c.tag \ {x}
      /\ \A y \in DOMAIN c.tag \ {x} : u.tag[y] = c.tag[y]
  BY UntiledIs
<1>2. \A y : TileOf(u, y) = IF y = x THEN {} ELSE TileOf(c, y) BY UntiledOwners
<1> HIDE DEF u
<1>3. ClassicType(e) /\ e.tag = u.tag BY <1>1, TiledInIs
<1>4. \A y : TileOf(e, y) = IF y = x THEN TileOf(u, x) \cup {t} ELSE TileOf(u, y)
  BY <1>1, TiledInOwners
<1> HIDE DEF e
<1>5. TileOf(e, x) = {t} /\ x \notin DOMAIN e.tag BY <1>1, <1>2, <1>3, <1>4
<1>6. ASSUME NEW y \in Apps \ {x} PROVE Same(c, o, e, o, y)
  BY <1>1, <1>2, <1>3, <1>4 DEF Same
<1> QED BY <1>3, <1>5, <1>6 DEF e, u

\* The same, floating.
LEMMA Floated ==
  ASSUME NEW c, ClassicType(c), NEW o, NEW x \in Apps, NEW tag \in Tag
  PROVE  LET e == [Untiled(c, x) EXCEPT !.tag = Bind(@, x, tag)] IN
         /\ ClassicType(e) /\ TileOf(e, x) = {} /\ x \in DOMAIN e.tag
         /\ \A y \in Apps \ {x} : Same(c, o, e, o, y)
<1> DEFINE u == Untiled(c, x)
           e == [u EXCEPT !.tag = Bind(@, x, tag)]
<1>1. /\ ClassicType(u) /\ DOMAIN u.tag = DOMAIN c.tag \ {x}
      /\ \A y \in DOMAIN c.tag \ {x} : u.tag[y] = c.tag[y]
  BY UntiledIs
<1>2. \A y : TileOf(u, y) = IF y = x THEN {} ELSE TileOf(c, y) BY UntiledOwners
<1> HIDE DEF u
<1>3. /\ DOMAIN e = DOMAIN u /\ e.tree = u.tree /\ e.tag = Bind(u.tag, x, tag)
      /\ e.pinned = u.pinned /\ e.active = u.active /\ e.before = u.before
  BY <1>1 DEF ClassicType
<1> HIDE DEF e
<1>4. /\ DOMAIN e.tag = DOMAIN u.tag \cup {x} /\ IsTable(e.tag, Tag)
      /\ \A y \in DOMAIN u.tag \ {x} : e.tag[y] = u.tag[y]
  BY <1>1, <1>3 DEF Bind, IsTable, ClassicType
<1>5. ClassicType(e) BY <1>1, <1>3, <1>4 DEF ClassicType
<1>6. \A y : TileOf(e, y) = TileOf(u, y) BY <1>3 DEF TileOf
<1>7. ASSUME NEW y \in Apps \ {x} PROVE Same(c, o, e, o, y)
  BY <1>1, <1>2, <1>4, <1>6 DEF Same
<1> QED BY <1>2, <1>4, <1>5, <1>6, <1>7 DEF e, u

\* A floating window's tag changes.
LEMMA Retagged ==
  ASSUME NEW c, ClassicType(c), NEW o, NEW x \in DOMAIN c.tag, NEW e,
         DOMAIN e = DOMAIN c, e.tree = c.tree, e.active = c.active, e.before = c.before,
         NEW d \in Spaces, e.tag = [c.tag EXCEPT ![x].desk = d], e.pinned \subseteq DOMAIN c.tag
  PROVE  ClassicType(e) /\ \A y \in Apps : TileOf(e, y) = TileOf(c, y) /\ (y \in DOMAIN e.tag <=> y \in DOMAIN c.tag)
<1>1. c.tag[x] \in Tag BY DEF ClassicType, IsTable
<1>2. [c.tag[x] EXCEPT !.desk = d] \in Tag BY <1>1 DEF Tag
<1>3. DOMAIN e.tag = DOMAIN c.tag OBVIOUS
<1>4. \A y \in DOMAIN c.tag : e.tag[y] = IF y = x THEN [c.tag[x] EXCEPT !.desk = d] ELSE c.tag[y]
  OBVIOUS
<1>5. IsTable(e.tag, Tag) BY <1>2, <1>3, <1>4 DEF IsTable, ClassicType
<1>6. ClassicType(e) BY <1>3, <1>5 DEF ClassicType
<1> QED BY <1>3, <1>6 DEF TileOf

\* Classic gives window x another place; the rest stays.
LEMMA ClassicMoves ==
  ASSUME EsInv, spatial = "classic", NEW x \in Apps, Owned(classic, ocean, x),
         NEW e, ClassicType(e), Desktop(e, ocean),
         \A y \in Apps \ {x} : Same(classic, ocean, e, ocean, y),
         \/ (\E t : TileOf(e, x) = {t}) /\ x \notin DOMAIN e.tag
         \/ TileOf(e, x) = {} /\ x \in DOMAIN e.tag
  PROVE  EsInv'
<1>1. ReefOf(ocean, x) = {} /\ x \notin DOMAIN ocean.loose
  BY DEF EsInv, Deserted, ReefOf, Reefs
<1>2. Alone(e, ocean, x) /\ Owned(e, ocean, x) BY <1>1 DEF Alone, Owned
<1>3. \A y \in Apps : Alone(classic, ocean, y) BY DEF EsInv, OwnedRightly
<1>4. \A y \in Apps \ {x} : Alone(e, ocean, y) /\ (Owned(e, ocean, y) <=> Owned(classic, ocean, y))
  BY <1>3, SameStays
<1>5. OceanType(ocean) BY DEF EsInv, Typed
<1> QED BY <1>2, <1>4, <1>5, DesktopKeeps

LEMMA SendToKeeps ==
  ASSUME EsInv, NEW x \in Apps, NEW d \in Spaces, SendTo(x, d) PROVE EsInv'
<1>1. spatial = "classic" /\ ClassicType(classic) BY DEF SendTo, EsInv, Typed
<1>2. ASSUME NEW t \in TileOf(classic, x), Desktop(TiledIn(Untiled(classic, x), x, <<t[1], d>>, x), ocean)
      PROVE  EsInv'
  <2> DEFINE u == <<t[1], d>>
             e == TiledIn(Untiled(classic, x), x, u, x)
  <2>1. u \in Trees BY DEF TileOf, Trees
  <2> HIDE DEF u
  <2>2. /\ ClassicType(e) /\ TileOf(e, x) = {u} /\ x \notin DOMAIN e.tag
        /\ \A y \in Apps \ {x} : Same(classic, ocean, e, ocean, y)
    BY <1>1, <2>1, Retiled
  <2>3. Desktop(e, ocean) BY <1>2 DEF u
  <2>4. Owned(classic, ocean, x) BY DEF Owned
  <2> HIDE DEF e
  <2> QED BY <1>1, <2>2, <2>3, <2>4, ClassicMoves
<1>3. ASSUME x \in DOMAIN classic.tag, Desktop([classic EXCEPT !.tag[x].desk = d], ocean)
      PROVE  EsInv'
  <2> DEFINE e == [classic EXCEPT !.tag[x].desk = d]
  <2>1. /\ DOMAIN e = DOMAIN classic /\ e.tree = classic.tree /\ e.active = classic.active
        /\ e.before = classic.before /\ e.tag = [classic.tag EXCEPT ![x].desk = d]
        /\ e.pinned \subseteq DOMAIN classic.tag
    BY <1>1 DEF ClassicType
  <2> HIDE DEF e
  <2>2. /\ ClassicType(e)
        /\ \A y \in Apps : TileOf(e, y) = TileOf(classic, y) /\ (y \in DOMAIN e.tag <=> y \in DOMAIN classic.tag)
    BY <1>1, <1>3, <2>1, Retagged
  <2>3. \A y \in Apps : Alone(classic, ocean, y) BY DEF EsInv, OwnedRightly
  <2>4. \A y \in Apps : Alone(e, ocean, y) /\ (Owned(e, ocean, y) <=> Owned(classic, ocean, y))
    BY <2>2, <2>3 DEF Alone, Owned
  <2>5. Desktop(e, ocean) BY <1>3 DEF e
  <2> QED BY <1>1, <2>2, <2>4, <2>5, DesktopKeeps DEF EsInv, Typed
<1> QED BY <1>2, <1>3 DEF SendTo

\* A window leaves its reef and floats where the reef is.
LEMMA Unberthed ==
  ASSUME NEW o, OceanType(o), NEW x \in Apps, NEW r, ReefOf(o, x) = {r}
  PROVE  LET p == Unmoored(o, r, x) IN
         /\ OceanType(p) /\ ReefOf(p, x) = {} /\ DOMAIN p.loose = DOMAIN o.loose \cup {x}
         /\ \A y \in Apps \ {x} : ReefOf(p, y) = ReefOf(o, y)
         /\ p.pins = o.pins /\ p.entry = o.entry /\ p.camera = o.camera
<1> DEFINE n == Lacking(o.reefs[r], x)
           p == Unmoored(o, r, x)
<1>1. r \in DOMAIN o.reefs /\ o.reefs \in Seq(Reef) /\ o.reefs[r] \in Reef
  <2>1. r \in DOMAIN o.reefs BY DEF ReefOf, Reefs
  <2> QED BY <2>1 DEF OceanType
<1>2. Less(o.reefs[r].wins, x) \in Orders /\ Range(Less(o.reefs[r].wins, x)) = Range(o.reefs[r].wins) \ {x}
  BY <1>1, LessKeeps DEF Reef
<1>3. n \in Reef /\ Range(n.wins) = Range(o.reefs[r].wins) \ {x}
  BY <1>1, <1>2 DEF Lacking, Reef
<1>4. /\ DOMAIN p = DOMAIN o /\ p.reefs = [o.reefs EXCEPT ![r] = n]
      /\ p.loose = Bind(o.loose, x, o.reefs[r].at) /\ p.entry = o.entry
      /\ p.pins = o.pins /\ p.camera = o.camera
  BY DEF OceanType, Unmoored
<1> HIDE DEF p, n
<1>5. /\ p.reefs \in Seq(Reef) /\ DOMAIN p.reefs = DOMAIN o.reefs /\ p.reefs[r] = n
      /\ \A q \in DOMAIN o.reefs \ {r} : p.reefs[q] = o.reefs[q]
  <2>1. p.reefs \in Seq(Reef) BY <1>1, <1>3, <1>4
  <2> QED BY <2>1, <1>1, <1>4
<1>6. \A y \in Apps \ {x} : ReefOf(p, y) = ReefOf(o, y)
  BY <1>1, <1>3, <1>5 DEF ReefOf, Reefs
<1>7. ReefOf(p, x) = {}
  <2>1. \A q \in DOMAIN o.reefs \ {r} : x \notin Range(o.reefs[q].wins) BY DEF ReefOf, Reefs
  <2> QED BY <2>1, <1>1, <1>3, <1>5 DEF ReefOf, Reefs
<1>8. DOMAIN p.loose = DOMAIN o.loose \cup {x} /\ IsTable(p.loose, Nat)
  <2>1. o.reefs[r].at \in Nat BY <1>1 DEF Reef
  <2> QED BY <2>1, <1>4 DEF Bind, IsTable, OceanType
<1>9. x \in DOMAIN o.entry BY DEF OceanType
<1>10. OceanType(p)
  <2>1. \A y \in Apps : ReefOf(p, y) # {} \/ y \in DOMAIN p.loose => y \in DOMAIN p.entry
    BY <1>4, <1>6, <1>7, <1>8, <1>9 DEF OceanType
  <2>2. DOMAIN p.pins \subseteq DOMAIN p.loose BY <1>4, <1>8 DEF OceanType
  <2> QED BY <1>4, <1>5, <1>8, <2>1, <2>2 DEF OceanType
<1> QED BY <1>4, <1>6, <1>7, <1>8, <1>10 DEF p

\* Ocean gives window x another place; the rest stays.
LEMMA OceanMoves ==
  ASSUME EsInv, spatial = "ocean", NEW x \in Apps,
         ReefOf(ocean, x) # {} \/ x \in DOMAIN ocean.loose,
         NEW p, OceanType(p), Desktop(classic, p),
         \A y \in Apps \ {x} : ReefOf(p, y) = ReefOf(ocean, y) /\ (y \in DOMAIN p.loose <=> y \in DOMAIN ocean.loose),
         \/ (\E r : ReefOf(p, x) = {r}) /\ x \notin DOMAIN p.loose
         \/ ReefOf(p, x) = {} /\ x \in DOMAIN p.loose
  PROVE  EsInv'
<1>1. \A y \in Apps : Alone(classic, ocean, y) BY DEF EsInv, OwnedRightly
<1>2. TileOf(classic, x) = {} /\ x \notin DOMAIN classic.tag BY <1>1 DEF Alone
<1>3. Alone(classic, p, x) /\ Owned(classic, p, x) BY <1>2 DEF Alone, Owned
<1>4. Owned(classic, ocean, x) BY DEF Owned
<1>5. \A y \in Apps \ {x} : Same(classic, ocean, classic, p, y) BY DEF Same
<1>6. \A y \in Apps \ {x} : Alone(classic, p, y) /\ (Owned(classic, p, y) <=> Owned(classic, ocean, y))
  BY <1>1, <1>5, SameStays
<1>7. ClassicType(classic) BY DEF EsInv, Typed
<1> QED BY <1>3, <1>4, <1>6, <1>7, DesktopKeeps

LEMMA ToggleFloatKeeps ==
  ASSUME EsInv, NEW x \in Apps, ToggleFloat(x) PROVE EsInv'
<1>1. ClassicType(classic) /\ OceanType(ocean) BY DEF EsInv, Typed
<1>2. \A y \in Apps : Alone(classic, ocean, y) BY DEF EsInv, OwnedRightly
<1>3. ASSUME spatial = "classic", NEW t \in TileOf(classic, x),
             Desktop([Untiled(classic, x) EXCEPT
                        !.tag = Bind(@, x, [out |-> t[1], desk |-> classic.active[t[1]]])], ocean)
      PROVE  EsInv'
  <2> DEFINE g == [out |-> t[1], desk |-> classic.active[t[1]]]
             e == [Untiled(classic, x) EXCEPT !.tag = Bind(@, x, g)]
  <2>1. g \in Tag
    <3>1. t[1] \in Heads BY DEF TileOf, Trees
    <3> QED BY <3>1, <1>1 DEF ClassicType, Tag
  <2> HIDE DEF g
  <2>2. /\ ClassicType(e) /\ TileOf(e, x) = {} /\ x \in DOMAIN e.tag
        /\ \A y \in Apps \ {x} : Same(classic, ocean, e, ocean, y)
    BY <1>1, <2>1, Floated
  <2>3. Desktop(e, ocean) BY <1>3 DEF g
  <2>4. Owned(classic, ocean, x) BY DEF Owned
  <2> HIDE DEF e
  <2> QED BY <1>3, <2>2, <2>3, <2>4, ClassicMoves
<1>4. ASSUME spatial = "classic", x \in DOMAIN classic.tag, NEW target \in Apps,
             LET m == classic.tag[x].out IN
               Desktop(TiledIn(Untiled(classic, x), x, <<m, classic.active[m]>>, target), ocean)
      PROVE  EsInv'
  <2> DEFINE m == classic.tag[x].out
             u == <<m, classic.active[m]>>
             e == TiledIn(Untiled(classic, x), x, u, target)
  <2>1. u \in Trees
    <3>1. m \in Heads BY <1>1, <1>4 DEF ClassicType, IsTable, Tag
    <3> QED BY <3>1, <1>1 DEF ClassicType, Trees
  <2> HIDE DEF u
  <2>2. /\ ClassicType(e) /\ TileOf(e, x) = {u} /\ x \notin DOMAIN e.tag
        /\ \A y \in Apps \ {x} : Same(classic, ocean, e, ocean, y)
    BY <1>1, <2>1, Retiled
  <2>3. Desktop(e, ocean) BY <1>4 DEF u
  <2>4. Owned(classic, ocean, x) BY <1>4 DEF Owned
  <2> HIDE DEF e
  <2> QED BY <1>4, <2>2, <2>3, <2>4, ClassicMoves
<1>5. ASSUME spatial = "ocean", NEW r \in ReefOf(ocean, x),
             Desktop(classic, Unmoored(ocean, r, x))
      PROVE  EsInv'
  <2> DEFINE p == Unmoored(ocean, r, x)
  <2>1. ReefOf(ocean, x) = {r} BY <1>2 DEF Alone
  <2>2. /\ OceanType(p) /\ ReefOf(p, x) = {} /\ DOMAIN p.loose = DOMAIN ocean.loose \cup {x}
        /\ \A y \in Apps \ {x} : ReefOf(p, y) = ReefOf(ocean, y)
    BY <1>1, <2>1, Unberthed
  <2>3. Desktop(classic, p) BY <1>5
  <2> HIDE DEF p
  <2> QED BY <1>5, <2>1, <2>2, <2>3, OceanMoves
<1>6. ASSUME spatial = "ocean", x \in DOMAIN ocean.loose, NEW m \in Heads, NEW target \in Apps,
             Desktop(classic, IntoReef([ocean EXCEPT !.loose = Lose(@, {x}),
                                                     !.pins = Lose(@, {x})], x, target, m))
      PROVE  EsInv'
  <2> DEFINE q == [ocean EXCEPT !.loose = Lose(@, {x}), !.pins = Lose(@, {x})]
             p == IntoReef(q, x, target, m)
  <2>1. /\ DOMAIN q = DOMAIN ocean /\ q.reefs = ocean.reefs /\ q.entry = ocean.entry
        /\ q.loose = Lose(ocean.loose, {x}) /\ q.pins = Lose(ocean.pins, {x})
        /\ q.camera = ocean.camera
    BY <1>1 DEF OceanType
  <2> HIDE DEF q
  <2>2. /\ DOMAIN q.loose = DOMAIN ocean.loose \ {x} /\ DOMAIN q.pins = DOMAIN ocean.pins \ {x}
        /\ IsTable(q.loose, Nat) /\ IsTable(q.pins, Heads)
    BY <1>1, <2>1 DEF Lose, OceanType, IsTable
  <2>3. \A y \in Apps : ReefOf(q, y) = ReefOf(ocean, y) BY <2>1 DEF ReefOf, Reefs
  <2>4. OceanType(q) BY <1>1, <2>1, <2>2, <2>3 DEF OceanType
  <2>5. ReefOf(q, x) = {} BY <1>2, <1>6, <2>3 DEF Alone
  <2>6. Berthed(q, p, x) BY <2>4, <2>5, IntoReefIs
  <2>7. Desktop(classic, p) BY <1>6 DEF q
  <2> HIDE DEF p
  <2>8. /\ OceanType(p) /\ \E r : ReefOf(p, x) = {r}
        /\ x \notin DOMAIN p.loose
        /\ \A y \in Apps \ {x} : ReefOf(p, y) = ReefOf(ocean, y) /\ (y \in DOMAIN p.loose <=> y \in DOMAIN ocean.loose)
    BY <2>2, <2>3, <2>6 DEF Berthed
  <2> QED BY <1>6, <2>7, <2>8, OceanMoves
<1> QED BY <1>3, <1>4, <1>5, <1>6 DEF ToggleFloat

LEMMA TogglePinKeeps ==
  ASSUME EsInv, NEW x \in Apps, TogglePin(x) PROVE EsInv'
<1>1. ClassicType(classic) /\ OceanType(ocean) BY DEF EsInv, Typed
<1>2. \A y \in Apps : Alone(classic, ocean, y) BY DEF EsInv, OwnedRightly
<1>3. CASE spatial = "classic"
  <2> DEFINE pins == IF x \in classic.pinned THEN classic.pinned \ {x} ELSE classic.pinned \cup {x}
             d == IF x \in classic.pinned THEN classic.active[classic.tag[x].out] ELSE classic.tag[x].desk
             e == [classic EXCEPT !.pinned = pins, !.tag[x].desk = d]
  <2>1. x \in DOMAIN classic.tag /\ Desktop(e, ocean) BY <1>3 DEF TogglePin
  <2>2. d \in Spaces
    <3>1. classic.tag[x] \in Tag BY <1>1, <2>1 DEF ClassicType, IsTable
    <3> QED BY <3>1, <1>1 DEF Tag, ClassicType
  <2>3. pins \subseteq DOMAIN classic.tag BY <1>1, <2>1 DEF ClassicType
  <2> HIDE DEF pins, d
  <2>4. /\ DOMAIN e = DOMAIN classic /\ e.tree = classic.tree /\ e.active = classic.active
        /\ e.before = classic.before /\ e.tag = [classic.tag EXCEPT ![x].desk = d] /\ e.pinned = pins
    BY <1>1 DEF ClassicType
  <2> HIDE DEF e
  <2>5. /\ ClassicType(e)
        /\ \A y \in Apps : TileOf(e, y) = TileOf(classic, y) /\ (y \in DOMAIN e.tag <=> y \in DOMAIN classic.tag)
    BY <1>1, <2>1, <2>2, <2>3, <2>4, Retagged
  <2>6. \A y \in Apps : Alone(e, ocean, y) /\ (Owned(e, ocean, y) <=> Owned(classic, ocean, y))
    BY <1>2, <2>5 DEF Alone, Owned
  <2> QED BY <1>1, <1>3, <2>1, <2>5, <2>6, DesktopKeeps
<1>4. CASE spatial = "ocean"
  <2> DEFINE off == [ocean EXCEPT !.pins = Lose(@, {x}), !.loose[x] = ocean.camera[ocean.pins[x]]]
             on == [ocean EXCEPT !.pins = Bind(@, x, ocean.entry[x])]
             p == IF x \in DOMAIN ocean.pins THEN off ELSE on
  <2>1. x \in DOMAIN ocean.loose /\ Desktop(classic, p) BY <1>4 DEF TogglePin
  <2>2. ReefOf(ocean, x) = {} BY <1>2, <2>1 DEF Alone
  <2>3. /\ DOMAIN p = DOMAIN ocean /\ p.reefs = ocean.reefs /\ p.entry = ocean.entry
        /\ p.camera = ocean.camera /\ DOMAIN p.loose = DOMAIN ocean.loose
        /\ IsTable(p.loose, Nat) /\ IsTable(p.pins, Heads) /\ DOMAIN p.pins \subseteq DOMAIN p.loose
    <3>1. CASE x \in DOMAIN ocean.pins
      <4>1. /\ DOMAIN p = DOMAIN ocean /\ p.reefs = ocean.reefs /\ p.entry = ocean.entry
            /\ p.camera = ocean.camera /\ p.pins = Lose(ocean.pins, {x})
            /\ p.loose = [ocean.loose EXCEPT ![x] = ocean.camera[ocean.pins[x]]]
        BY <1>1, <3>1 DEF OceanType
      <4> HIDE DEF p
      <4>2. ocean.camera[ocean.pins[x]] \in Nat BY <1>1, <3>1 DEF OceanType, IsTable
      <4> QED BY <1>1, <4>1, <4>2 DEF OceanType, IsTable, Lose
    <3>2. CASE x \notin DOMAIN ocean.pins
      <4>1. /\ DOMAIN p = DOMAIN ocean /\ p.reefs = ocean.reefs /\ p.entry = ocean.entry
            /\ p.camera = ocean.camera /\ p.pins = Bind(ocean.pins, x, ocean.entry[x])
            /\ p.loose = ocean.loose
        BY <1>1, <3>2 DEF OceanType
      <4> HIDE DEF p
      <4>2. ocean.entry[x] \in Heads BY <1>1, <2>1 DEF OceanType, IsTable
      <4> QED BY <1>1, <2>1, <4>1, <4>2 DEF OceanType, IsTable, Bind
    <3> QED BY <3>1, <3>2
  <2> HIDE DEF p
  <2>4. \A y \in Apps : ReefOf(p, y) = ReefOf(ocean, y) BY <2>3 DEF ReefOf, Reefs
  <2>5. OceanType(p) BY <1>1, <2>3, <2>4 DEF OceanType
  <2> QED BY <1>4, <2>1, <2>2, <2>3, <2>4, <2>5, OceanMoves
<1>5. spatial \in {"classic", "ocean"} BY DEF EsInv, Typed
<1> QED BY <1>3, <1>4, <1>5

-----------------------------------------------------------------------------
(* Windows map.                                                            *)

\* A window that is not live is owned by nothing and hides nothing.
LEMMA NotYet ==
  ASSUME EsInv, NEW x \in Apps, surface[x] # "live"
  PROVE  /\ ~ Owned(classic, ocean, x) /\ x \notin Hidden /\ x \notin DOMAIN eaten
         /\ TileOf(classic, x) = {} /\ ReefOf(ocean, x) = {}
         /\ x \notin DOMAIN classic.tag /\ x \notin DOMAIN ocean.loose
<1>1. ~ Owned(classic, ocean, x) BY DEF EsInv, OwnedRightly
<1>2. \A y \in DOMAIN eaten : surface[y] = "live" /\ surface[eaten[y].of] = "live"
  BY DEF EsInv, Meals
<1>3. x \notin Hidden /\ x \notin DOMAIN eaten BY <1>2 DEF Hidden
<1> QED BY <1>1, <1>3 DEF Owned

Arrival(x) ==
  /\ surface[x] = "unmapped" /\ surface' = [surface EXCEPT ![x] = "live"]
  /\ attached' \subseteq Apps /\ UNCHANGED <<spatial, strays>>

LEMMA ArrivalKeeps ==
  ASSUME EsInv, NEW x \in Apps, Arrival(x), UNCHANGED eaten,
         ClassicType(classic'), OceanType(ocean'),
         spatial = "classic" => ocean' = ocean, spatial = "ocean" => classic' = classic,
         \A y \in Apps \ {x} : Same(classic, ocean, classic', ocean', y),
         Alone(classic', ocean', x), Owned(classic', ocean', x)
  PROVE  EsInv'
<1> USE DEF EsInv
<1>1. surface \in [Apps -> {"none", "unmapped", "live", "dead"}] BY DEF Typed
<1>2. /\ surface' \in [Apps -> {"none", "unmapped", "live", "dead"}]
      /\ surface'[x] = "live" /\ \A y \in Apps \ {x} : surface'[y] = surface[y]
  BY <1>1 DEF Arrival
<1>3. x \notin Hidden /\ x \notin DOMAIN eaten BY NotYet DEF Arrival
<1>4. Hidden' = Hidden BY DEF Hidden
<1>5. Typed' BY <1>2 DEF Typed, Arrival
<1>6. OwnedRightly'
  <2>1. ASSUME NEW y \in Apps \ {x}
        PROVE  /\ Alone(classic', ocean', y)
               /\ Owned(classic', ocean', y) => surface'[y] = "live" /\ y \notin Hidden
               /\ surface'[y] = "live" /\ y \notin Hidden /\ y \notin strays => Owned(classic', ocean', y)
    BY <1>2, SameStays DEF OwnedRightly
  <2> QED BY <1>2, <1>3, <1>4, <2>1 DEF OwnedRightly, Arrival
<1>7. Meals'
  <2>1. \A y \in DOMAIN eaten : eaten[y].of \in Hidden BY DEF Hidden
  <2>2. \A y \in DOMAIN eaten : y \in Apps /\ eaten[y].of \in Apps BY DEF Typed, IsTable, Meal
  <2>3. \A y \in DOMAIN eaten : surface'[y] = "live" /\ surface'[eaten[y].of] = "live"
    BY <1>2, <1>3, <2>1, <2>2 DEF Meals
  <2> QED BY <2>3 DEF Meals
<1>8. EngineOwnsItsWindows'
  <2>1. CASE spatial = "classic" BY <2>1 DEF EngineOwnsItsWindows, Arrival
  <2>2. CASE spatial = "ocean" BY <2>2 DEF EngineOwnsItsWindows, Arrival
  <2> QED BY <2>1, <2>2 DEF Typed
<1>9. Deserted' BY DEF Deserted, Arrival
<1> QED BY <1>5, <1>6, <1>7, <1>8, <1>9

LEMMA MapOceanKeeps ==
  ASSUME EsInv, NEW x \in Apps, Arrival(x), spatial = "ocean", MapOcean(x) PROVE EsInv'
<1>1. OceanType(ocean) /\ ClassicType(classic) BY DEF EsInv, Typed
<1>2. /\ TileOf(classic, x) = {} /\ ReefOf(ocean, x) = {}
      /\ x \notin DOMAIN classic.tag /\ x \notin DOMAIN ocean.loose
  BY NotYet DEF Arrival
<1>3. PICK m \in Heads, target \in Apps :
        LET tiled == IntoReef(ocean, x, target, m)
            r == CHOOSE r \in ReefOf(tiled, x) : TRUE
            loose == Unmoored(tiled, r, x)
        IN ocean' \in {tiled, loose, [loose EXCEPT !.pins = Bind(@, x, m)]}
  BY DEF MapOcean
<1> DEFINE tiled == IntoReef(ocean, x, target, m)
           r == CHOOSE r \in ReefOf(tiled, x) : TRUE
           loose == Unmoored(tiled, r, x)
           pinned == [loose EXCEPT !.pins = Bind(@, x, m)]
<1>4. Berthed(ocean, tiled, x) BY <1>1, <1>2, IntoReefIs
<1>5. ocean' = tiled \/ ocean' = loose \/ ocean' = pinned BY <1>3
<1> HIDE DEF tiled
<1>6. OceanType(tiled) /\ tiled.loose = ocean.loose /\ tiled.pins = ocean.pins BY <1>4 DEF Berthed
<1>7. ReefOf(tiled, x) = {r} BY <1>4 DEF Berthed
<1> HIDE DEF r
<1>8. /\ OceanType(loose) /\ ReefOf(loose, x) = {} /\ DOMAIN loose.loose = DOMAIN tiled.loose \cup {x}
      /\ \A y \in Apps \ {x} : ReefOf(loose, y) = ReefOf(tiled, y)
      /\ loose.entry = tiled.entry
  BY <1>6, <1>7, Unberthed
<1> HIDE DEF loose
<1>9. /\ DOMAIN pinned = DOMAIN loose /\ pinned.reefs = loose.reefs /\ pinned.loose = loose.loose
      /\ pinned.entry = loose.entry /\ pinned.camera = loose.camera
      /\ pinned.pins = Bind(loose.pins, x, m)
  BY <1>8 DEF OceanType
<1> HIDE DEF pinned
<1>10. \A y : ReefOf(pinned, y) = ReefOf(loose, y) BY <1>9 DEF ReefOf, Reefs
<1>11. DOMAIN pinned.pins \subseteq DOMAIN pinned.loose /\ IsTable(pinned.pins, Heads)
  BY <1>8, <1>9 DEF OceanType, Bind, IsTable
<1>12. OceanType(pinned) BY <1>8, <1>9, <1>10, <1>11 DEF OceanType
<1>13. /\ OceanType(ocean')
       /\ \/ ReefOf(ocean', x) = {r} /\ x \notin DOMAIN ocean'.loose
          \/ ReefOf(ocean', x) = {} /\ x \in DOMAIN ocean'.loose
       /\ \A y \in Apps \ {x} : /\ ReefOf(ocean', y) = ReefOf(ocean, y)
                                /\ y \in DOMAIN ocean'.loose <=> y \in DOMAIN ocean.loose
  <2>1. CASE ocean' = tiled BY <2>1, <1>2, <1>4, <1>6, <1>7 DEF Berthed
  <2>2. CASE ocean' = loose BY <2>2, <1>4, <1>6, <1>8 DEF Berthed
  <2>3. CASE ocean' = pinned BY <2>3, <1>4, <1>6, <1>8, <1>9, <1>10, <1>12 DEF Berthed
  <2> QED BY <2>1, <2>2, <2>3, <1>5
<1>14. classic' = classic /\ eaten' = eaten BY DEF MapOcean
<1>15. Alone(classic', ocean', x) /\ Owned(classic', ocean', x)
  BY <1>2, <1>13, <1>14 DEF Alone, Owned
<1>16. \A y \in Apps \ {x} : Same(classic, ocean, classic', ocean', y) BY <1>13, <1>14 DEF Same
<1> QED BY <1>1, <1>13, <1>14, <1>15, <1>16, ArrivalKeeps

\* A window that takes over the tile of the one it swallows.
LEMMA SwallowKeeps ==
  ASSUME EsInv, NEW x \in Apps, Arrival(x), UNCHANGED ocean, spatial = "classic",
         NEW m \in Heads, NEW d \in Spaces, NEW v, v \in Range(classic.tree[<<m, d>>]),
         classic' = Untiled(TiledIn(classic, x, <<m, d>>, v), v),
         eaten' = Bind(eaten, x, [of |-> v, out |-> m, desk |-> d])
  PROVE  EsInv'
<1> USE DEF EsInv
<1> DEFINE t == <<m, d>>
           g == TiledIn(classic, x, t, v)
<1>1. /\ ClassicType(classic) /\ OceanType(ocean) /\ IsTable(eaten, Meal)
      /\ surface \in [Apps -> {"none", "unmapped", "live", "dead"}]
  BY DEF Typed
<1>2. t \in Trees BY DEF Trees
<1>3. v \in Apps
  <2>1. classic.tree[t] \in Seq(Apps) BY <1>1, <1>2 DEF ClassicType, Orders
  <2> QED BY <2>1 DEF Range
<1>4. /\ TileOf(classic, x) = {} /\ ReefOf(ocean, x) = {} /\ x \notin Hidden /\ x \notin DOMAIN eaten
      /\ x \notin DOMAIN classic.tag /\ x \notin DOMAIN ocean.loose
  BY NotYet DEF Arrival
<1>5. x \notin Range(classic.tree[t]) /\ v # x BY <1>2, <1>4 DEF TileOf
<1>6. t \in TileOf(classic, v) BY <1>2 DEF TileOf
<1>7. surface[v] = "live" /\ v \notin Hidden /\ Alone(classic, ocean, v)
  BY <1>3, <1>6 DEF OwnedRightly, Owned
<1>8. ClassicType(g) /\ g.tag = classic.tag BY <1>1, <1>2, <1>5, TiledInIs
<1>9. \A y : TileOf(g, y) = IF y = x THEN {t} ELSE TileOf(classic, y)
  <2> HIDE DEF t
  <2>1. \A y : TileOf(TiledIn(classic, x, t, v), y) =
                  IF y = x THEN TileOf(classic, x) \cup {t} ELSE TileOf(classic, y)
    BY <1>1, <1>2, <1>5, TiledInOwners
  <2> QED BY <1>4, <2>1
<1>10. classic' = Untiled(g, v) OBVIOUS
<1> HIDE DEF g, t
<1>u. /\ ClassicType(Untiled(g, v)) /\ DOMAIN Untiled(g, v).tag = DOMAIN g.tag \ {v}
       /\ \A y \in DOMAIN g.tag \ {v} : Untiled(g, v).tag[y] = g.tag[y]
  BY <1>8, UntiledIs
<1>11. /\ ClassicType(classic') /\ DOMAIN classic'.tag = DOMAIN g.tag \ {v}
       /\ \A y \in DOMAIN g.tag \ {v} : classic'.tag[y] = g.tag[y]
  BY <1>10, <1>u
<1>12. \A y : TileOf(classic', y) = IF y = v THEN {} ELSE TileOf(g, y) BY <1>8, <1>10, UntiledOwners
<1>13. TileOf(classic', x) = {t} /\ x \notin DOMAIN classic'.tag BY <1>4, <1>5, <1>8, <1>9, <1>11, <1>12
<1>14. \A y \in Apps \ {x, v} : Same(classic, ocean, classic', ocean', y)
  BY <1>8, <1>9, <1>11, <1>12 DEF Same
<1>15. ~ Owned(classic', ocean', v)
  BY <1>6, <1>7, <1>11, <1>12 DEF Owned, Alone
<1>16. /\ DOMAIN eaten' = DOMAIN eaten \cup {x} /\ eaten'[x] = [of |-> v, out |-> m, desk |-> d]
       /\ \A y \in DOMAIN eaten : eaten'[y] = eaten[y]
  BY <1>4 DEF Bind
<1>17. Hidden' = Hidden \cup {v} BY <1>4, <1>16 DEF Hidden
<1>18. /\ surface' \in [Apps -> {"none", "unmapped", "live", "dead"}]
       /\ surface'[x] = "live" /\ \A y \in Apps \ {x} : surface'[y] = surface[y]
  BY <1>1 DEF Arrival
<1>19. Typed'
  <2>1. eaten'[x] \in Meal BY <1>3, <1>16 DEF Meal
  <2>2. IsTable(eaten', Meal) BY <1>1, <1>16, <2>1 DEF IsTable
  <2> QED BY <1>1, <1>11, <1>18, <2>2 DEF Typed, Arrival
<1>20. OwnedRightly'
  <2>1. ASSUME NEW y \in Apps \ {x, v}
        PROVE  /\ Alone(classic', ocean', y)
               /\ Owned(classic', ocean', y) => surface'[y] = "live" /\ y \notin Hidden'
               /\ surface'[y] = "live" /\ y \notin Hidden' /\ y \notin strays => Owned(classic', ocean', y)
    <3>1. Alone(classic', ocean', y) /\ (Owned(classic', ocean', y) <=> Owned(classic, ocean, y))
      BY <1>14, SameStays DEF OwnedRightly
    <3> QED BY <1>17, <1>18, <3>1 DEF OwnedRightly
  <2>2. Alone(classic', ocean', v) BY <1>15 DEF Owned, Alone
  <2>3. Alone(classic', ocean', x) /\ Owned(classic', ocean', x) /\ x \notin Hidden'
    BY <1>4, <1>5, <1>13, <1>17 DEF Alone, Owned
  <2> QED BY <1>15, <1>17, <1>18, <2>1, <2>2, <2>3 DEF OwnedRightly, Arrival
<1>21. Meals'
  <2>1. \A y \in DOMAIN eaten : eaten[y].of \in Hidden BY DEF Hidden
  <2>2. \A y \in DOMAIN eaten : y \in Apps /\ eaten[y].of \in Apps BY <1>1 DEF IsTable, Meal
  <2>3. \A y \in DOMAIN eaten : surface'[y] = "live" /\ surface'[eaten[y].of] = "live"
    BY <1>4, <1>18, <2>1, <2>2 DEF Meals
  <2>4. surface'[v] = "live" BY <1>3, <1>5, <1>7, <1>18
  <2>5. \A y \in DOMAIN eaten : eaten[y].of # v BY <1>7, <2>1
  <2> QED BY <1>5, <1>16, <1>18, <2>3, <2>4, <2>5 DEF Meals
<1>22. EngineOwnsItsWindows' BY DEF EngineOwnsItsWindows, Arrival
<1>23. Deserted' BY DEF Deserted, Arrival
<1> QED BY <1>19, <1>20, <1>21, <1>22, <1>23

LEMMA MapClassicKeeps ==
  ASSUME EsInv, NEW x \in Apps, Arrival(x), spatial = "classic", MapClassic(x) PROVE EsInv'
<1>1. OceanType(ocean) /\ ClassicType(classic) BY DEF EsInv, Typed
<1>2. /\ TileOf(classic, x) = {} /\ ReefOf(ocean, x) = {} /\ x \notin Hidden
      /\ x \notin DOMAIN classic.tag /\ x \notin DOMAIN ocean.loose
  BY NotYet DEF Arrival
<1>3. PICK m \in Heads, d \in 1 .. Numbered :
        /\ \/ \E target \in Apps : MapTiled(x, m, d, target)
           \/ /\ \E pin \in BOOLEAN :
                    classic' = [classic EXCEPT !.tag = Bind(@, x, [out |-> m, desk |-> d]),
                                               !.pinned = IF pin THEN @ \cup {x} ELSE @]
              /\ UNCHANGED eaten
        /\ UNCHANGED ocean
  BY DEF MapClassic
<1>4. d \in Spaces BY EsAssumption DEF EsAssumption, Spaces, Scratchpad
<1> DEFINE t == <<m, d>>
           prey == Candidates(x, t)
           victim == classic.tree[t][Least(prey)]
<1>5. t \in Trees BY <1>4 DEF Trees
<1>6. x \notin Range(classic.tree[t]) BY <1>2, <1>5 DEF TileOf
<1>7. ASSUME NEW target \in Apps, prey = {}, UNCHANGED eaten, classic' = TiledIn(classic, x, t, target)
      PROVE  EsInv'
  <2> HIDE DEF t
  <2> DEFINE e == TiledIn(classic, x, t, target)
  <2>1. ClassicType(e) /\ e.tag = classic.tag BY <1>1, <1>5, <1>6, TiledInIs
  <2>2. \A y : TileOf(e, y) = IF y = x THEN TileOf(classic, x) \cup {t} ELSE TileOf(classic, y)
    BY <1>1, <1>5, <1>6, TiledInOwners
  <2>3. classic' = e /\ ocean' = ocean BY <1>3, <1>7
  <2> HIDE DEF e
  <2>4. TileOf(classic', x) = {t} /\ x \notin DOMAIN classic'.tag BY <1>2, <2>1, <2>2, <2>3
  <2>5. Alone(classic', ocean', x) /\ Owned(classic', ocean', x) BY <1>2, <2>3, <2>4 DEF Alone, Owned
  <2>6. \A y \in Apps \ {x} : Same(classic, ocean, classic', ocean', y) BY <2>1, <2>2, <2>3 DEF Same
  <2> QED BY <1>1, <1>7, <2>1, <2>3, <2>5, <2>6, ArrivalKeeps
<1>8. ASSUME prey # {}, classic' = Untiled(TiledIn(classic, x, t, victim), victim),
             eaten' = Bind(eaten, x, [of |-> victim, out |-> m, desk |-> d])
      PROVE  EsInv'
  <2>1. classic.tree[t] \in Seq(Apps) BY <1>1, <1>5 DEF ClassicType, Orders
  <2>2. prey \in SUBSET Nat /\ prey \subseteq DOMAIN classic.tree[t] BY <2>1 DEF Candidates
  <2> HIDE DEF prey
  <2>3. Least(prey) \in DOMAIN classic.tree[t] BY <1>8, <2>2, LeastIs
  <2>4. victim \in Range(classic.tree[t]) BY <2>3 DEF Range
  <2> HIDE DEF victim
  <2>5. UNCHANGED ocean BY <1>3
  <2> QED BY <1>4, <1>8, <2>4, <2>5, SwallowKeeps
<1>9. ASSUME NEW pin \in BOOLEAN, UNCHANGED eaten,
             classic' = [classic EXCEPT !.tag = Bind(@, x, [out |-> m, desk |-> d]),
                                        !.pinned = IF pin THEN @ \cup {x} ELSE @]
      PROVE  EsInv'
  <2> DEFINE g == [out |-> m, desk |-> d]
  <2>1. g \in Tag BY <1>4 DEF Tag
  <2> HIDE DEF g
  <2>2. /\ DOMAIN classic' = DOMAIN classic /\ classic'.tree = classic.tree
        /\ classic'.tag = Bind(classic.tag, x, g)
        /\ classic'.pinned = (IF pin THEN classic.pinned \cup {x} ELSE classic.pinned)
        /\ classic'.active = classic.active /\ classic'.before = classic.before
    BY <1>1, <1>9 DEF ClassicType, g
  <2>3. /\ DOMAIN classic'.tag = DOMAIN classic.tag \cup {x} /\ IsTable(classic'.tag, Tag)
        /\ \A y \in DOMAIN classic.tag : classic'.tag[y] = classic.tag[y]
    BY <1>1, <1>2, <2>1, <2>2 DEF Bind, IsTable, ClassicType
  <2>4. classic'.pinned \subseteq DOMAIN classic'.tag BY <1>1, <2>2, <2>3 DEF ClassicType
  <2>5. ClassicType(classic') BY <1>1, <2>2, <2>3, <2>4 DEF ClassicType
  <2>6. \A y : TileOf(classic', y) = TileOf(classic, y) BY <2>2 DEF TileOf
  <2>7. ocean' = ocean BY <1>3
  <2>8. Alone(classic', ocean', x) /\ Owned(classic', ocean', x) BY <1>2, <2>3, <2>6, <2>7 DEF Alone, Owned
  <2>9. \A y \in Apps \ {x} : Same(classic, ocean, classic', ocean', y) BY <2>3, <2>6, <2>7 DEF Same
  <2> QED BY <1>1, <1>9, <2>5, <2>7, <2>8, <2>9, ArrivalKeeps
<1>10. ASSUME NEW target \in Apps, MapTiled(x, m, d, target) PROVE EsInv'
  <2>1. \/ prey = {} /\ classic' = TiledIn(classic, x, t, target) /\ UNCHANGED eaten
        \/ /\ prey # {} /\ classic' = Untiled(TiledIn(classic, x, t, victim), victim)
           /\ eaten' = Bind(eaten, x, [of |-> victim, out |-> m, desk |-> d])
    BY <1>10 DEF MapTiled
  <2> HIDE DEF prey, t, victim
  <2> QED BY <1>7, <1>8, <2>1
<1> HIDE DEF t, prey, victim
<1> QED BY <1>3, <1>9, <1>10

-----------------------------------------------------------------------------
(* Windows unmap and die.                                                  *)

\* What restore_swallowed puts back is in its tile, and nothing else moved.
LEMMA GiveBackIs ==
  ASSUME EsInv, NEW x \in Apps, NEW m \in Heads
  PROVE  LET g == GiveBack(x, m) IN
         /\ ClassicType(g) /\ g.tag = classic.tag
         /\ x \notin DOMAIN eaten => g = classic
         /\ x \in DOMAIN eaten => \E t \in Trees : TileOf(g, eaten[x].of) = {t}
         /\ \A y : (x \in DOMAIN eaten /\ y = eaten[x].of) \/ TileOf(g, y) = TileOf(classic, y)
<1> DEFINE own == TileOf(classic, x)
           t == IF own # {} THEN CHOOSE u \in own : TRUE ELSE <<m, classic.active[m]>>
           f == eaten[x].of
           g == GiveBack(x, m)
<1>1. ClassicType(classic) /\ IsTable(eaten, Meal) BY DEF EsInv, Typed
<1>2. g = IF x \in DOMAIN eaten THEN TiledIn(classic, f, t, x) ELSE classic BY DEF GiveBack
<1>3. t \in Trees
  <2>1. <<m, classic.active[m]>> \in Trees BY <1>1 DEF ClassicType, Trees
  <2>2. own \subseteq Trees BY DEF TileOf
  <2> QED BY <2>1, <2>2
<1> HIDE DEF t, own, g
<1>4. CASE x \notin DOMAIN eaten BY <1>1, <1>2, <1>4 DEF g
<1>5. CASE x \in DOMAIN eaten
  <2>1. f \in Apps /\ f \in Hidden BY <1>1, <1>5 DEF IsTable, Meal, Hidden
  <2>2. TileOf(classic, f) = {} BY <2>1 DEF EsInv, OwnedRightly, Owned
  <2>3. f \notin Range(classic.tree[t]) BY <1>3, <2>2 DEF TileOf
  <2> HIDE DEF f
  <2>4. g = TiledIn(classic, f, t, x) BY <1>2, <1>5
  <2>5. ClassicType(g) /\ g.tag = classic.tag BY <1>1, <1>3, <2>1, <2>3, <2>4, TiledInIs
  <2>6. \A y : TileOf(g, y) = IF y = f THEN TileOf(classic, f) \cup {t} ELSE TileOf(classic, y)
    BY <1>1, <1>3, <2>1, <2>3, <2>4, TiledInOwners
  <2>7. TileOf(g, f) = {t} /\ \A y : y = f \/ TileOf(g, y) = TileOf(classic, y) BY <2>2, <2>6
  <2> QED BY <1>3, <1>5, <2>5, <2>7 DEF f, g
<1> QED BY <1>4, <1>5

LEMMA DetachKeeps ==
  ASSUME EsInv, NEW x \in Apps, Detach(x), NEW role \in {"unmapped", "dead"},
         surface' = [surface EXCEPT ![x] = role], attached' \subseteq Apps, UNCHANGED spatial
  PROVE  EsInv'
<1> USE DEF EsInv
<1>1. PICK m \in Heads : classic' = Untiled(GiveBack(x, m), x) BY DEF Detach
<1> DEFINE g == GiveBack(x, m)
           back == {eaten[c].of : c \in {x} \cap DOMAIN eaten}
<1>2. /\ ClassicType(classic) /\ OceanType(ocean) /\ IsTable(eaten, Meal)
      /\ surface \in [Apps -> {"none", "unmapped", "live", "dead"}]
      /\ spatial \in {"classic", "ocean"} /\ strays \subseteq Apps
  BY DEF Typed
<1>3. /\ ClassicType(g) /\ g.tag = classic.tag
      /\ \A y \in back : \E t \in Trees : TileOf(g, y) = {t}
      /\ \A y : y \in back \/ TileOf(g, y) = TileOf(classic, y)
  BY GiveBackIs
<1>4. classic' = Untiled(g, x) BY <1>1
<1> HIDE DEF g
<1>5. /\ back \subseteq Hidden /\ back \subseteq Apps \ {x}
  BY <1>2 DEF Hidden, IsTable, Meal, Meals
<1>6. /\ ClassicType(classic') /\ DOMAIN classic'.tag = DOMAIN classic.tag \ {x}
      /\ \A y \in DOMAIN classic.tag \ {x} : classic'.tag[y] = classic.tag[y]
  <2>1. /\ ClassicType(Untiled(g, x)) /\ DOMAIN Untiled(g, x).tag = DOMAIN g.tag \ {x}
        /\ \A y \in DOMAIN g.tag \ {x} : Untiled(g, x).tag[y] = g.tag[y]
    BY <1>3, UntiledIs
  <2> QED BY <1>3, <1>4, <2>1
<1>7. \A y : TileOf(classic', y) = IF y = x THEN {} ELSE TileOf(g, y) BY <1>3, <1>4, UntiledOwners
<1>8. ocean' = Sunk(ocean, x) BY DEF Detach
<1>9. /\ OceanType(Sunk(ocean, x)) /\ Reefs(Sunk(ocean, x)) = Reefs(ocean)
      /\ \A r \in Reefs(ocean) : Range(Sunk(ocean, x).reefs[r].wins) = Range(ocean.reefs[r].wins) \ {x}
      /\ DOMAIN Sunk(ocean, x).loose = DOMAIN ocean.loose \ {x}
  BY <1>2, SunkIs
<1>10. /\ OceanType(ocean') /\ Reefs(ocean') = Reefs(ocean) /\ DOMAIN ocean'.loose = DOMAIN ocean.loose \ {x}
       /\ \A y : ReefOf(ocean', y) = IF y = x THEN {} ELSE ReefOf(ocean, y)
  BY <1>8, <1>9 DEF ReefOf
<1>11. /\ DOMAIN eaten' = {c \in DOMAIN eaten : c # x /\ eaten[c].of # x}
       /\ \A c \in DOMAIN eaten' : eaten'[c] = eaten[c]
  BY DEF Detach, Lose
<1>12. \A c \in DOMAIN eaten : eaten[c].of \in back => c = x BY DEF Meals
<1>13. Hidden' = Hidden \ (back \cup {x})
  <2>1. Hidden' \subseteq Hidden \ (back \cup {x}) BY <1>11, <1>12 DEF Hidden
  <2>2. ASSUME NEW h \in Hidden, h \notin back, h # x PROVE h \in Hidden'
    <3>1. PICK c \in DOMAIN eaten : h = eaten[c].of BY DEF Hidden
    <3>2. c # x BY <2>2, <3>1
    <3>3. c \in DOMAIN eaten' /\ eaten'[c].of = h BY <1>11, <2>2, <3>1, <3>2
    <3> QED BY <3>3 DEF Hidden
  <2> QED BY <2>1, <2>2
<1>14. /\ surface' \in [Apps -> {"none", "unmapped", "live", "dead"}]
       /\ surface'[x] # "live" /\ \A y \in Apps \ {x} : surface'[y] = surface[y]
  BY <1>2
<1>15. /\ strays' \subseteq Apps /\ strays \ {x} \subseteq strays'
       /\ spatial = "ocean" => back \subseteq strays'
  <2>1. strays' = IF x \in DOMAIN eaten /\ spatial = "ocean"
                  THEN (strays \cup {eaten[x].of}) \ {x} ELSE strays \ {x}
    BY DEF Detach
  <2> QED BY <1>2, <1>5, <2>1
<1>16. ASSUME NEW y \in back
       PROVE  /\ Alone(classic', ocean', y) /\ Owned(classic', ocean', y)
              /\ surface'[y] = "live"
  <2>1. ~ Owned(classic, ocean, y) BY <1>5 DEF OwnedRightly
  <2>2. \E t \in Trees : TileOf(classic', y) = {t} BY <1>3, <1>5, <1>7
  <2>3. Alone(classic', ocean', y) /\ Owned(classic', ocean', y)
    BY <1>6, <1>10, <2>1, <2>2 DEF Alone, Owned
  <2>4. surface'[y] = "live" BY <1>5, <1>14 DEF Meals
  <2> QED BY <2>3, <2>4
<1>17. ASSUME NEW y \in Apps, y \notin back, y # x
       PROVE  Same(classic, ocean, classic', ocean', y)
  BY <1>3, <1>6, <1>7, <1>10, <1>17 DEF Same
<1>18. ~ Owned(classic', ocean', x) BY <1>6, <1>7, <1>10 DEF Owned
<1> HIDE DEF back
<1>19. Typed'
  <2>1. IsTable(eaten', Meal) BY <1>2, <1>11 DEF IsTable
  <2> QED BY <1>2, <1>6, <1>10, <1>14, <1>15, <2>1 DEF Typed
<1>20. OwnedRightly'
  <2>1. ASSUME NEW y \in Apps, y \notin back, y # x
        PROVE  /\ Alone(classic', ocean', y)
               /\ Owned(classic', ocean', y) => surface'[y] = "live" /\ y \notin Hidden'
               /\ surface'[y] = "live" /\ y \notin Hidden' /\ y \notin strays' => Owned(classic', ocean', y)
    <3>1. Alone(classic', ocean', y) /\ (Owned(classic', ocean', y) <=> Owned(classic, ocean, y))
      BY <1>17, <2>1, SameStays DEF OwnedRightly
    <3> QED BY <1>13, <1>14, <1>15, <2>1, <3>1 DEF OwnedRightly
  <2>2. Alone(classic', ocean', x) BY <1>18 DEF Owned, Alone
  <2> QED BY <1>13, <1>14, <1>16, <1>18, <2>1, <2>2 DEF OwnedRightly
<1>21. Meals'
  <2>1. \A c \in DOMAIN eaten' : c \in Apps \ {x} /\ eaten[c].of \in Apps \ {x}
    BY <1>2, <1>11 DEF IsTable, Meal
  <2> QED BY <1>11, <1>14, <2>1 DEF Meals
<1>22. EngineOwnsItsWindows'
  <2> SUFFICES ASSUME NEW y \in Apps \ strays', spatial = "ocean"
               PROVE  /\ y \notin DOMAIN classic'.tag \/ classic'.tag[y].desk = Scratchpad
                      /\ \A t \in TileOf(classic', y) : t[2] = Scratchpad
    BY DEF EngineOwnsItsWindows
  <2>1. CASE y = x BY <1>18, <2>1 DEF Owned
  <2>2. CASE y # x
    <3>1. y \notin back /\ y \notin strays BY <1>15, <2>2
    <3>2. Same(classic, ocean, classic', ocean', y) BY <1>17, <2>2, <3>1
    <3> QED BY <3>1, <3>2 DEF Same, EngineOwnsItsWindows
  <2> QED BY <2>1, <2>2
<1>23. Deserted' BY <1>10 DEF Deserted
<1> QED BY <1>19, <1>20, <1>21, <1>22, <1>23

LEMMA NewToplevelKeeps ==
  ASSUME EsInv, NEW x \in Apps, NewToplevel(x) PROVE EsInv'
<1> USE DEF EsInv
<1>1. /\ surface[x] = "none" /\ surface' = [surface EXCEPT ![x] = "unmapped"]
      /\ UNCHANGED <<attached, classic, ocean, eaten, spatial, strays>>
  BY DEF NewToplevel
<1>2. ~ Owned(classic, ocean, x) /\ x \notin Hidden /\ x \notin DOMAIN eaten BY <1>1, NotYet
<1>3. /\ surface' \in [Apps -> {"none", "unmapped", "live", "dead"}] /\ surface'[x] # "live"
      /\ \A y \in Apps \ {x} : surface'[y] = surface[y]
  BY <1>1 DEF Typed
<1>4. Hidden' = Hidden BY <1>1 DEF Hidden
<1>5. Typed' BY <1>1, <1>3 DEF Typed
<1>6. OwnedRightly'
  <2>1. ASSUME NEW y \in Apps
        PROVE  /\ Alone(classic, ocean, y)
               /\ Owned(classic, ocean, y) => surface'[y] = "live" /\ y \notin Hidden
               /\ surface'[y] = "live" /\ y \notin Hidden /\ y \notin strays => Owned(classic, ocean, y)
    BY <1>2, <1>3 DEF OwnedRightly
  <2> QED BY <1>1, <1>4, <2>1 DEF OwnedRightly
<1>7. Meals'
  <2>1. \A y \in DOMAIN eaten : y \in Apps \ {x} /\ eaten[y].of \in Apps \ {x}
    BY <1>2 DEF Typed, IsTable, Meal, Hidden
  <2> QED BY <1>1, <1>3, <2>1 DEF Meals
<1>8. EngineOwnsItsWindows' /\ Deserted' BY <1>1 DEF EngineOwnsItsWindows, Deserted
<1> QED BY <1>5, <1>6, <1>7, <1>8

LEMMA QuietKeeps ==
  ASSUME EsInv, attached' \subseteq Apps, UNCHANGED <<surface, classic, ocean, eaten, spatial, strays>>
  PROVE  EsInv'
<1> USE DEF EsInv
<1>1. Hidden' = Hidden BY DEF Hidden
<1>2. Typed' BY DEF Typed
<1>3. OwnedRightly' BY <1>1 DEF OwnedRightly
<1>4. Meals' BY DEF Meals
<1>5. EngineOwnsItsWindows' /\ Deserted' BY DEF EngineOwnsItsWindows, Deserted
<1> QED BY <1>2, <1>3, <1>4, <1>5

LEMMA CommitKeeps ==
  ASSUME EsInv, NEW x \in Apps, NEW buffer \in BOOLEAN, Commit(x, buffer) PROVE EsInv'
<1>1. attached' \subseteq Apps
  <2>1. attached \subseteq Apps BY DEF EsInv, Typed
  <2> QED BY <2>1 DEF Commit
<1>2. CASE surface[x] = "unmapped" /\ buffer
  <2>1. /\ surface' = [surface EXCEPT ![x] = "live"] /\ UNCHANGED <<strays, spatial>>
        /\ IF spatial = "classic" THEN MapClassic(x) ELSE MapOcean(x)
    BY <1>2 DEF Commit
  <2>2. Arrival(x) BY <1>1, <1>2, <2>1 DEF Arrival
  <2>3. spatial \in {"classic", "ocean"} BY DEF EsInv, Typed
  <2> QED BY <2>1, <2>2, <2>3, MapClassicKeeps, MapOceanKeeps
<1>3. CASE ~ (surface[x] = "unmapped" /\ buffer) /\ Mapped(x) /\ ~buffer
  <2>1. Detach(x) /\ surface' = [surface EXCEPT ![x] = "unmapped"] /\ UNCHANGED spatial
    BY <1>3 DEF Commit
  <2> QED BY <1>1, <2>1, DetachKeeps
<1>4. CASE ~ (surface[x] = "unmapped" /\ buffer) /\ ~ (Mapped(x) /\ ~buffer)
  <2>1. UNCHANGED <<surface, classic, ocean, eaten, strays, spatial>> BY <1>4 DEF Commit
  <2> QED BY <1>1, <2>1, QuietKeeps
<1> QED BY <1>2, <1>3, <1>4

LEMMA DestroyedKeeps ==
  ASSUME EsInv, NEW x \in Apps, Destroyed(x) PROVE EsInv'
<1>1. attached' \subseteq Apps
  <2>1. attached \subseteq Apps BY DEF EsInv, Typed
  <2> QED BY <2>1 DEF Destroyed
<1>2. Detach(x) /\ surface' = [surface EXCEPT ![x] = "dead"] /\ UNCHANGED spatial BY DEF Destroyed
<1> QED BY <1>1, <1>2, DetachKeeps

-----------------------------------------------------------------------------
(* Sorting.                                                                *)

StrictOrder(before, S) ==
  /\ \A x \in S : <<x, x>> \notin before
  /\ \A x, y, z \in S : <<x, y>> \in before /\ <<y, z>> \in before => <<x, z>> \in before
  /\ \A x, y \in S : x # y => <<x, y>> \in before \/ <<y, x>> \in before

\* A set sorted by a total order lists every member once, the earlier ones first.
LEMMA SortedIs ==
  ASSUME NEW S, IsFiniteSet(S), NEW before, StrictOrder(before, S)
  PROVE  LET line == Sorted(S, before) IN
         /\ Cardinality(S) \in Nat /\ DOMAIN line = 1 .. Cardinality(S)
         /\ \A i \in DOMAIN line : line[i] \in S
         /\ \A x \in S : \E i \in DOMAIN line : line[i] = x
         /\ \A i, j \in DOMAIN line : i < j <=> <<line[i], line[j]>> \in before
<1> DEFINE n == Cardinality(S)
           below(x) == {y \in S : <<y, x>> \in before}
           rank == [x \in S |-> Cardinality(below(x))]
           line == Sorted(S, before)
<1>1. n \in Nat BY FS_CardinalityType
<1>2. ASSUME NEW x \in S PROVE IsFiniteSet(below(x)) /\ rank[x] \in 0 .. n - 1
  <2>1. below(x) \in SUBSET (S \ {x}) BY DEF StrictOrder
  <2>2. IsFiniteSet(S \ {x}) /\ Cardinality(S \ {x}) = n - 1 BY FS_RemoveElement
  <2> HIDE DEF below
  <2>3. IsFiniteSet(below(x)) /\ Cardinality(below(x)) <= n - 1 BY <2>1, <2>2, FS_Subset
  <2>4. Cardinality(below(x)) \in Nat BY <2>3, FS_CardinalityType
  <2> HIDE DEF n
  <2> QED BY <1>1, <2>3, <2>4
<1>3. ASSUME NEW x \in S, NEW y \in S, <<x, y>> \in before PROVE rank[x] < rank[y]
  <2>1. below(x) \cup {x} \in SUBSET below(y) /\ x \notin below(x) BY <1>3 DEF StrictOrder
  <2> HIDE DEF below
  <2>2. IsFiniteSet(below(x)) /\ IsFiniteSet(below(y)) /\ rank[x] \in Nat /\ rank[y] \in Nat BY <1>2
  <2>3. Cardinality(below(x) \cup {x}) = Cardinality(below(x)) + 1 BY <2>1, <2>2, FS_AddElement
  <2>4. Cardinality(below(x) \cup {x}) <= Cardinality(below(y)) BY <2>1, <2>2, FS_Subset
  <2> QED BY <2>2, <2>3, <2>4
<1>4. rank \in Surjection(S, 0 .. n - 1)
  <2>1. rank \in [S -> 0 .. n - 1] BY <1>2
  <2>2. rank \in Injection(S, 0 .. n - 1)
    <3> SUFFICES ASSUME NEW x \in S, NEW y \in S, rank[x] = rank[y] PROVE x = y
      BY <2>1 DEF Injection, IsInjective
    <3>1. x # y => rank[x] < rank[y] \/ rank[y] < rank[x] BY <1>3 DEF StrictOrder
    <3>2. rank[x] \in Int /\ rank[y] \in Int BY <1>2
    <3> HIDE DEF rank
    <3> QED BY <3>1, <3>2
  <2>3. IsFiniteSet(0 .. n - 1) /\ Cardinality(0 .. n - 1) = n
    <3> HIDE DEF n
    <3>1. 0 \in Int /\ n - 1 \in Int BY <1>1
    <3>2. IsFiniteSet(0 .. n - 1) /\ Cardinality(0 .. n - 1) = IF 0 > n - 1 THEN 0 ELSE n - 1 - 0 + 1
      BY <3>1, FS_Interval
    <3> QED BY <3>2, <1>1
  <2> HIDE DEF rank
  <2> QED BY <2>2, <2>3, FS_Injection
<1>5. line = [i \in 1 .. n |-> CHOOSE x \in S : Cardinality(below(x)) = i - 1] BY DEF Sorted
<1>6. ASSUME NEW i \in 1 .. n PROVE line[i] \in S /\ rank[line[i]] = i - 1
  <2>1. i - 1 \in 0 .. n - 1 BY <1>1
  <2>2. \E x \in S : rank[x] = i - 1 BY <2>1, <1>4 DEF Surjection
  <2>3. \E x \in S : Cardinality(below(x)) = i - 1 BY <2>2
  <2> HIDE DEF line, n, below
  <2>4. line[i] = CHOOSE x \in S : Cardinality(below(x)) = i - 1 BY <1>5
  <2>5. line[i] \in S /\ Cardinality(below(line[i])) = i - 1 BY <2>3, <2>4
  <2> QED BY <2>5
<1>7. DOMAIN line = 1 .. n BY <1>5
<1> HIDE DEF line
<1>8. ASSUME NEW i \in 1 .. n, NEW j \in 1 .. n PROVE i < j <=> <<line[i], line[j]>> \in before
  <2>1. /\ line[i] \in S /\ rank[line[i]] = i - 1
        /\ line[j] \in S /\ rank[line[j]] = j - 1
    BY <1>6
  <2>2. <<line[i], line[j]>> \in before => rank[line[i]] < rank[line[j]] BY <1>3, <2>1
  <2>3. <<line[j], line[i]>> \in before => rank[line[j]] < rank[line[i]] BY <1>3, <2>1
  <2>4. line[i] # line[j] => <<line[i], line[j]>> \in before \/ <<line[j], line[i]>> \in before
    BY <2>1 DEF StrictOrder
  <2> HIDE DEF rank
  <2>5. i < j => <<line[i], line[j]>> \in before BY <2>1, <2>3, <2>4
  <2>6. <<line[i], line[j]>> \in before => i < j BY <2>1, <2>2
  <2> QED BY <2>5, <2>6
<1>9. ASSUME NEW x \in S PROVE \E i \in 1 .. n : line[i] = x
  <2>1. rank[x] \in 0 .. n - 1 BY <1>2
  <2> DEFINE i == rank[x] + 1
  <2>2. i \in 1 .. n /\ rank[x] = i - 1
    <3> HIDE DEF rank
    <3> QED BY <2>1, <1>1
  <2>3. rank[line[i]] = rank[x] /\ line[i] \in S BY <2>2, <1>6
  <2> HIDE DEF i
  <2>4. line[i] # x => rank[x] < rank[line[i]] \/ rank[line[i]] < rank[x]
    BY <2>3, <1>3 DEF StrictOrder
  <2> HIDE DEF rank
  <2>5. line[i] = x BY <2>1, <2>3, <2>4
  <2> QED BY <2>2, <2>5
<1> HIDE DEF n
<1> QED BY <1>1, <1>6, <1>7, <1>8, <1>9 DEF line, n

-----------------------------------------------------------------------------
(* The islands of the monitors.                                            *)

LEMMA NthIs ==
  /\ Len(MonitorOrder) \in Nat /\ DOMAIN MonitorOrder = 1 .. Len(MonitorOrder)
  /\ \A i \in 1 .. Len(MonitorOrder) : MonitorOrder[i] \in Heads /\ Nth(MonitorOrder[i]) = i
  /\ \A m \in Heads : Nth(m) \in 1 .. Len(MonitorOrder) /\ MonitorOrder[Nth(m)] = m
  /\ IsFiniteSet(Heads) /\ IsFiniteSet(Trees)
<1>1. /\ MonitorOrder \in Seq(Heads) /\ IsInjective(MonitorOrder) /\ Numbered \in Nat
  BY EsAssumption DEF EsAssumption
<1>2. Len(MonitorOrder) \in Nat /\ DOMAIN MonitorOrder = 1 .. Len(MonitorOrder) BY <1>1
<1>3. \A m \in Heads : Nth(m) \in 1 .. Len(MonitorOrder) /\ MonitorOrder[Nth(m)] = m
  BY <1>2 DEF Heads, Range, Nth
<1>4. \A i \in 1 .. Len(MonitorOrder) : MonitorOrder[i] \in Heads /\ Nth(MonitorOrder[i]) = i
  BY <1>1, <1>2, <1>3 DEF Heads, Range, IsInjective
<1>5. IsFiniteSet(Heads)
  <2>1. MonitorOrder \in Surjection(1 .. Len(MonitorOrder), Heads)
    BY <1>1, <1>2, <1>3 DEF Surjection
  <2>2. IsFiniteSet(1 .. Len(MonitorOrder)) BY <1>2, FS_Interval
  <2> QED BY <2>1, <2>2, FS_Surjection
<1>6. IsFiniteSet(Trees)
  <2>1. 1 \in Int /\ Scratchpad \in Int BY <1>1 DEF Scratchpad
  <2>2. IsFiniteSet(Spaces) BY <2>1, FS_Interval DEF Spaces
  <2> QED BY <1>5, <2>2, FS_Product DEF Trees
<1> QED BY <1>2, <1>3, <1>4, <1>5, <1>6

LEMMA HighestIs ==
  ASSUME NEW n \in Nat, NEW S \in SUBSET (1 .. n), S # {}
  PROVE  LET top == CHOOSE d \in S : \A e \in S : e <= d IN top \in S /\ \A e \in S : e <= top
<1> DEFINE T == {n - k : k \in S}
<1>1. T \in SUBSET Nat /\ T # {}
  <2>1. \A k \in S : k \in Int /\ k <= n OBVIOUS
  <2>2. \A k \in S : n - k \in Nat BY <2>1
  <2> QED BY <2>2
<1>2. PICK j \in T : \A k \in T : j <= k
  <2> HIDE DEF T
  <2> QED BY <1>1, Lowest
<1>3. PICK d \in S : j = n - d BY <1>2
<1>4. \A e \in S : e <= d
  <2> TAKE e \in S
  <2>1. n - d <= n - e BY <1>2, <1>3
  <2> QED BY <2>1
<1> QED BY <1>4

LEMMA OriginIs ==
  ASSUME NEW c, ClassicType(c), NEW m \in Heads
  PROVE  Origin(c, m) \in 1 .. Numbered
<1>1. c.active[m] \in 1 .. Numbered + 1 /\ c.before[m] \in 0 .. Numbered /\ Numbered \in Nat \ {0}
  BY EsAssumption DEF EsAssumption, ClassicType, Spaces, Scratchpad
<1> QED BY <1>1 DEF Origin, Scratchpad

LEMMA LeavingDeskIs ==
  ASSUME NEW c, ClassicType(c), NEW x \in Leaving(c)
  PROVE  LeavingDesk(c, x) \in 1 .. Numbered /\ c.tag[x].out \in Heads /\ x \in Apps
<1>1. x \in DOMAIN c.tag /\ x \in Apps /\ c.tag[x] \in Tag BY DEF Leaving, ClassicType, IsTable
<1>2. c.tag[x].out \in Heads /\ c.tag[x].desk \in 1 .. Numbered + 1 /\ Numbered \in Nat
  BY <1>1, EsAssumption DEF EsAssumption, Tag, Spaces, Scratchpad
<1>3. Origin(c, c.tag[x].out) \in 1 .. Numbered BY <1>2, OriginIs
<1> QED BY <1>1, <1>2, <1>3 DEF LeavingDesk, Scratchpad

\* An island reaches as far as what is used of it.
LEMMA SpanIs ==
  ASSUME NEW c, ClassicType(c), NEW m \in Heads
  PROVE  /\ Span(c, m) \in 1 .. Numbered /\ Origin(c, m) <= Span(c, m)
         /\ \A d \in 1 .. Numbered : c.tree[<<m, d>>] # <<>> => d <= Span(c, m)
<1> DEFINE used == {d \in 1 .. Numbered : c.tree[<<m, d>>] # <<>>}
                     \cup {LeavingDesk(c, a) : a \in {b \in Leaving(c) : c.tag[b].out = m}}
                     \cup {Origin(c, m)}
<1>1. Numbered \in Nat BY EsAssumption DEF EsAssumption
<1>2. used \in SUBSET (1 .. Numbered) /\ Origin(c, m) \in used BY OriginIs, LeavingDeskIs
<1>3. \A d \in 1 .. Numbered : c.tree[<<m, d>>] # <<>> => d \in used OBVIOUS
<1>4. Span(c, m) = CHOOSE d \in used : \A e \in used : e <= d BY DEF Span
<1> HIDE DEF used
<1>5. Span(c, m) \in used /\ \A e \in used : e <= Span(c, m) BY <1>1, <1>2, <1>4, HighestIs
<1> QED BY <1>2, <1>3, <1>5

LEMMA BaseIs ==
  ASSUME NEW c, ClassicType(c)
  PROVE  /\ \A i \in 1 .. Len(MonitorOrder) : Base(c, i) \in Nat
         /\ Base(c, 1) = 0
         /\ \A i \in 1 .. Len(MonitorOrder) - 1 : Base(c, i + 1) = Base(c, i) + Span(c, MonitorOrder[i])
         /\ \A i, j \in 1 .. Len(MonitorOrder) : i <= j => Base(c, i) <= Base(c, j)
<1> DEFINE strides(i) == {stride \in (1 .. i - 1) \X (1 .. Numbered) :
                            stride[2] <= Span(c, MonitorOrder[stride[1]])}
<1>1. Numbered \in Nat /\ Len(MonitorOrder) \in Nat BY NthIs, EsAssumption DEF EsAssumption
<1>2. \A i \in 1 .. Len(MonitorOrder) : Span(c, MonitorOrder[i]) \in 1 .. Numbered BY SpanIs, NthIs
<1>3. \A i : Base(c, i) = Cardinality(strides(i)) BY DEF Base
<1>4. ASSUME NEW i \in 1 .. Len(MonitorOrder)
      PROVE  IsFiniteSet(strides(i)) /\ Base(c, i) \in Nat
  <2>1. i - 1 \in Int /\ 1 \in Int /\ Numbered \in Int BY <1>1
  <2>2. IsFiniteSet(1 .. i - 1) /\ IsFiniteSet(1 .. Numbered) BY <2>1, FS_Interval
  <2>3. IsFiniteSet((1 .. i - 1) \X (1 .. Numbered)) BY <2>2, FS_Product
  <2>4. strides(i) \in SUBSET ((1 .. i - 1) \X (1 .. Numbered)) OBVIOUS
  <2> HIDE DEF strides
  <2>5. IsFiniteSet(strides(i)) BY <2>3, <2>4, FS_Subset
  <2> QED BY <2>5, <1>3, FS_CardinalityType
<1>5. Base(c, 1) = 0
  <2>1. strides(1) = {}
    <3>1. 1 .. 1 - 1 = {} OBVIOUS
    <3> QED BY <3>1
  <2> HIDE DEF strides
  <2> QED BY <2>1, <1>3, FS_EmptySet
<1>6. ASSUME NEW i \in 1 .. Len(MonitorOrder) - 1
      PROVE  Base(c, i + 1) = Base(c, i) + Span(c, MonitorOrder[i])
  <2> DEFINE k == Span(c, MonitorOrder[i])
             new == {i} \X (1 .. k)
  <2>1. i \in 1 .. Len(MonitorOrder) /\ i + 1 \in 1 .. Len(MonitorOrder) /\ k \in 1 .. Numbered BY <1>1, <1>2
  <2>2. strides(i + 1) = strides(i) \cup new
    <3>1. (i + 1) - 1 = i BY <2>1
    <3>2. ASSUME NEW s \in strides(i + 1) PROVE s \in strides(i) \cup new
      <4>1. s \in (1 .. i) \X (1 .. Numbered) /\ s[2] <= Span(c, MonitorOrder[s[1]]) BY <3>1
      <4>2. s = <<s[1], s[2]>> /\ s[1] \in 1 .. i /\ s[2] \in 1 .. Numbered BY <4>1
      <4>3. CASE s[1] = i BY <4>1, <4>2, <4>3, <2>1
      <4>4. CASE s[1] # i
        <5>1. s[1] \in 1 .. i - 1 BY <4>2, <4>4, <2>1
        <5> QED BY <4>1, <4>2, <5>1
      <4> QED BY <4>3, <4>4
    <3>3. ASSUME NEW s \in strides(i) PROVE s \in strides(i + 1)
      <4>1. s \in (1 .. i - 1) \X (1 .. Numbered) /\ s[2] <= Span(c, MonitorOrder[s[1]]) OBVIOUS
      <4>2. 1 .. i - 1 \subseteq 1 .. i BY <2>1
      <4> QED BY <4>1, <4>2, <3>1
    <3>4. ASSUME NEW s \in new PROVE s \in strides(i + 1)
      <4>1. s \in {i} \X (1 .. k) OBVIOUS
      <4>2. s[1] = i /\ s[2] \in 1 .. k /\ s = <<s[1], s[2]>> BY <4>1
      <4>3. s[2] \in 1 .. Numbered /\ s[2] <= k /\ i \in 1 .. i BY <4>2, <2>1, <1>1
      <4>4. s \in (1 .. i) \X (1 .. Numbered) BY <4>2, <4>3
      <4> HIDE DEF new
      <4> QED BY <4>2, <4>3, <4>4, <3>1
    <3> QED BY <3>2, <3>3, <3>4
  <2>3. strides(i) \cap new = {}
    <3>1. i \notin 1 .. i - 1 BY <2>1
    <3> QED BY <3>1
  <2>4. IsFiniteSet(new) /\ Cardinality(new) = k
    <3> HIDE DEF k
    <3>1. k \in Nat /\ k >= 1 /\ 1 \in Int /\ k \in Int BY <2>1
    <3>2. IsFiniteSet(1 .. k) /\ Cardinality(1 .. k) = IF 1 > k THEN 0 ELSE k - 1 + 1 BY <3>1, FS_Interval
    <3>3. IsFiniteSet(1 .. k) /\ Cardinality(1 .. k) = k BY <3>1, <3>2
    <3>4. IsFiniteSet({i}) /\ Cardinality({i}) = 1 BY FS_Singleton
    <3>5. IsFiniteSet(new) /\ Cardinality(new) = Cardinality({i}) * Cardinality(1 .. k) BY <3>3, <3>4, FS_Product
    <3> QED BY <3>1, <3>3, <3>4, <3>5
  <2>5. IsFiniteSet(strides(i)) /\ Base(c, i) \in Nat BY <1>4, <2>1
  <2> HIDE DEF strides, new
  <2>6. Cardinality(strides(i + 1)) = Cardinality(strides(i)) + Cardinality(new) - Cardinality(strides(i) \cap new)
    BY <2>2, <2>4, <2>5, FS_Union
  <2>7. Cardinality(strides(i) \cap new) = 0 BY <2>3, FS_EmptySet
  <2> HIDE DEF k
  <2>8. Base(c, i + 1) = Base(c, i) + k - 0 BY <2>4, <2>6, <2>7, <1>3
  <2>9. k \in Nat BY <2>1
  <2> QED BY <2>5, <2>8, <2>9 DEF k
<1>7. ASSUME NEW i \in 1 .. Len(MonitorOrder), NEW j \in 1 .. Len(MonitorOrder), i <= j
      PROVE  Base(c, i) <= Base(c, j)
  <2>1. 1 .. i - 1 \subseteq 1 .. j - 1 BY <1>7
  <2>2. strides(i) \in SUBSET strides(j) BY <2>1
  <2>3. IsFiniteSet(strides(j)) BY <1>4
  <2> HIDE DEF strides
  <2> QED BY <2>2, <2>3, <1>3, FS_Subset
<1> QED BY <1>4, <1>5, <1>6, <1>7

LEMMA IslandIs ==
  ASSUME NEW c, ClassicType(c), NEW m \in Heads
  PROVE  /\ Island(c, m) \in Nat
         /\ Nth(m) = 1 => Island(c, m) = 0
         /\ \A n \in Heads : Nth(n) = Nth(m) + 1 => Island(c, n) = Island(c, m) + Span(c, m)
         /\ \A n \in Heads : Nth(m) < Nth(n) => Island(c, m) + Span(c, m) <= Island(c, n)
<1>1. Len(MonitorOrder) \in Nat /\ Nth(m) \in 1 .. Len(MonitorOrder) /\ MonitorOrder[Nth(m)] = m
  BY NthIs
<1>2. Island(c, m) \in Nat BY <1>1, BaseIs DEF Island
<1>3. ASSUME NEW n \in Heads, Nth(m) < Nth(n)
      PROVE  /\ Nth(n) = Nth(m) + 1 => Island(c, n) = Island(c, m) + Span(c, m)
             /\ Island(c, m) + Span(c, m) <= Island(c, n)
  <2>1. Nth(n) \in 1 .. Len(MonitorOrder) BY NthIs
  <2>2. Nth(m) \in 1 .. Len(MonitorOrder) - 1 /\ Nth(m) + 1 \in 1 .. Len(MonitorOrder) /\ Nth(m) + 1 <= Nth(n)
    BY <1>1, <1>3, <2>1
  <2>3. Base(c, Nth(m) + 1) = Base(c, Nth(m)) + Span(c, m) BY <1>1, <2>2, BaseIs
  <2>4. Base(c, Nth(m) + 1) <= Base(c, Nth(n)) BY <2>1, <2>2, BaseIs
  <2> QED BY <2>3, <2>4 DEF Island
<1>4. ASSUME NEW n \in Heads, Nth(n) = Nth(m) + 1 PROVE Nth(m) < Nth(n)
  BY <1>1, <1>4
<1>5. Nth(m) = 1 => Island(c, m) = 0 BY BaseIs DEF Island
<1> QED BY <1>2, <1>3, <1>4, <1>5

\* No place belongs to two workspaces.
LEMMA PlacesApart ==
  ASSUME NEW c, ClassicType(c), NEW m \in Heads, NEW n \in Heads,
         NEW d \in 1 .. Span(c, m), NEW e \in 1 .. Span(c, n),
         Island(c, m) + d - 1 = Island(c, n) + e - 1
  PROVE  m = n /\ d = e
<1>1. Island(c, m) \in Nat /\ Island(c, n) \in Nat /\ Span(c, m) \in Nat /\ Span(c, n) \in Nat
  BY IslandIs, SpanIs
<1>2. ~ Nth(m) < Nth(n)
  <2>1. Nth(m) < Nth(n) => Island(c, m) + Span(c, m) <= Island(c, n) BY IslandIs
  <2> QED BY <1>1, <2>1
<1>3. ~ Nth(n) < Nth(m)
  <2>1. Nth(n) < Nth(m) => Island(c, n) + Span(c, n) <= Island(c, m) BY IslandIs
  <2> QED BY <1>1, <2>1
<1>4. m = n
  <2>1. Nth(m) \in Nat /\ Nth(n) \in Nat /\ MonitorOrder[Nth(m)] = m /\ MonitorOrder[Nth(n)] = n BY NthIs
  <2>2. Nth(m) = Nth(n) BY <1>2, <1>3, <2>1
  <2> QED BY <2>1, <2>2
<1> QED BY <1>1, <1>4

LEMMA TreesInLineIs ==
  ASSUME NEW c
  PROVE  LET line == TreesInLine(c) IN
         /\ Cardinality(InUse(c)) \in Nat /\ DOMAIN line = 1 .. Cardinality(InUse(c))
         /\ \A i \in DOMAIN line : line[i] \in InUse(c)
         /\ \A t \in InUse(c) : \E i \in DOMAIN line : line[i] = t
         /\ \A i, j \in DOMAIN line : line[i] = line[j] => i = j
<1> DEFINE before == {pair \in Trees \X Trees : LeftOf(pair[1], pair[2])}
           S == InUse(c)
           line == TreesInLine(c)
<1>1. S \in SUBSET Trees BY DEF InUse
<1>2. IsFiniteSet(S)
  <2> HIDE DEF S
  <2> QED BY <1>1, NthIs, FS_Subset
<1>3. \A t, u \in Trees : <<t, u>> \in before <=> LeftOf(t, u) OBVIOUS
<1>4. \A t \in Trees : /\ t = <<t[1], t[2]>> /\ t[1] \in Heads /\ t[2] \in Int
                       /\ Nth(t[1]) \in Int /\ MonitorOrder[Nth(t[1])] = t[1]
  <2>1. Numbered \in Nat BY EsAssumption DEF EsAssumption
  <2> QED BY <2>1, NthIs DEF Trees, Spaces, Scratchpad
<1> HIDE DEF S, before
<1>5. StrictOrder(before, S)
  <2>1. \A x \in S : <<x, x>> \notin before BY <1>1, <1>3, <1>4 DEF LeftOf
  <2>2. ASSUME NEW x \in S, NEW y \in S, NEW z \in S, LeftOf(x, y), LeftOf(y, z) PROVE LeftOf(x, z)
    <3>1. x \in Trees /\ y \in Trees /\ z \in Trees BY <1>1
    <3> QED BY <1>4, <2>2, <3>1 DEF LeftOf
  <2>3. ASSUME NEW x \in S, NEW y \in S, x # y PROVE LeftOf(x, y) \/ LeftOf(y, x)
    <3>1. x \in Trees /\ y \in Trees BY <1>1
    <3>2. x[1] # y[1] \/ x[2] # y[2] BY <1>4, <2>3, <3>1
    <3>3. Nth(x[1]) = Nth(y[1]) => x[1] = y[1] BY <1>4, <3>1
    <3> QED BY <1>4, <3>1, <3>2, <3>3 DEF LeftOf
  <2> QED BY <1>1, <1>3, <2>1, <2>2, <2>3 DEF StrictOrder
<1>6. line = Sorted(S, before) BY DEF TreesInLine, S, before
<1> HIDE DEF line
<1>7. /\ Cardinality(S) \in Nat /\ DOMAIN line = 1 .. Cardinality(S)
      /\ \A i \in DOMAIN line : line[i] \in S
      /\ \A x \in S : \E i \in DOMAIN line : line[i] = x
      /\ \A i, j \in DOMAIN line : i < j <=> <<line[i], line[j]>> \in before
  BY <1>2, <1>5, <1>6, SortedIs
<1>8. ASSUME NEW i \in DOMAIN line, NEW j \in DOMAIN line, line[i] = line[j] PROVE i = j
  <2>1. ~ i < j /\ ~ j < i BY <1>5, <1>7, <1>8 DEF StrictOrder
  <2> QED BY <1>7, <2>1
<1> QED BY <1>7, <1>8 DEF line, S

-----------------------------------------------------------------------------
(* From Classic to Ocean.                                                  *)

LEMMA InUseIs ==
  ASSUME NEW c, ClassicType(c), NEW t \in InUse(c)
  PROVE  /\ t \in Trees /\ t = <<t[1], t[2]>> /\ t[1] \in Heads
         /\ t[2] \in 1 .. Span(c, t[1]) /\ c.tree[t] \in Orders /\ c.tree[t] # <<>>
         /\ t[2] # Scratchpad
<1>1. t \in Trees /\ t[2] # Scratchpad /\ c.tree[t] # <<>> BY DEF InUse
<1>2. t = <<t[1], t[2]>> /\ t[1] \in Heads /\ t[2] \in 1 .. Numbered + 1 BY <1>1 DEF Trees, Spaces, Scratchpad
<1>3. Numbered \in Nat BY EsAssumption DEF EsAssumption
<1>4. t[2] \in 1 .. Numbered BY <1>1, <1>2, <1>3 DEF Scratchpad
<1>5. t[2] <= Span(c, t[1]) /\ Span(c, t[1]) \in 1 .. Numbered
  <2> DEFINE m == t[1]
             d == t[2]
  <2>1. m \in Heads /\ d \in 1 .. Numbered /\ c.tree[<<m, d>>] # <<>> BY <1>1, <1>2, <1>4
  <2> HIDE DEF m, d
  <2>2. d <= Span(c, m) /\ Span(c, m) \in 1 .. Numbered BY <2>1, SpanIs
  <2> QED BY <2>2 DEF m, d
<1> QED BY <1>1, <1>2, <1>4, <1>5 DEF ClassicType

\* What migrate_classic_to_ocean makes of Classic's tables, table by table.
Launched(c, e, p) ==
  LET line == TreesInLine(c) IN
  /\ ClassicType(e) /\ OceanType(p)
  /\ \A t \in Trees : e.tree[t] = IF t[2] = Scratchpad THEN c.tree[t] ELSE <<>>
  /\ DOMAIN e.tag = DOMAIN c.tag \ Leaving(c) /\ \A x \in DOMAIN e.tag : e.tag[x] = c.tag[x]
  /\ e.pinned = {}
  /\ DOMAIN p.reefs = DOMAIN line
  /\ \A i \in DOMAIN line : p.reefs[i] = [at |-> Island(c, line[i][1]) + line[i][2] - 1,
                                          wins |-> c.tree[line[i]], auto |-> FALSE]
  /\ DOMAIN p.loose = Leaving(c) /\ DOMAIN p.pins = Leaving(c) \cap c.pinned
  /\ \A t \in InUse(c) : \A x \in Range(c.tree[t]) : x \in DOMAIN p.entry /\ p.entry[x] = t[1]
  /\ p.camera = [m \in Heads |-> Island(c, m) + Origin(c, m) - 1]

LEMMA ToOceanIs ==
  ASSUME NEW c, ClassicType(c), NEW o, \A x \in Apps : Alone(c, o, x)
  PROVE  Launched(c, ToOcean(c, o).classic, ToOcean(c, o).ocean)
<1> DEFINE line == TreesInLine(c)
           e == ToOcean(c, o).classic
           p == ToOcean(c, o).ocean
           off == Leaving(c)
           tiled == UNION {Range(c.tree[line[i]]) : i \in DOMAIN line}
           came(a) == IF a \in off THEN c.tag[a].out ELSE (CHOOSE t \in TileOf(c, a) : TRUE)[1]
           reefs == [i \in DOMAIN line |-> [at |-> Island(c, line[i][1]) + line[i][2] - 1,
                                            wins |-> c.tree[line[i]], auto |-> FALSE]]
<1>1. /\ DOMAIN e = DOMAIN c
      /\ e.tree = [t \in Trees |-> IF t[2] = Scratchpad THEN c.tree[t] ELSE <<>>]
      /\ e.tag = Lose(c.tag, off) /\ e.pinned = {} /\ e.active = c.active
      /\ e.before = [m \in Heads |-> 0]
  BY DEF ToOcean, ClassicType
<1>2. /\ DOMAIN p = {"reefs", "loose", "entry", "pins", "camera"} /\ p.reefs = reefs
      /\ p.loose = [a \in off |-> Island(c, c.tag[a].out) + LeavingDesk(c, a) - 1]
      /\ p.entry = [a \in tiled \cup off |-> came(a)]
      /\ p.pins = [a \in off \cap c.pinned |-> c.tag[a].out]
      /\ p.camera = [m \in Heads |-> Island(c, m) + Origin(c, m) - 1]
  BY DEF ToOcean
<1> HIDE DEF e, p
<1>3. /\ Cardinality(InUse(c)) \in Nat /\ DOMAIN line = 1 .. Cardinality(InUse(c))
      /\ \A i \in DOMAIN line : line[i] \in InUse(c)
      /\ \A t \in InUse(c) : \E i \in DOMAIN line : line[i] = t
  BY TreesInLineIs
<1> HIDE DEF line
<1>4. ClassicType(e)
  <2>1. <<>> \in Orders BY DEF Orders, IsInjective
  <2>2. e.tree \in [Trees -> Orders] BY <1>1, <2>1 DEF ClassicType
  <2>3. IsTable(e.tag, Tag) BY <1>1 DEF Lose, ClassicType, IsTable
  <2>4. Numbered \in Nat BY EsAssumption DEF EsAssumption
  <2>5. e.before \in [Heads -> 0 .. Numbered] BY <1>1, <2>4
  <2> QED BY <1>1, <2>2, <2>3, <2>5 DEF ClassicType
<1>5. DOMAIN e.tag = DOMAIN c.tag \ off /\ \A x \in DOMAIN e.tag : e.tag[x] = c.tag[x]
  BY <1>1 DEF Lose
<1>6. ASSUME NEW i \in DOMAIN line PROVE reefs[i] \in Reef
  <2>1. line[i] \in InUse(c) BY <1>3
  <2>2. line[i][1] \in Heads /\ line[i][2] \in 1 .. Span(c, line[i][1]) /\ c.tree[line[i]] \in Orders
    BY <2>1, InUseIs
  <2>3. Island(c, line[i][1]) \in Nat BY <2>2, IslandIs
  <2>4. Island(c, line[i][1]) + line[i][2] - 1 \in Nat BY <2>2, <2>3
  <2> QED BY <2>2, <2>4 DEF Reef
<1>7. reefs \in Seq(Reef) /\ DOMAIN reefs = DOMAIN line
  <2>1. reefs \in [1 .. Cardinality(InUse(c)) -> Reef] BY <1>3, <1>6
  <2> HIDE DEF reefs
  <2> QED BY <2>1, <1>3, SeqDef
<1>8. \A x \in off : x \in DOMAIN c.tag /\ x \in Apps /\ c.tag[x].out \in Heads /\ LeavingDesk(c, x) \in 1 .. Numbered
  BY LeavingDeskIs DEF Leaving
<1>9. IsTable(p.loose, Nat)
  <2>1. \A x \in off : Island(c, c.tag[x].out) \in Nat BY <1>8, IslandIs
  <2>2. \A x \in off : Island(c, c.tag[x].out) + LeavingDesk(c, x) - 1 \in Nat BY <1>8, <2>1
  <2> QED BY <1>2, <1>8, <2>2 DEF IsTable
<1>10. IsTable(p.pins, Heads) BY <1>2, <1>8 DEF IsTable
<1>11. ASSUME NEW t \in InUse(c), NEW x \in Range(c.tree[t])
       PROVE  x \in Apps /\ x \in DOMAIN p.entry /\ p.entry[x] = t[1]
  <2>1. t \in Trees /\ c.tree[t] \in Seq(Apps) BY InUseIs DEF Orders
  <2>2. x \in Apps BY <2>1 DEF Range
  <2>3. t \in TileOf(c, x) BY <2>1 DEF TileOf
  <2>4. x \notin DOMAIN c.tag /\ \A u \in TileOf(c, x) : u = t BY <2>2, <2>3 DEF Alone
  <2>5. x \notin off /\ (CHOOSE u \in TileOf(c, x) : TRUE) = t BY <1>8, <2>3, <2>4
  <2>6. came(x) = t[1] BY <2>5
  <2>7. x \in tiled BY <1>3
  <2> HIDE DEF tiled, came, off
  <2> QED BY <1>2, <2>2, <2>6, <2>7
<1>12. IsTable(p.entry, Heads)
  <2>1. \A x \in tiled : \E t \in InUse(c) : x \in Range(c.tree[t]) BY <1>3
  <2>2. \A x \in off : came(x) \in Heads BY <1>8
  <2>3. \A x \in off : p.entry[x] \in Heads
    <3> HIDE DEF tiled, came, off
    <3> QED BY <1>2, <2>2
  <2>4. \A t \in InUse(c) : t[1] \in Heads BY InUseIs
  <2>5. DOMAIN p.entry = tiled \cup off BY <1>2
  <2>6. \A x \in tiled : x \in Apps /\ p.entry[x] \in Heads BY <1>11, <2>1, <2>4
  <2> HIDE DEF tiled, off
  <2> QED BY <1>8, <2>3, <2>5, <2>6 DEF IsTable, off
<1>13. p.camera \in [Heads -> Nat]
  <2>1. \A m \in Heads : Island(c, m) + Origin(c, m) - 1 \in Nat
    <3> TAKE m \in Heads
    <3>1. Island(c, m) \in Nat /\ Origin(c, m) \in 1 .. Numbered BY IslandIs, OriginIs
    <3> QED BY <3>1
  <2> QED BY <1>2, <2>1
<1>14. ASSUME NEW x \in Apps, ReefOf(p, x) # {} \/ x \in DOMAIN p.loose PROVE x \in DOMAIN p.entry
  <2>1. CASE x \in DOMAIN p.loose BY <2>1, <1>2
  <2>2. CASE ReefOf(p, x) # {}
    <3>1. PICK i \in DOMAIN line : x \in Range(reefs[i].wins) BY <2>2, <1>2, <1>7 DEF ReefOf, Reefs
    <3>2. line[i] \in InUse(c) /\ x \in Range(c.tree[line[i]]) BY <3>1, <1>3
    <3> QED BY <3>2, <1>11
  <2> QED BY <1>14, <2>1, <2>2
<1>15. OceanType(p)
  <2>1. DOMAIN p.pins \subseteq DOMAIN p.loose BY <1>2
  <2> QED BY <1>2, <1>7, <1>9, <1>10, <1>12, <1>13, <1>14, <2>1 DEF OceanType
<1>16. DOMAIN p.loose = off /\ DOMAIN p.pins = off \cap c.pinned BY <1>2
<1>17. \A i \in DOMAIN line : p.reefs[i] = [at |-> Island(c, line[i][1]) + line[i][2] - 1,
                                            wins |-> c.tree[line[i]], auto |-> FALSE]
  BY <1>2
<1>18. DOMAIN p.reefs = DOMAIN line BY <1>2, <1>7
<1>19. \A t \in Trees : e.tree[t] = IF t[2] = Scratchpad THEN c.tree[t] ELSE <<>> BY <1>1
<1>20. e.pinned = {} /\ p.camera = [m \in Heads |-> Island(c, m) + Origin(c, m) - 1] BY <1>1, <1>2
<1>21. \A t \in InUse(c) : \A x \in Range(c.tree[t]) : x \in DOMAIN p.entry /\ p.entry[x] = t[1] BY <1>11
<1> HIDE DEF reefs
<1> QED BY ONLY <1>4, <1>5, <1>15, <1>16, <1>17, <1>18, <1>19, <1>20, <1>21 DEF line, e, p, Launched

\* The windows go along: each keeps one owner, and only the scratchpads stay.
LEMMA ToOceanOwners ==
  ASSUME NEW c, ClassicType(c), NEW o, Reefs(o) = {}, DOMAIN o.loose = {},
         \A x \in Apps : Alone(c, o, x), NEW x \in Apps
  PROVE  LET e == ToOcean(c, o).classic
             p == ToOcean(c, o).ocean
         IN
         /\ Alone(e, p, x) /\ (Owned(e, p, x) <=> Owned(c, o, x))
         /\ x \notin DOMAIN e.tag \/ e.tag[x].desk = Scratchpad
         /\ \A t \in TileOf(e, x) : t[2] = Scratchpad
<1> DEFINE line == TreesInLine(c)
           e == ToOcean(c, o).classic
           p == ToOcean(c, o).ocean
<1> HIDE DEF e, p
<1>0. Launched(c, e, p) BY ToOceanIs DEF e, p
<1>1. /\ \A t \in Trees : e.tree[t] = IF t[2] = Scratchpad THEN c.tree[t] ELSE <<>>
      /\ DOMAIN e.tag = DOMAIN c.tag \ Leaving(c) /\ \A y \in DOMAIN e.tag : e.tag[y] = c.tag[y]
      /\ DOMAIN p.reefs = DOMAIN line
      /\ \A i \in DOMAIN line : p.reefs[i] = [at |-> Island(c, line[i][1]) + line[i][2] - 1,
                                              wins |-> c.tree[line[i]], auto |-> FALSE]
      /\ DOMAIN p.loose = Leaving(c)
  BY <1>0 DEF Launched
<1>2. /\ \A i \in DOMAIN line : line[i] \in InUse(c)
      /\ \A t \in InUse(c) : \E i \in DOMAIN line : line[i] = t
      /\ \A i, j \in DOMAIN line : line[i] = line[j] => i = j
  BY TreesInLineIs
<1> HIDE DEF line
<1>3. ~ \E y : y \in Range(<<>>) BY DEF Range
<1>4. TileOf(e, x) = {t \in TileOf(c, x) : t[2] = Scratchpad} BY <1>1, <1>3 DEF TileOf
<1>5. \A i \in DOMAIN line : p.reefs[i].wins = c.tree[line[i]]
  <2> TAKE i \in DOMAIN line
  <2>1. p.reefs[i] = [at |-> Island(c, line[i][1]) + line[i][2] - 1, wins |-> c.tree[line[i]], auto |-> FALSE]
    BY <1>1
  <2> QED BY ONLY <2>1
<1>6. ReefOf(p, x) = {i \in DOMAIN line : line[i] \in TileOf(c, x)}
  <2>1. \A i \in DOMAIN line : line[i] \in Trees BY <1>2 DEF InUse
  <2> QED BY <1>1, <1>5, <2>1 DEF ReefOf, Reefs, TileOf
<1>7. \A t \in TileOf(c, x) : t[2] # Scratchpad => \E i \in DOMAIN line : line[i] = t
  BY <1>2, <1>3 DEF InUse, TileOf
<1>8. \A i \in DOMAIN line : line[i][2] # Scratchpad BY <1>2 DEF InUse
<1>9. Alone(c, o, x) /\ ReefOf(o, x) = {} /\ x \notin DOMAIN o.loose BY DEF ReefOf
<1>10. Leaving(c) \subseteq DOMAIN c.tag /\ \A y \in DOMAIN c.tag \ Leaving(c) : c.tag[y].desk = Scratchpad
  BY DEF Leaving
<1>11. \A t, u \in TileOf(e, x) : t = u BY <1>4, <1>9 DEF Alone
<1>12. \A r, q \in ReefOf(p, x) : r = q BY <1>2, <1>6, <1>9 DEF Alone
<1>13. TileOf(e, x) # {} => ReefOf(p, x) = {}
  <2>1. ~ \E t \in TileOf(e, x), r \in ReefOf(p, x) : TRUE BY <1>4, <1>6, <1>8, <1>9 DEF Alone
  <2> QED BY <2>1
<1>14. Alone(e, p, x)
  <2>1. x \in DOMAIN c.tag => TileOf(c, x) = {} BY <1>9 DEF Alone
  <2> QED BY <1>1, <1>4, <1>6, <1>10, <1>11, <1>12, <1>13, <2>1 DEF Alone
<1>15. Owned(e, p, x) <=> Owned(c, o, x)
  <2>1. TileOf(c, x) # {} => TileOf(e, x) # {} \/ ReefOf(p, x) # {} BY <1>4, <1>6, <1>7
  <2>2. TileOf(e, x) # {} \/ ReefOf(p, x) # {} => TileOf(c, x) # {} BY <1>4, <1>6
  <2>3. x \in DOMAIN c.tag <=> x \in DOMAIN e.tag \/ x \in DOMAIN p.loose BY <1>1, <1>10
  <2> QED BY <1>9, <2>1, <2>2, <2>3 DEF Owned
<1> QED BY <1>1, <1>4, <1>10, <1>14, <1>15 DEF e, p

-----------------------------------------------------------------------------
(* From Ocean to Classic.                                                  *)

LEMMA ReefsInLineIs ==
  ASSUME NEW o, OceanType(o)
  PROVE  LET line == ReefsInLine(o) IN
         /\ Len(o.reefs) \in Nat /\ Reefs(o) = 1 .. Len(o.reefs) /\ IsFiniteSet(Reefs(o))
         /\ \A r \in Reefs(o) : o.reefs[r] \in Reef
         /\ DOMAIN line = Reefs(o) /\ \A i \in Reefs(o) : line[i] \in Reefs(o)
         /\ \A r \in Reefs(o) : \E i \in Reefs(o) : line[i] = r
         /\ \A i, j \in Reefs(o) : line[i] = line[j] => i = j
         /\ \A i, j \in Reefs(o) : i < j <=> Ahead(o, line[i], line[j])
<1> DEFINE S == Reefs(o)
           before == {pair \in S \X S : Ahead(o, pair[1], pair[2])}
           line == ReefsInLine(o)
<1>1. /\ Len(o.reefs) \in Nat /\ S = 1 .. Len(o.reefs)
      /\ \A r \in S : o.reefs[r] \in Reef
  BY DEF OceanType, Reefs
<1>2. IsFiniteSet(S) /\ Cardinality(S) = Len(o.reefs)
  <2> DEFINE n == Len(o.reefs)
  <2>1. n \in Nat /\ 1 \in Int /\ n \in Int BY <1>1
  <2> HIDE DEF n
  <2>2. IsFiniteSet(1 .. n) /\ Cardinality(1 .. n) = IF 1 > n THEN 0 ELSE n - 1 + 1 BY <2>1, FS_Interval
  <2>3. Cardinality(1 .. n) = n BY <2>1, <2>2
  <2> QED BY <1>1, <2>2, <2>3 DEF n
<1>3. \A r, q \in S : <<r, q>> \in before <=> Ahead(o, r, q) OBVIOUS
<1>4. \A r \in S : r \in Int /\ o.reefs[r].at \in Int BY <1>1 DEF Reef
<1>5. line = Sorted(S, before) BY DEF ReefsInLine
<1> HIDE DEF S, before, line
<1>6. StrictOrder(before, S) BY <1>3, <1>4 DEF StrictOrder, Ahead
<1>7. /\ DOMAIN line = 1 .. Cardinality(S)
      /\ \A i \in DOMAIN line : line[i] \in S
      /\ \A r \in S : \E i \in DOMAIN line : line[i] = r
      /\ \A i, j \in DOMAIN line : i < j <=> <<line[i], line[j]>> \in before
  BY <1>2, <1>5, <1>6, SortedIs
<1>8. DOMAIN line = S BY <1>1, <1>2, <1>7
<1>9. ASSUME NEW i \in S, NEW j \in S, line[i] = line[j] PROVE i = j
  <2>1. ~ i < j /\ ~ j < i BY <1>6, <1>7, <1>8, <1>9 DEF StrictOrder
  <2> QED BY <1>4, <2>1
<1>10. \A i, j \in S : i < j <=> Ahead(o, line[i], line[j]) BY <1>3, <1>7, <1>8
<1> QED BY <1>1, <1>2, <1>7, <1>8, <1>9, <1>10 DEF S, line

LEMMA NearestHeadIs ==
  ASSUME NEW o, OceanType(o), NEW x \in Nat
  PROVE  /\ NearestHead(o, x) \in Heads
         /\ \A m \in Heads : Away(o.camera[NearestHead(o, x)], x) <= Away(o.camera[m], x)
<1> DEFINE S == 1 .. Len(MonitorOrder)
           f == [i \in S |-> Away(o.camera[MonitorOrder[i]], x)]
           near == {i \in S : \A j \in S : f[i] <= f[j]}
<1>1. Len(MonitorOrder) \in Nat /\ DOMAIN MonitorOrder = S /\ \A i \in S : MonitorOrder[i] \in Heads
  BY NthIs
<1>2. \A i \in S : f[i] \in Nat
  <2> TAKE i \in S
  <2>1. o.camera[MonitorOrder[i]] \in Nat BY <1>1 DEF OceanType
  <2> QED BY <2>1 DEF Away
<1>3. S \in SUBSET Nat /\ S # {}
  <2>1. Heads # {} BY EsAssumption DEF EsAssumption
  <2>2. S # {} BY <2>1, NthIs
  <2> QED BY <1>1, <2>2
<1>4. NearestHead(o, x) = MonitorOrder[Least(near)]
  <2>1. near = {i \in S : \A j \in S : Away(o.camera[MonitorOrder[i]], x) <= Away(o.camera[MonitorOrder[j]], x)}
    OBVIOUS
  <2> HIDE DEF near, S
  <2> QED BY <1>1, <2>1 DEF NearestHead
<1>5. Least(near) \in near
  <2> HIDE DEF S, f
  <2> QED BY <1>2, <1>3, ClosestIs
<1> DEFINE k == Least(near)
<1>6. k \in S /\ \A j \in S : f[k] <= f[j]
  <2> HIDE DEF k
  <2> QED BY <1>5 DEF k
<1> HIDE DEF k
<1>7. \A m \in Heads : \E j \in S : MonitorOrder[j] = m BY NthIs
<1>8. \A j \in S : Away(o.camera[MonitorOrder[k]], x) <= Away(o.camera[MonitorOrder[j]], x) BY <1>6
<1>9. NearestHead(o, x) = MonitorOrder[k] BY <1>4 DEF k
<1> QED BY <1>1, <1>6, <1>7, <1>8, <1>9

LEMMA ReefHeadIs ==
  ASSUME NEW o, OceanType(o), NEW r \in Reefs(o)
  PROVE  ReefHead(o, o.reefs[r]) \in Heads
<1> DEFINE reef == o.reefs[r]
<1>1. reef \in Reef BY DEF OceanType, Reefs
<1>2. reef.at \in Nat /\ reef.wins \in Seq(Apps) BY <1>1 DEF Reef, Orders
<1>3. CASE SharedCanvas \/ reef.wins = <<>> BY <1>2, <1>3, NearestHeadIs DEF ReefHead
<1>4. CASE ~ (SharedCanvas \/ reef.wins = <<>>)
  <2>1. 1 \in DOMAIN reef.wins /\ Head(reef.wins) = reef.wins[1] BY <1>2, <1>4
  <2>2. Head(reef.wins) \in Range(reef.wins) /\ Head(reef.wins) \in Apps BY <1>2, <2>1 DEF Range
  <2>3. ReefOf(o, Head(reef.wins)) # {} BY <2>2 DEF ReefOf
  <2>4. o.entry[Head(reef.wins)] \in Heads BY <2>2, <2>3 DEF OceanType, IsTable
  <2> QED BY <1>4, <2>4 DEF ReefHead
<1> QED BY <1>3, <1>4

\* The numbers the workspaces of each monitor get: each its own, none past
\* the number of reefs that go to the monitor.
Docked(o) ==
  LET line == ReefsInLine(o)
      slots == Slots(o)
  IN /\ DOMAIN slots = Reefs(o)
     /\ \A i \in Reefs(o) :
          /\ slots[i].out = ReefHead(o, o.reefs[line[i]]) /\ slots[i].out \in Heads
          /\ slots[i].at = o.reefs[line[i]].at /\ slots[i].wins = o.reefs[line[i]].wins
          /\ slots[i].desk = Cardinality({j \in 1 .. i : slots[j].out = slots[i].out})
          /\ slots[i].desk \in Nat \ {0}
          /\ slots[i].desk <= Cardinality({r \in Reefs(o) : ReefHead(o, o.reefs[r]) = slots[i].out})
     /\ \A i, j \in Reefs(o) : slots[i].out = slots[j].out /\ slots[i].desk = slots[j].desk => i = j

LEMMA SlotsAreDocked ==
  ASSUME NEW o, OceanType(o)
  PROVE  Docked(o)
<1> DEFINE line == ReefsInLine(o)
           slots == Slots(o)
           goes(i) == ReefHead(o, o.reefs[line[i]])
           mine(i) == {j \in 1 .. i : goes(j) = goes(i)}
           all(m) == {r \in Reefs(o) : ReefHead(o, o.reefs[r]) = m}
<1>1. /\ Len(o.reefs) \in Nat /\ Reefs(o) = 1 .. Len(o.reefs) /\ IsFiniteSet(Reefs(o))
      /\ DOMAIN line = Reefs(o) /\ \A i \in Reefs(o) : line[i] \in Reefs(o)
      /\ \A i, j \in Reefs(o) : line[i] = line[j] => i = j
  BY ReefsInLineIs
<1>2. slots = [i \in DOMAIN line |-> [out |-> goes(i), at |-> o.reefs[line[i]].at,
                                      wins |-> o.reefs[line[i]].wins, desk |-> Cardinality(mine(i))]]
  BY DEF Slots
<1> HIDE DEF line, slots
<1>3. DOMAIN slots = Reefs(o) BY <1>1, <1>2
<1>4. \A i \in Reefs(o) : goes(i) \in Heads BY <1>1, ReefHeadIs
<1>5. ASSUME NEW i \in Reefs(o)
      PROVE  /\ slots[i].out = goes(i) /\ slots[i].at = o.reefs[line[i]].at
             /\ slots[i].wins = o.reefs[line[i]].wins /\ slots[i].desk = Cardinality(mine(i))
  <2> HIDE DEF goes, mine
  <2> QED BY <1>1, <1>2
<1>6. ASSUME NEW i \in Reefs(o) PROVE i \in Nat /\ i \in mine(i) /\ 1 .. i \subseteq Reefs(o) BY <1>1
<1>7. ASSUME NEW i \in Reefs(o)
      PROVE  /\ IsFiniteSet(mine(i)) /\ Cardinality(mine(i)) \in Nat \ {0}
             /\ Cardinality(mine(i)) <= Cardinality(all(goes(i)))
  <2>1. i \in Int /\ 1 \in Int BY <1>6
  <2>2. IsFiniteSet(1 .. i) BY <2>1, FS_Interval
  <2>3. mine(i) \in SUBSET (1 .. i) OBVIOUS
  <2>4. IsFiniteSet(mine(i))
    <3> HIDE DEF mine
    <3> QED BY <2>2, <2>3, FS_Subset
  <2>5. Cardinality(mine(i)) \in Nat /\ Cardinality(mine(i)) # 0
    <3>1. mine(i) # {} BY <1>6
    <3> HIDE DEF mine
    <3> QED BY <2>4, <3>1, FS_CardinalityType, FS_EmptySet
  <2> DEFINE f == [j \in mine(i) |-> line[j]]
  <2>6. f \in Injection(mine(i), all(goes(i)))
    <3>1. \A j \in mine(i) : j \in Reefs(o) /\ line[j] \in all(goes(i)) BY <1>1, <1>6
    <3> HIDE DEF mine, all
    <3>2. f \in [mine(i) -> all(goes(i))] BY <3>1
    <3>3. IsInjective(f) BY <1>1, <3>1 DEF IsInjective
    <3> QED BY <3>2, <3>3 DEF Injection
  <2>7. all(goes(i)) \in SUBSET Reefs(o) OBVIOUS
  <2>8. IsFiniteSet(all(goes(i)))
    <3> HIDE DEF all
    <3> QED BY <1>1, <2>7, FS_Subset
  <2> HIDE DEF mine, all, f
  <2> QED BY <2>4, <2>5, <2>6, <2>8, FS_Injection
<1>8. ASSUME NEW i \in Reefs(o), NEW j \in Reefs(o), goes(i) = goes(j), i < j
      PROVE  Cardinality(mine(i)) < Cardinality(mine(j))
  <2>1. mine(i) \cup {j} \in SUBSET mine(j) /\ j \notin mine(i) BY <1>6, <1>8
  <2>2. IsFiniteSet(mine(i)) /\ IsFiniteSet(mine(j)) BY <1>7
  <2>3. Cardinality(mine(i)) \in Nat /\ Cardinality(mine(j)) \in Nat BY <1>7
  <2> HIDE DEF mine
  <2>4. Cardinality(mine(i) \cup {j}) = Cardinality(mine(i)) + 1 BY <2>1, <2>2, FS_AddElement
  <2>5. Cardinality(mine(i) \cup {j}) <= Cardinality(mine(j)) BY <2>1, <2>2, FS_Subset
  <2> QED BY <2>3, <2>4, <2>5
<1>9. ASSUME NEW i \in Reefs(o), NEW j \in Reefs(o), slots[i].out = slots[j].out, slots[i].desk = slots[j].desk
      PROVE  i = j
  <2>1. goes(i) = goes(j) /\ Cardinality(mine(i)) = Cardinality(mine(j)) BY <1>5, <1>9
  <2>2. Cardinality(mine(i)) \in Nat BY <1>7
  <2> HIDE DEF mine
  <2>3. ~ i < j /\ ~ j < i BY <1>8, <2>1, <2>2
  <2> QED BY <1>6, <2>3
<1>10. ASSUME NEW i \in Reefs(o) PROVE mine(i) = {j \in 1 .. i : slots[j].out = slots[i].out}
  BY <1>5, <1>6
<1>11. ASSUME NEW i \in Reefs(o)
       PROVE  /\ slots[i].out = ReefHead(o, o.reefs[line[i]]) /\ slots[i].out \in Heads
              /\ slots[i].at = o.reefs[line[i]].at /\ slots[i].wins = o.reefs[line[i]].wins
              /\ slots[i].desk = Cardinality({j \in 1 .. i : slots[j].out = slots[i].out})
              /\ slots[i].desk \in Nat \ {0}
              /\ slots[i].desk <= Cardinality({r \in Reefs(o) : ReefHead(o, o.reefs[r]) = slots[i].out})
  <2>1. /\ slots[i].out = goes(i) /\ slots[i].at = o.reefs[line[i]].at
        /\ slots[i].wins = o.reefs[line[i]].wins /\ slots[i].desk = Cardinality(mine(i))
        /\ goes(i) \in Heads
    BY <1>4, <1>5
  <2>2. mine(i) = {j \in 1 .. i : slots[j].out = slots[i].out} BY <1>10
  <2>3. Cardinality(mine(i)) \in Nat \ {0} /\ Cardinality(mine(i)) <= Cardinality(all(goes(i))) BY <1>7
  <2>4. all(goes(i)) = {r \in Reefs(o) : ReefHead(o, o.reefs[r]) = slots[i].out} BY <2>1
  <2> HIDE DEF mine, all
  <2>5. slots[i].out = ReefHead(o, o.reefs[line[i]]) BY <2>1
  <2> HIDE DEF goes
  <2> QED BY <2>1, <2>2, <2>3, <2>4, <2>5
<1> QED BY <1>3, <1>9, <1>11 DEF Docked, line, slots

\* A camera takes the slot nearest to it among those of its monitor.
LEMMA NearestSlotIs ==
  ASSUME NEW o, OceanType(o), NEW m \in Heads, NEW x \in Nat,
         \E i \in Reefs(o) : Slots(o)[i].out = m
  PROVE  LET k == NearestSlot(Slots(o), m, x) IN
         /\ k \in Reefs(o) /\ Slots(o)[k].out = m
         /\ \A i \in Reefs(o) : Slots(o)[i].out = m => Away(Slots(o)[k].at, x) <= Away(Slots(o)[i].at, x)
<1> DEFINE slots == Slots(o)
           S == {i \in Reefs(o) : slots[i].out = m}
           f == [i \in Reefs(o) |-> Away(slots[i].at, x)]
           near == {i \in S : \A j \in S : f[i] <= f[j]}
           k == NearestSlot(slots, m, x)
<1>1. Docked(o) BY SlotsAreDocked
<1>2. /\ Reefs(o) = 1 .. Len(o.reefs) /\ Len(o.reefs) \in Nat
      /\ \A i \in Reefs(o) : o.reefs[ReefsInLine(o)[i]] \in Reef
  BY ReefsInLineIs
<1>3. DOMAIN slots = Reefs(o) /\ \A i \in Reefs(o) : slots[i].at = o.reefs[ReefsInLine(o)[i]].at
  BY <1>1 DEF Docked
<1>4. \A i \in Reefs(o) : slots[i].at \in Nat BY <1>2, <1>3 DEF Reef
<1>5. \A i \in S : f[i] \in Nat BY <1>4 DEF Away
<1>6. S \in SUBSET Nat /\ S # {} BY <1>2
<1>7. near = {i \in S : \A j \in S : Away(slots[i].at, x) <= Away(slots[j].at, x)} OBVIOUS
<1>8. k = Least(near) BY <1>3, <1>7 DEF NearestSlot
<1>9. Least(near) \in near
  <2> HIDE DEF S, f
  <2> QED BY <1>5, <1>6, ClosestIs
<1> HIDE DEF k
<1>10. k \in S /\ \A j \in S : f[k] <= f[j] BY <1>8, <1>9
<1> QED BY <1>10 DEF k

\* What migrate_ocean_to_classic makes of the tables, table by table.
Landed(c, o, e) ==
  LET slots == Slots(o) IN
  /\ DOMAIN e = DOMAIN c /\ e.before = c.before
  /\ \A i \in Reefs(o) : slots[i].desk \in Spaces => e.tree[<<slots[i].out, slots[i].desk>>] = slots[i].wins
  /\ \A t \in Trees : (\A i \in Reefs(o) : slots[i].out # t[1] \/ slots[i].desk # t[2]) => e.tree[t] = c.tree[t]
  /\ e.tree = [t \in Trees |-> e.tree[t]] /\ e.active = [m \in Heads |-> e.active[m]]
  /\ \A m \in Heads : e.active[m] = IF \E i \in Reefs(o) : slots[i].out = m
                                    THEN slots[NearestSlot(slots, m, o.camera[m])].desk ELSE 1
  /\ DOMAIN e.tag = DOMAIN c.tag \cup DOMAIN o.loose
  /\ \A x \in DOMAIN c.tag \ DOMAIN o.loose : e.tag[x] = c.tag[x]
  /\ \A x \in DOMAIN o.loose : \E m \in Heads, d \in Nat \ {0} :
       /\ e.tag[x] = [out |-> m, desk |-> d]
       /\ d = 1 \/ \E i \in Reefs(o) : d = slots[i].desk
  /\ e.pinned = c.pinned \cup DOMAIN o.pins

LEMMA ToClassicIs ==
  ASSUME NEW c, ClassicType(c), NEW o, OceanType(o)
  PROVE  Landed(c, o, ToClassic(c, o).classic)
<1> DEFINE slots == Slots(o)
           e == ToClassic(c, o).classic
           taken(t) == {i \in DOMAIN slots : slots[i].out = t[1] /\ slots[i].desk = t[2]}
           has(m) == \E i \in DOMAIN slots : slots[i].out = m
           head(a) == IF a \in DOMAIN o.pins THEN o.pins[a] ELSE o.entry[a]
           number(m, x) == IF has(m) THEN slots[NearestSlot(slots, m, x)].desk ELSE 1
<1>1. /\ DOMAIN e = DOMAIN c /\ e.before = c.before
      /\ e.tree = [t \in Trees |-> IF taken(t) = {} THEN c.tree[t] ELSE slots[CHOOSE i \in taken(t) : TRUE].wins]
      /\ e.active = [m \in Heads |-> number(m, o.camera[m])]
      /\ e.tag = [a \in DOMAIN c.tag \cup DOMAIN o.loose |->
                    IF a \in DOMAIN o.loose THEN [out |-> head(a), desk |-> number(head(a), o.loose[a])]
                    ELSE c.tag[a]]
      /\ e.pinned = c.pinned \cup (DOMAIN o.pins \cap DOMAIN o.loose)
  BY DEF ToClassic, ClassicType
<1> HIDE DEF e, slots
<1>2. /\ DOMAIN slots = Reefs(o)
      /\ \A i \in Reefs(o) : slots[i].out \in Heads /\ slots[i].desk \in Nat \ {0}
      /\ \A i, j \in Reefs(o) : slots[i].out = slots[j].out /\ slots[i].desk = slots[j].desk => i = j
  <2>1. Docked(o) BY SlotsAreDocked
  <2> QED BY <2>1 DEF Docked, slots
<1>3. ASSUME NEW i \in Reefs(o), slots[i].desk \in Spaces
      PROVE  e.tree[<<slots[i].out, slots[i].desk>>] = slots[i].wins
  <2> DEFINE t == <<slots[i].out, slots[i].desk>>
  <2>1. t \in Trees /\ t[1] = slots[i].out /\ t[2] = slots[i].desk BY <1>2, <1>3 DEF Trees
  <2>2. taken(t) = {i} BY <1>2, <2>1
  <2>3. (CHOOSE j \in taken(t) : TRUE) = i BY <2>2
  <2> HIDE DEF t, taken
  <2>4. e.tree[t] = slots[i].wins BY <1>1, <2>1, <2>2, <2>3
  <2> QED BY <2>4 DEF t
<1>4. ASSUME NEW t \in Trees, \A i \in Reefs(o) : slots[i].out # t[1] \/ slots[i].desk # t[2]
      PROVE  e.tree[t] = c.tree[t]
  <2>1. taken(t) = {} BY <1>2, <1>4
  <2> HIDE DEF taken
  <2> QED BY <1>1, <2>1
<1>5. ASSUME NEW m \in Heads
      PROVE  e.active[m] = IF \E i \in Reefs(o) : slots[i].out = m
                           THEN slots[NearestSlot(slots, m, o.camera[m])].desk ELSE 1
  BY <1>1, <1>2
<1>6. ASSUME NEW m \in Heads, NEW x \in Nat
      PROVE  number(m, x) \in Nat \ {0} /\ (number(m, x) = 1 \/ \E i \in Reefs(o) : number(m, x) = slots[i].desk)
  <2>1. CASE has(m)
    <3>1. NearestSlot(slots, m, x) \in Reefs(o) BY <1>2, <2>1, NearestSlotIs DEF slots
    <3> QED BY <1>2, <2>1, <3>1
  <2>2. CASE ~ has(m) BY <2>2
  <2> QED BY <2>1, <2>2
<1>7. ASSUME NEW x \in DOMAIN o.loose
      PROVE  \E m \in Heads, d \in Nat \ {0} : /\ e.tag[x] = [out |-> m, desk |-> d]
                                               /\ d = 1 \/ \E i \in Reefs(o) : d = slots[i].desk
  <2>1. o.loose[x] \in Nat /\ x \in Apps /\ x \in DOMAIN o.entry BY DEF OceanType, IsTable
  <2>2. head(x) \in Heads BY <2>1 DEF OceanType, IsTable
  <2> DEFINE m == head(x)
             d == number(m, o.loose[x])
  <2>3. e.tag[x] = [out |-> m, desk |-> d] BY <1>1
  <2>4. m \in Heads BY <2>2
  <2> HIDE DEF m, number
  <2>5. d \in Nat \ {0} /\ (d = 1 \/ \E i \in Reefs(o) : d = slots[i].desk) BY <1>6, <2>1, <2>4
  <2> HIDE DEF d
  <2> QED BY <2>3, <2>4, <2>5
<1>8. /\ DOMAIN e.tag = DOMAIN c.tag \cup DOMAIN o.loose
      /\ \A x \in DOMAIN c.tag \ DOMAIN o.loose : e.tag[x] = c.tag[x]
      /\ e.tree = [t \in Trees |-> e.tree[t]] /\ e.active = [m \in Heads |-> e.active[m]]
  BY <1>1
<1>9. e.pinned = c.pinned \cup DOMAIN o.pins BY <1>1 DEF OceanType
<1> HIDE DEF taken, has, head, number
<1> QED BY <1>1, <1>3, <1>4, <1>5, <1>7, <1>8, <1>9 DEF Landed, slots, e

LEMMA LandedIsTyped ==
  ASSUME NEW c, ClassicType(c), NEW o, OceanType(o), Fits(o), NEW e, Landed(c, o, e)
  PROVE  /\ ClassicType(e)
         /\ \A i \in Reefs(o) : Slots(o)[i].desk \in 1 .. Numbered
<1> DEFINE slots == Slots(o)
<1>1. Numbered \in Nat \ {0} BY EsAssumption DEF EsAssumption
<1>2. /\ \A i \in Reefs(o) : o.reefs[ReefsInLine(o)[i]] \in Reef
      /\ Len(o.reefs) \in Nat /\ IsFiniteSet(Reefs(o))
  BY ReefsInLineIs
<1>3. Docked(o) BY SlotsAreDocked
<1>4. /\ \A i \in Reefs(o) : /\ slots[i].out \in Heads /\ slots[i].desk \in Nat \ {0}
                             /\ slots[i].wins = o.reefs[ReefsInLine(o)[i]].wins
                             /\ slots[i].desk <= Cardinality({r \in Reefs(o) : ReefHead(o, o.reefs[r]) = slots[i].out})
  BY <1>3 DEF Docked
<1> HIDE DEF slots
<1>5. ASSUME NEW i \in Reefs(o) PROVE slots[i].desk \in 1 .. Numbered
  <2> DEFINE S == {r \in Reefs(o) : ReefHead(o, o.reefs[r]) = slots[i].out}
  <2>1. Cardinality(S) <= Numbered BY <1>4 DEF Fits
  <2>2. S \in SUBSET Reefs(o) OBVIOUS
  <2>3. slots[i].desk <= Cardinality(S) BY <1>4
  <2> HIDE DEF S
  <2>4. Cardinality(S) \in Nat BY <1>2, <2>2, FS_Subset, FS_CardinalityType
  <2>5. slots[i].desk \in Nat \ {0} BY <1>4
  <2> QED BY ONLY <1>1, <2>1, <2>3, <2>4, <2>5
<1>6. 1 .. Numbered \subseteq Spaces /\ 1 \in 1 .. Numbered BY <1>1 DEF Spaces, Scratchpad
<1>7. e.tree \in [Trees -> Orders]
  <2>1. e.tree = [t \in Trees |-> e.tree[t]] BY DEF Landed
  <2>2. ASSUME NEW t \in Trees PROVE e.tree[t] \in Orders
    <3>1. CASE \E i \in Reefs(o) : slots[i].out = t[1] /\ slots[i].desk = t[2]
      <4>1. PICK i \in Reefs(o) : slots[i].out = t[1] /\ slots[i].desk = t[2] BY <3>1
      <4>2. t = <<slots[i].out, slots[i].desk>> BY <4>1 DEF Trees
      <4>3. slots[i].wins \in Orders BY <1>2, <1>4 DEF Reef
      <4>4. e.tree[<<slots[i].out, slots[i].desk>>] = slots[i].wins BY <1>5, <1>6 DEF Landed, slots
      <4> QED BY <4>2, <4>3, <4>4
    <3>2. CASE ~ \E i \in Reefs(o) : slots[i].out = t[1] /\ slots[i].desk = t[2]
      <4>1. e.tree[t] = c.tree[t] BY <3>2 DEF Landed, slots
      <4> QED BY <4>1 DEF ClassicType
    <3> QED BY <3>1, <3>2
  <2> QED BY <2>1, <2>2
<1>8. e.active \in [Heads -> Spaces]
  <2>1. e.active = [m \in Heads |-> e.active[m]] BY DEF Landed
  <2>2. ASSUME NEW m \in Heads PROVE e.active[m] \in Spaces
    <3>1. CASE \E i \in Reefs(o) : slots[i].out = m
      <4> DEFINE k == NearestSlot(slots, m, o.camera[m])
      <4>1. o.camera[m] \in Nat BY DEF OceanType
      <4>2. k \in Reefs(o) BY <3>1, <4>1, NearestSlotIs DEF slots
      <4>3. e.active[m] = slots[k].desk BY <3>1 DEF Landed, slots
      <4> HIDE DEF k
      <4> QED BY <1>5, <1>6, <4>2, <4>3
    <3>2. CASE ~ \E i \in Reefs(o) : slots[i].out = m
      <4>1. e.active[m] = 1 BY <3>2 DEF Landed, slots
      <4> QED BY <1>6, <4>1
    <3> QED BY <3>1, <3>2
  <2> QED BY <2>1, <2>2
<1>9. IsTable(e.tag, Tag)
  <2>1. DOMAIN e.tag \subseteq Apps BY DEF Landed, ClassicType, OceanType, IsTable
  <2>2. ASSUME NEW x \in DOMAIN o.loose PROVE e.tag[x] \in Tag
    <3>1. PICK m \in Heads, d \in Nat \ {0} : /\ e.tag[x] = [out |-> m, desk |-> d]
                                              /\ d = 1 \/ \E i \in Reefs(o) : d = slots[i].desk
      BY DEF Landed, slots
    <3>2. d \in Spaces BY <1>5, <1>6, <3>1
    <3> QED BY <3>1, <3>2 DEF Tag
  <2>3. ASSUME NEW x \in DOMAIN c.tag \ DOMAIN o.loose PROVE e.tag[x] \in Tag
    BY DEF Landed, ClassicType, IsTable
  <2>4. DOMAIN e.tag = DOMAIN c.tag \cup DOMAIN o.loose BY DEF Landed
  <2> QED BY <2>1, <2>2, <2>3, <2>4 DEF IsTable
<1>10. e.pinned \subseteq DOMAIN e.tag BY DEF Landed, ClassicType, OceanType
<1>11. DOMAIN e = DOMAIN c /\ e.before = c.before BY DEF Landed
<1> QED BY <1>5, <1>7, <1>8, <1>9, <1>10, <1>11 DEF ClassicType, slots

\* Where a window is in Classic after the migration.
LEMMA LandedOwners ==
  ASSUME NEW c, ClassicType(c), NEW o, OceanType(o), Fits(o), NEW e, Landed(c, o, e),
         NEW x \in Apps, Alone(c, o, x)
  PROVE  /\ \A t, u \in TileOf(e, x) : t = u
         /\ TileOf(e, x) # {} => x \notin DOMAIN e.tag
         /\ TileOf(e, x) # {} => TileOf(c, x) # {} \/ ReefOf(o, x) # {}
         /\ ReefOf(o, x) # {} => TileOf(e, x) # {}
         /\ (\A t \in TileOf(c, x) : t[2] = Scratchpad) /\ TileOf(c, x) # {} => TileOf(e, x) # {}
<1> DEFINE slots == Slots(o)
           line == ReefsInLine(o)
           pier(i) == <<slots[i].out, slots[i].desk>>
<1>1. /\ \A i \in Reefs(o) : line[i] \in Reefs(o)
      /\ \A r \in Reefs(o) : \E i \in Reefs(o) : line[i] = r
      /\ \A i, j \in Reefs(o) : line[i] = line[j] => i = j
  BY ReefsInLineIs
<1>2. Docked(o) BY SlotsAreDocked
<1>3. \A i \in Reefs(o) : slots[i].out \in Heads /\ slots[i].wins = o.reefs[line[i]].wins
  BY <1>2 DEF Docked
<1>4. \A i \in Reefs(o) : slots[i].desk \in 1 .. Numbered BY LandedIsTyped
<1> HIDE DEF slots, line
<1>5. Numbered \in Nat \ {0} BY EsAssumption DEF EsAssumption
<1>6. ASSUME NEW i \in Reefs(o)
      PROVE  pier(i) \in Trees /\ pier(i)[2] # Scratchpad /\ e.tree[pier(i)] = o.reefs[line[i]].wins
  <2>1. slots[i].desk \in Spaces /\ slots[i].desk # Scratchpad BY <1>4, <1>5 DEF Spaces, Scratchpad
  <2>2. e.tree[<<slots[i].out, slots[i].desk>>] = slots[i].wins BY <2>1 DEF Landed, slots
  <2> QED BY <1>3, <2>1, <2>2 DEF Trees
<1>7. ASSUME NEW t \in Trees PROVE (\E i \in Reefs(o) : t = pier(i)) \/ e.tree[t] = c.tree[t]
  <2>1. CASE \E i \in Reefs(o) : slots[i].out = t[1] /\ slots[i].desk = t[2]
    BY <2>1 DEF Trees
  <2>2. CASE ~ \E i \in Reefs(o) : slots[i].out = t[1] /\ slots[i].desk = t[2]
    BY <2>2 DEF Landed, slots
  <2> QED BY <2>1, <2>2
<1> HIDE DEF pier
<1>8. \A t \in TileOf(e, x) : (\E i \in Reefs(o) : t = pier(i) /\ line[i] \in ReefOf(o, x)) \/ t \in TileOf(c, x)
  BY <1>1, <1>6, <1>7 DEF TileOf, ReefOf
<1>9. ASSUME NEW t \in TileOf(e, x), NEW u \in TileOf(e, x) PROVE t = u
  <2>1. CASE ReefOf(o, x) = {}
    BY <1>8, <2>1 DEF Alone
  <2>2. CASE ReefOf(o, x) # {}
    <3>1. TileOf(c, x) = {} /\ \A r, q \in ReefOf(o, x) : r = q BY <2>2 DEF Alone
    <3>2. PICK i \in Reefs(o) : t = pier(i) /\ line[i] \in ReefOf(o, x) BY <1>8, <3>1
    <3>3. PICK j \in Reefs(o) : u = pier(j) /\ line[j] \in ReefOf(o, x) BY <1>8, <3>1
    <3> QED BY <1>1, <3>1, <3>2, <3>3
  <2> QED BY <2>1, <2>2
<1>10. TileOf(e, x) # {} => TileOf(c, x) # {} \/ ReefOf(o, x) # {} BY <1>8
<1>11. TileOf(e, x) # {} => x \notin DOMAIN e.tag
  <2>1. DOMAIN e.tag = DOMAIN c.tag \cup DOMAIN o.loose BY DEF Landed
  <2> QED BY <1>10, <2>1 DEF Alone
<1>12. ReefOf(o, x) # {} => TileOf(e, x) # {}
  <2> SUFFICES ASSUME ReefOf(o, x) # {} PROVE TileOf(e, x) # {} OBVIOUS
  <2>1. PICK r \in Reefs(o) : x \in Range(o.reefs[r].wins) BY DEF ReefOf
  <2>2. PICK i \in Reefs(o) : line[i] = r BY <1>1
  <2>3. pier(i) \in TileOf(e, x) BY <1>6, <2>1, <2>2 DEF TileOf
  <2> QED BY <2>3
<1>13. ASSUME \A t \in TileOf(c, x) : t[2] = Scratchpad, TileOf(c, x) # {} PROVE TileOf(e, x) # {}
  <2>1. PICK t \in TileOf(c, x) : t[2] = Scratchpad BY <1>13
  <2>2. t \in Trees /\ e.tree[t] = c.tree[t] BY <1>6, <1>7, <2>1 DEF TileOf
  <2>3. t \in TileOf(e, x) BY <2>2 DEF TileOf
  <2> QED BY <2>3
<1> QED BY <1>9, <1>10, <1>11, <1>12, <1>13

\* migrate_spatial_engine.
LEMMA SwitchEngineKeeps ==
  ASSUME EsInv, SwitchEngine PROVE EsInv'
<1> USE DEF EsInv
<1>1. /\ ClassicType(classic) /\ OceanType(ocean) /\ \A x \in Apps : Alone(classic, ocean, x)
      /\ spatial \in {"classic", "ocean"}
  BY DEF Typed, OwnedRightly
<1>2. UNCHANGED <<surface, attached, eaten, strays>> BY DEF SwitchEngine
<1>3. Hidden' = Hidden BY <1>2 DEF Hidden
<1>4. ASSUME ClassicType(classic'), OceanType(ocean'), spatial' \in {"classic", "ocean"},
             \A x \in Apps : Alone(classic', ocean', x),
             \A x \in Apps : Owned(classic', ocean', x) => Owned(classic, ocean, x),
             \A x \in Apps \ strays : Owned(classic, ocean, x) => Owned(classic', ocean', x)
      PROVE  Typed' /\ OwnedRightly' /\ Meals'
  <2>1. Typed' BY <1>2, <1>4 DEF Typed
  <2>2. OwnedRightly' BY <1>2, <1>3, <1>4 DEF OwnedRightly
  <2>3. Meals' BY <1>2 DEF Meals
  <2> QED BY <2>1, <2>2, <2>3
<1>5. CASE spatial = "classic"
  <2> DEFINE e == ToOcean(classic, ocean).classic
             p == ToOcean(classic, ocean).ocean
  <2>1. classic' = e /\ ocean' = p /\ spatial' = "ocean" BY <1>5 DEF SwitchEngine
  <2>2. Reefs(ocean) = {} /\ DOMAIN ocean.loose = {} BY <1>5 DEF Deserted
  <2>3. Launched(classic, e, p) BY <1>1, ToOceanIs
  <2>4. \A x \in Apps :
          /\ Alone(e, p, x) /\ (Owned(e, p, x) <=> Owned(classic, ocean, x))
          /\ x \notin DOMAIN e.tag \/ e.tag[x].desk = Scratchpad
          /\ \A t \in TileOf(e, x) : t[2] = Scratchpad
    BY <1>1, <2>2, ToOceanOwners
  <2> HIDE DEF e, p
  <2>5. ClassicType(e) /\ OceanType(p) BY <2>3 DEF Launched
  <2>6. Typed' /\ OwnedRightly' /\ Meals' BY <1>4, <2>1, <2>4, <2>5
  <2>7. EngineOwnsItsWindows' BY <2>1, <2>4 DEF EngineOwnsItsWindows
  <2>8. Deserted' BY <2>1 DEF Deserted
  <2> QED BY <2>6, <2>7, <2>8
<1>6. CASE spatial = "ocean"
  <2> DEFINE e == ToClassic(classic, ocean).classic
             p == ToClassic(classic, ocean).ocean
  <2>1. classic' = e /\ ocean' = p /\ spatial' = "classic" /\ Fits(ocean) BY <1>6 DEF SwitchEngine
  <2>2. Landed(classic, ocean, e) BY <1>1, ToClassicIs
  <2>3. p = [reefs |-> <<>>, loose |-> Nowhere, entry |-> Nowhere, pins |-> Nowhere,
             camera |-> [m \in Heads |-> 0]]
    BY DEF ToClassic
  <2> HIDE DEF e, p
  <2>4. DOMAIN p.loose = {} /\ Reefs(p) = {} /\ \A x \in Apps : ReefOf(p, x) = {}
    BY <2>3 DEF Nowhere, Reefs, ReefOf
  <2>5. OceanType(p)
    <3>1. p.reefs \in Seq(Reef) /\ p.camera \in [Heads -> Nat] BY <2>3
    <3>2. DOMAIN p.entry = {} /\ DOMAIN p.pins = {} BY <2>3 DEF Nowhere
    <3> QED BY <2>3, <2>4, <3>1, <3>2 DEF OceanType, IsTable
  <2>6. ClassicType(e) BY <1>1, <2>1, <2>2, LandedIsTyped
  <2>7. DOMAIN e.tag = DOMAIN classic.tag \cup DOMAIN ocean.loose BY <2>2 DEF Landed
  <2>8. ASSUME NEW x \in Apps
        PROVE  /\ Alone(e, p, x) /\ (Owned(e, p, x) => Owned(classic, ocean, x))
               /\ x \notin strays /\ Owned(classic, ocean, x) => Owned(e, p, x)
    <3>1. /\ \A t, u \in TileOf(e, x) : t = u
          /\ TileOf(e, x) # {} => x \notin DOMAIN e.tag
          /\ TileOf(e, x) # {} => TileOf(classic, x) # {} \/ ReefOf(ocean, x) # {}
          /\ ReefOf(ocean, x) # {} => TileOf(e, x) # {}
          /\ (\A t \in TileOf(classic, x) : t[2] = Scratchpad) /\ TileOf(classic, x) # {} => TileOf(e, x) # {}
      BY <1>1, <2>1, <2>2, LandedOwners
    <3>2. Alone(e, p, x) BY <2>4, <3>1 DEF Alone
    <3>3. Owned(e, p, x) => Owned(classic, ocean, x) BY <2>4, <2>7, <3>1 DEF Owned
    <3>4. x \notin strays => \A t \in TileOf(classic, x) : t[2] = Scratchpad
      BY <1>6 DEF EngineOwnsItsWindows
    <3>5. x \notin strays /\ Owned(classic, ocean, x) => Owned(e, p, x)
      BY <2>7, <3>1, <3>4 DEF Owned
    <3> QED BY <3>2, <3>3, <3>5
  <2>9. Typed' /\ OwnedRightly' /\ Meals' BY <1>4, <2>1, <2>5, <2>6, <2>8
  <2>10. EngineOwnsItsWindows' BY <2>1 DEF EngineOwnsItsWindows
  <2>11. Deserted' BY <2>1, <2>4 DEF Deserted
  <2> QED BY <2>9, <2>10, <2>11
<1> QED BY <1>1, <1>5, <1>6

-----------------------------------------------------------------------------
(* The invariant holds, and what follows from it.                          *)

LEMMA EsNextKeeps ==
  ASSUME EsInv, [EsNext]_esVars PROVE EsInv'
<1>1. CASE SwitchEngine BY <1>1, SwitchEngineKeeps
<1>2. ASSUME NEW x \in Apps, NewToplevel(x) PROVE EsInv' BY <1>2, NewToplevelKeeps
<1>3. ASSUME NEW x \in Apps, Destroyed(x) PROVE EsInv' BY <1>3, DestroyedKeeps
<1>4. ASSUME NEW x \in Apps, NEW buffer \in BOOLEAN, Commit(x, buffer) PROVE EsInv' BY <1>4, CommitKeeps
<1>5. ASSUME NEW x \in Apps, ToggleFloat(x) PROVE EsInv' BY <1>5, ToggleFloatKeeps
<1>6. ASSUME NEW x \in Apps, TogglePin(x) PROVE EsInv' BY <1>6, TogglePinKeeps
<1>7. ASSUME NEW x \in Apps, NEW d \in Spaces, SendTo(x, d) PROVE EsInv' BY <1>7, SendToKeeps
<1>8. ASSUME NEW m \in Heads, NEW d \in Spaces, SwitchSpace(m, d) PROVE EsInv' BY <1>8, SwitchSpaceKeeps
<1>9. ASSUME NEW m \in Heads, NEW x \in 0 .. Len(MonitorOrder) * Numbered - 1, Travel(m, x) PROVE EsInv'
  BY <1>9, TravelKeeps
<1>10. CASE UNCHANGED esVars
  <2>1. attached' \subseteq Apps BY <1>10 DEF esVars, EsInv, Typed
  <2> QED BY <1>10, <2>1, QuietKeeps DEF esVars
<1> QED BY <1>1, <1>2, <1>3, <1>4, <1>5, <1>6, <1>7, <1>8, <1>9, <1>10 DEF EsNext

LEMMA OwnedOnce ==
  ASSUME EsInv PROVE EsTypeOK /\ LiveWindowsOwnedOnce
<1> USE DEF EsInv
<1>1. /\ ClassicType(classic) /\ OceanType(ocean) /\ IsTable(eaten, Meal) BY DEF Typed
<1>2. EsTypeOK
  <2>1. \A t \in Trees : classic.tree[t] \in Seq(Apps) BY <1>1 DEF ClassicType, Orders
  <2>2. \A r \in Reefs(ocean) : ocean.reefs[r].wins \in Seq(Apps)
    <3>1. \A r \in Reefs(ocean) : ocean.reefs[r] \in Reef BY <1>1, ReefsInLineIs
    <3> QED BY <3>1 DEF Reef, Orders
  <2>3. Hidden \subseteq Apps /\ DOMAIN eaten \subseteq Apps BY <1>1 DEF Hidden, IsTable, Meal
  <2> QED BY <1>1, <2>1, <2>2, <2>3 DEF EsTypeOK, Typed, ClassicType, OceanType, IsTable
<1>3. LiveWindowsOwnedOnce
  <2> SUFFICES ASSUME NEW x \in Apps
               PROVE  /\ Places(x) <= 1
                      /\ surface[x] # "live" \/ x \in Hidden => Places(x) = 0
                      /\ surface[x] = "live" /\ x \notin Hidden /\ x \notin strays => Places(x) = 1
    BY DEF LiveWindowsOwnedOnce
  <2> DEFINE A == TileOf(classic, x)
             B == ReefOf(ocean, x)
             C == {x} \cap DOMAIN classic.tag
             D == {x} \cap DOMAIN ocean.loose
  <2>1. \A S : S = {} => Cardinality(S) = 0 BY FS_EmptySet
  <2>2. \A S : (\E y : S = {y}) => Cardinality(S) = 1 BY FS_Singleton
  <2>3. A = {} \/ \E t : A = {t}
    <3>1. \A t, u \in A : t = u BY DEF OwnedRightly, Alone
    <3> HIDE DEF A
    <3> QED BY <3>1
  <2>4. B = {} \/ \E r : B = {r}
    <3>1. \A r, q \in B : r = q BY DEF OwnedRightly, Alone
    <3> HIDE DEF B
    <3> QED BY <3>1
  <2>5. /\ C = (IF x \in DOMAIN classic.tag THEN {x} ELSE {})
        /\ D = (IF x \in DOMAIN ocean.loose THEN {x} ELSE {})
    OBVIOUS
  <2>6. Places(x) = Cardinality(A) + Cardinality(B) + Cardinality(C) + Cardinality(D) BY DEF Places
  <2>7. /\ A # {} => B = {} /\ C = {} /\ D = {}
        /\ B # {} => C = {} /\ D = {}
        /\ C # {} => D = {}
    BY DEF OwnedRightly, Alone
  <2>8. Owned(classic, ocean, x) <=> A # {} \/ B # {} \/ C # {} \/ D # {} BY DEF Owned
  <2> HIDE DEF A, B, C, D
  <2>9. /\ Cardinality(A) = IF A = {} THEN 0 ELSE 1
        /\ Cardinality(B) = IF B = {} THEN 0 ELSE 1
    BY <2>1, <2>2, <2>3, <2>4
  <2>10. /\ Cardinality(C) = IF C = {} THEN 0 ELSE 1
         /\ Cardinality(D) = IF D = {} THEN 0 ELSE 1
    BY <2>1, <2>2, <2>5
  <2>11. Places(x) = IF Owned(classic, ocean, x) THEN 1 ELSE 0 BY <2>6, <2>7, <2>8, <2>9, <2>10
  <2> QED BY <2>11 DEF OwnedRightly
<1> QED BY <1>2, <1>3

-----------------------------------------------------------------------------
(* There and back.                                                         *)

LEMMA LaunchedReefs ==
  ASSUME NEW c, ClassicType(c), NEW e, NEW p, Launched(c, e, p), NEW r \in Reefs(p)
  PROVE  LET t == TreesInLine(c)[r] IN
         /\ t \in InUse(c) /\ t = <<t[1], t[2]>> /\ t[1] \in Heads /\ t[2] \in 1 .. Span(c, t[1])
         /\ p.reefs[r].at = Island(c, t[1]) + t[2] - 1 /\ p.reefs[r].at \in Nat
         /\ p.reefs[r].wins = c.tree[t] /\ p.reefs[r].wins # <<>>
         /\ \A q \in Reefs(p) : p.reefs[q].at = p.reefs[r].at => q = r
<1> DEFINE line == TreesInLine(c)
           place(t) == Island(c, t[1]) + t[2] - 1
<1>1. /\ \A i \in DOMAIN line : line[i] \in InUse(c)
      /\ \A i, j \in DOMAIN line : line[i] = line[j] => i = j
  BY TreesInLineIs
<1>2. /\ Reefs(p) = DOMAIN line
      /\ \A i \in DOMAIN line : p.reefs[i] = [at |-> Island(c, line[i][1]) + line[i][2] - 1,
                                              wins |-> c.tree[line[i]], auto |-> FALSE]
      /\ OceanType(p)
  BY DEF Launched, Reefs
<1> HIDE DEF line
<1>3. ASSUME NEW i \in DOMAIN line
      PROVE  /\ p.reefs[i].at = place(line[i]) /\ p.reefs[i].wins = c.tree[line[i]]
             /\ line[i] = <<line[i][1], line[i][2]>> /\ line[i][1] \in Heads
             /\ line[i][2] \in 1 .. Span(c, line[i][1]) /\ c.tree[line[i]] # <<>>
             /\ p.reefs[i].at \in Nat
  <2>1. p.reefs[i] = [at |-> Island(c, line[i][1]) + line[i][2] - 1, wins |-> c.tree[line[i]], auto |-> FALSE]
    BY <1>2
  <2>2. p.reefs[i].at = place(line[i]) /\ p.reefs[i].wins = c.tree[line[i]] BY ONLY <2>1
  <2>3. line[i] \in InUse(c) BY <1>1
  <2>4. p.reefs[i].at \in Nat BY <1>2, ReefsInLineIs DEF Reef
  <2> HIDE DEF place
  <2> QED BY <2>2, <2>3, <2>4, InUseIs
<1>4. ASSUME NEW q \in DOMAIN line, p.reefs[q].at = p.reefs[r].at PROVE q = r
  <2> DEFINE m == line[q][1]
             d == line[q][2]
             n == line[r][1]
             b == line[r][2]
  <2>1. r \in DOMAIN line BY <1>2
  <2>2. /\ m \in Heads /\ n \in Heads /\ d \in 1 .. Span(c, m) /\ b \in 1 .. Span(c, n)
        /\ line[q] = <<m, d>> /\ line[r] = <<n, b>>
        /\ Island(c, m) + d - 1 = Island(c, n) + b - 1
    BY <1>3, <1>4, <2>1
  <2> HIDE DEF m, d, n, b
  <2>3. m = n /\ d = b BY <2>2, PlacesApart
  <2> QED BY <1>1, <2>1, <2>2, <2>3
<1>5. r \in DOMAIN line BY <1>2
<1> QED BY <1>1, <1>2, <1>3, <1>4, <1>5 DEF line

LEMMA CamerasApart ==
  ASSUME NEW c, ClassicType(c), NEW e, NEW p, Launched(c, e, p), NEW m \in Heads
  PROVE  /\ p.camera[m] = Island(c, m) + Origin(c, m) - 1 /\ p.camera[m] \in Nat
         /\ Origin(c, m) \in 1 .. Span(c, m) /\ Span(c, m) \in 1 .. Numbered /\ Island(c, m) \in Nat
         /\ \A n \in Heads : p.camera[n] = p.camera[m] => n = m
<1>1. p.camera = [n \in Heads |-> Island(c, n) + Origin(c, n) - 1] BY DEF Launched
<1>2. ASSUME NEW n \in Heads
      PROVE  /\ p.camera[n] = Island(c, n) + Origin(c, n) - 1 /\ Island(c, n) \in Nat
             /\ Origin(c, n) \in 1 .. Span(c, n) /\ Span(c, n) \in 1 .. Numbered
  <2>1. Origin(c, n) \in 1 .. Numbered /\ Origin(c, n) <= Span(c, n) /\ Span(c, n) \in 1 .. Numbered
    BY OriginIs, SpanIs
  <2>2. Island(c, n) \in Nat BY IslandIs
  <2>3. Origin(c, n) \in 1 .. Span(c, n) BY <2>1
  <2> QED BY <1>1, <2>1, <2>2, <2>3
<1>3. \A n \in Heads : p.camera[n] = p.camera[m] => n = m BY <1>2, PlacesApart
<1>4. p.camera[m] \in Nat BY <1>2
<1> QED BY <1>2, <1>3, <1>4

\* Without a shared canvas a reef goes back to the monitor it came from.
LEMMA HomeIs ==
  ASSUME NEW c, ClassicType(c), NEW e, NEW p, Launched(c, e, p), NEW r \in Reefs(p), ~ SharedCanvas
  PROVE  ReefHead(p, p.reefs[r]) = TreesInLine(c)[r][1]
<1> DEFINE t == TreesInLine(c)[r]
           s == p.reefs[r].wins
<1>1. t \in InUse(c) /\ s = c.tree[t] /\ s # <<>> BY LaunchedReefs
<1> HIDE DEF t, s
<1>2. s \in Seq(Apps) BY <1>1, InUseIs DEF Orders
<1>3. 1 \in DOMAIN s /\ Head(s) = s[1] BY <1>1, <1>2
<1>4. Head(s) \in Range(c.tree[t]) BY <1>1, <1>3 DEF Range
<1>5. p.entry[Head(s)] = t[1] BY <1>1, <1>4 DEF Launched
<1>6. ReefHead(p, p.reefs[r]) = p.entry[Head(s)] BY <1>1 DEF ReefHead, s
<1> QED BY <1>5, <1>6 DEF t

\* A reef that goes to a monitor and is left of its camera is less than a
\* workspace's count of strides away.
LEMMA WithinReach ==
  ASSUME NEW c, ClassicType(c), NEW e, NEW p, Launched(c, e, p), NEW m \in Heads, NEW r \in Reefs(p),
         ReefHead(p, p.reefs[r]) = m, p.reefs[r].at <= p.camera[m]
  PROVE  p.camera[m] - p.reefs[r].at <= Numbered - 1
<1> DEFINE x == p.reefs[r].at
           far == p.camera[m]
<1>1. Numbered \in Nat /\ x \in Nat
  BY EsAssumption, LaunchedReefs DEF EsAssumption
<1>2. /\ far = Island(c, m) + Origin(c, m) - 1 /\ far \in Nat /\ Island(c, m) \in Nat
      /\ Origin(c, m) \in 1 .. Numbered
  BY CamerasApart, OriginIs
<1>3. CASE ~ SharedCanvas
  <2> DEFINE t == TreesInLine(c)[r]
  <2>1. t[1] = m BY <1>3, HomeIs
  <2>2. x = Island(c, t[1]) + t[2] - 1 /\ t[2] \in 1 .. Span(c, t[1]) BY LaunchedReefs
  <2> HIDE DEF t, x, far
  <2>3. Span(c, m) \in 1 .. Numbered BY SpanIs
  <2>4. x >= Island(c, m) BY <1>2, <2>1, <2>2, <2>3
  <2> QED BY <1>1, <1>2, <2>4 DEF x, far
<1>4. CASE SharedCanvas
  <2>1. NearestHead(p, x) = m BY <1>4 DEF ReefHead
  <2>2. OceanType(p) BY DEF Launched
  <2>3. \A n \in Heads : Away(far, x) <= Away(p.camera[n], x) BY <1>1, <2>1, <2>2, NearestHeadIs
  <2>4. CASE Nth(m) = 1
    <3>1. Island(c, m) = 0 BY <2>4, IslandIs
    <3> HIDE DEF x, far
    <3> QED BY <1>1, <1>2, <3>1 DEF x, far
  <2>5. CASE Nth(m) # 1
    <3> DEFINE n == MonitorOrder[Nth(m) - 1]
               near == p.camera[n]
    <3>1. /\ Nth(m) \in 1 .. Len(MonitorOrder) /\ Len(MonitorOrder) \in Nat
          /\ \A i \in 1 .. Len(MonitorOrder) : MonitorOrder[i] \in Heads /\ Nth(MonitorOrder[i]) = i
      BY NthIs
    <3>2. Nth(m) - 1 \in 1 .. Len(MonitorOrder) BY <2>5, <3>1
    <3>3. n \in Heads /\ Nth(m) = Nth(n) + 1 BY <3>1, <3>2
    <3> HIDE DEF n
    <3>4. Island(c, m) = Island(c, n) + Span(c, n) BY <3>3, IslandIs
    <3>5. /\ near = Island(c, n) + Origin(c, n) - 1 /\ near \in Nat /\ Island(c, n) \in Nat
          /\ Origin(c, n) \in 1 .. Span(c, n) /\ Span(c, n) \in 1 .. Numbered
      BY <3>3, CamerasApart
    <3>6. Away(far, x) <= Away(near, x) BY <2>3, <3>3
    <3>7. x <= far OBVIOUS
    <3> HIDE DEF near, x, far
    <3>8. near < far /\ far - near <= 2 * Numbered - 1 BY <1>1, <1>2, <3>4, <3>5
    <3>9. far - x <= near - x \/ far - x <= x - near BY <1>1, <1>2, <3>5, <3>6, <3>7 DEF Away
    <3>10. 2 * (far - x) <= 2 * Numbered - 1 BY <1>1, <1>2, <3>5, <3>8, <3>9
    <3>11. far - x <= Numbered - 1 BY <1>1, <1>2, <3>10
    <3> QED BY <3>11 DEF x, far
  <2> QED BY <2>4, <2>5
<1> QED BY <1>3, <1>4

\* The reef a monitor's camera is at goes back to that monitor, and takes a
\* number a workspace has.
LEMMA ViewIsDocked ==
  ASSUME NEW c, ClassicType(c), NEW e, NEW p, Launched(c, e, p), NEW m \in Heads,
         c.tree[<<m, Origin(c, m)>>] # <<>>
  PROVE  LET slots == Slots(p) IN
         \E k \in Reefs(p) :
           /\ slots[k].out = m /\ slots[k].desk \in Spaces
           /\ slots[k].wins = c.tree[<<m, Origin(c, m)>>]
           /\ NearestSlot(slots, m, p.camera[m]) = k
<1> DEFINE slots == Slots(p)
           line == ReefsInLine(p)
           trees == TreesInLine(c)
           t == <<m, Origin(c, m)>>
           x == p.camera[m]
<1>1. OceanType(p) /\ Numbered \in Nat \ {0} BY EsAssumption DEF Launched, EsAssumption
<1>2. /\ x = Island(c, m) + Origin(c, m) - 1 /\ x \in Nat
      /\ Origin(c, m) \in 1 .. Span(c, m) /\ Origin(c, m) \in 1 .. Numbered
  BY CamerasApart, OriginIs
<1>3. t \in InUse(c)
  <2>1. Origin(c, m) \in Spaces /\ Origin(c, m) # Scratchpad BY <1>1, <1>2 DEF Spaces, Scratchpad
  <2> QED BY <2>1 DEF InUse, Trees
<1>4. PICK r \in Reefs(p) : trees[r] = t
  <2>1. DOMAIN trees = Reefs(p) BY DEF Launched, Reefs
  <2> HIDE DEF trees
  <2> QED BY <1>3, <2>1, TreesInLineIs DEF trees
<1>5. /\ p.reefs[r].at = x /\ p.reefs[r].wins = c.tree[t]
      /\ \A q \in Reefs(p) : p.reefs[q].at = x => q = r
  <2>1. /\ p.reefs[r].at = Island(c, t[1]) + t[2] - 1 /\ p.reefs[r].wins = c.tree[t]
        /\ \A q \in Reefs(p) : p.reefs[q].at = p.reefs[r].at => q = r
    BY <1>4, LaunchedReefs
  <2>2. p.reefs[r].at = x BY <1>2, <2>1
  <2> HIDE DEF x, t
  <2> QED BY <2>1, <2>2
<1>6. ReefHead(p, p.reefs[r]) = m
  <2>1. CASE ~ SharedCanvas BY <1>4, <2>1, HomeIs
  <2>2. CASE SharedCanvas
    <3>1. /\ NearestHead(p, x) \in Heads
          /\ Away(p.camera[NearestHead(p, x)], x) <= Away(p.camera[m], x)
      BY <1>1, <1>2, NearestHeadIs
    <3> DEFINE n == NearestHead(p, x)
    <3>2. p.camera[n] \in Nat BY <1>1, <3>1 DEF OceanType
    <3>3. p.camera[n] = x
      <4> HIDE DEF n
      <4>1. Away(p.camera[n], x) <= Away(x, x) BY <3>1 DEF n
      <4> HIDE DEF x
      <4> QED BY <1>2, <3>2, <4>1 DEF Away
    <3>4. n = m BY <3>1, <3>3, CamerasApart
    <3> QED BY <1>5, <2>2, <3>4 DEF ReefHead
  <2> QED BY <2>1, <2>2
<1> HIDE DEF x, t, trees
<1>7. /\ Reefs(p) = 1 .. Len(p.reefs) /\ Len(p.reefs) \in Nat
      /\ \A i \in Reefs(p) : line[i] \in Reefs(p)
      /\ \A q \in Reefs(p) : \E i \in Reefs(p) : line[i] = q
      /\ \A i, j \in Reefs(p) : line[i] = line[j] => i = j
      /\ \A i, j \in Reefs(p) : i < j <=> Ahead(p, line[i], line[j])
      /\ \A q \in Reefs(p) : p.reefs[q].at \in Nat
  BY <1>1, ReefsInLineIs DEF Reef
<1>8. Docked(p) BY <1>1, SlotsAreDocked
<1>9. \A i \in Reefs(p) :
        /\ slots[i].out = ReefHead(p, p.reefs[line[i]]) /\ slots[i].at = p.reefs[line[i]].at
        /\ slots[i].wins = p.reefs[line[i]].wins /\ slots[i].desk \in Nat \ {0}
        /\ slots[i].desk = Cardinality({j \in 1 .. i : slots[j].out = slots[i].out})
  BY <1>8 DEF Docked
<1> HIDE DEF slots, line
<1>10. PICK k \in Reefs(p) : line[k] = r BY <1>7
<1>11. slots[k].out = m /\ slots[k].at = x /\ slots[k].wins = c.tree[t] BY <1>5, <1>6, <1>9, <1>10
<1>12. NearestSlot(slots, m, x) = k
  <2> DEFINE q == NearestSlot(slots, m, x)
  <2>1. /\ q \in Reefs(p) /\ slots[q].out = m
        /\ \A i \in Reefs(p) : slots[i].out = m => Away(slots[q].at, x) <= Away(slots[i].at, x)
    BY <1>1, <1>2, <1>11, NearestSlotIs DEF slots
  <2> HIDE DEF q
  <2>2. Away(slots[q].at, x) <= Away(x, x) BY <1>11, <2>1
  <2>3. line[q] \in Reefs(p) /\ slots[q].at = p.reefs[line[q]].at /\ slots[q].at \in Nat
    <3>1. line[q] \in Reefs(p) BY <1>7, <2>1
    <3>2. slots[q].at = p.reefs[line[q]].at BY <1>9, <2>1
    <3>3. p.reefs[line[q]].at \in Nat BY <1>7, <3>1
    <3> QED BY <3>1, <3>2, <3>3
  <2>4. slots[q].at = x BY <1>2, <2>2, <2>3 DEF Away
  <2>5. line[q] = r BY <1>5, <2>3, <2>4
  <2> QED BY <1>7, <1>10, <2>1, <2>5 DEF q
<1>13. ASSUME NEW b \in Reefs(p), NEW q \in Reefs(p), p.reefs[q].at = p.reefs[b].at PROVE q = b
  BY <1>13, LaunchedReefs
<1>14. slots[k].desk <= Numbered
  <2> DEFINE S == {j \in 1 .. k : slots[j].out = slots[k].out}
             low == x - Numbered + 1
             f == [j \in S |-> slots[j].at]
  <2>1. \A j \in S : j \in Reefs(p) /\ j \in Nat /\ j <= k /\ slots[j].out = m BY <1>7, <1>11
  <2>2. ASSUME NEW j \in S PROVE slots[j].at \in low .. x
    <3>1. j \in Reefs(p) /\ slots[j].at = p.reefs[line[j]].at /\ line[j] \in Reefs(p) /\ ReefHead(p, p.reefs[line[j]]) = m
      BY <1>7, <1>9, <2>1
    <3>2. slots[j].at <= x
      <4>1. ~ Ahead(p, line[k], line[j])
        <5>1. ~ k < j /\ k \in Nat BY <1>7, <2>1
        <5> QED BY <1>7, <3>1, <5>1
      <4>2. ~ x < p.reefs[line[j]].at BY <1>5, <1>10, <4>1 DEF Ahead
      <4>3. p.reefs[line[j]].at \in Nat BY <1>7, <3>1
      <4> QED BY <1>2, <3>1, <4>2, <4>3
    <3>3. x - p.reefs[line[j]].at <= Numbered - 1 BY <3>1, <3>2, WithinReach DEF x
    <3>4. slots[j].at \in Nat BY <1>7, <3>1
    <3> QED BY <1>1, <1>2, <3>1, <3>2, <3>3, <3>4
  <2>3. f \in Injection(S, low .. x)
    <3>1. \A i, j \in S : slots[i].at = slots[j].at => i = j
      <4> TAKE i, j \in S
      <4> HAVE slots[i].at = slots[j].at
      <4>1. i \in Reefs(p) /\ j \in Reefs(p) /\ line[i] \in Reefs(p) /\ line[j] \in Reefs(p) BY <1>7, <2>1
      <4>2. p.reefs[line[i]].at = p.reefs[line[j]].at BY <1>9, <4>1
      <4>3. line[i] = line[j] BY <1>13, <4>1, <4>2
      <4> QED BY <1>7, <4>1, <4>3
    <3> HIDE DEF S
    <3>2. f \in [S -> low .. x] BY <2>2
    <3>3. IsInjective(f) BY <3>1 DEF IsInjective
    <3> QED BY <3>2, <3>3 DEF Injection
  <2>4. low \in Int /\ x \in Int /\ x - low + 1 = Numbered /\ ~ low > x BY <1>1, <1>2
  <2>5. slots[k].desk = Cardinality(S) BY <1>9
  <2> HIDE DEF S, low, f
  <2>6. IsFiniteSet(low .. x) /\ Cardinality(low .. x) = Numbered BY <2>4, FS_Interval
  <2>7. Cardinality(S) <= Numbered BY <2>3, <2>6, FS_Injection
  <2> QED BY <2>5, <2>7
<1>15. slots[k].desk \in Spaces
  <2>1. slots[k].desk \in Nat \ {0} BY <1>9
  <2> QED BY <1>1, <1>14, <2>1 DEF Spaces, Scratchpad
<1> QED BY <1>11, <1>12, <1>15 DEF slots, x, t

LEMMA TheViewReturns ==
  ASSUME EsInv PROVE RoundTripKeepsTheView
<1> USE DEF EsInv
<1> DEFINE e == ToOcean(classic, ocean).classic
           p == ToOcean(classic, ocean).ocean
           back == ToClassic(e, p).classic
<1> SUFFICES ASSUME spatial = "classic", NEW m \in Heads, classic.tree[<<m, Origin(classic, m)>>] # <<>>
             PROVE  back.tree[<<m, back.active[m]>>] = classic.tree[<<m, Origin(classic, m)>>]
  BY DEF RoundTripKeepsTheView
<1>1. ClassicType(classic) /\ \A x \in Apps : Alone(classic, ocean, x) BY DEF Typed, OwnedRightly
<1>2. Launched(classic, e, p) BY <1>1, ToOceanIs
<1> HIDE DEF e, p
<1>3. ClassicType(e) /\ OceanType(p) BY <1>2 DEF Launched
<1>4. Landed(e, p, back) BY <1>3, ToClassicIs
<1> HIDE DEF back
<1>5. PICK k \in Reefs(p) :
        /\ Slots(p)[k].out = m /\ Slots(p)[k].desk \in Spaces
        /\ Slots(p)[k].wins = classic.tree[<<m, Origin(classic, m)>>]
        /\ NearestSlot(Slots(p), m, p.camera[m]) = k
  BY <1>1, <1>2, ViewIsDocked
<1>6. back.active[m] = Slots(p)[k].desk BY <1>4, <1>5 DEF Landed
<1>7. back.tree[<<Slots(p)[k].out, Slots(p)[k].desk>>] = Slots(p)[k].wins BY <1>4, <1>5 DEF Landed
<1> QED BY <1>5, <1>6, <1>7

\* Ownership holds together, whatever maps, swallows, unmaps, dies, moves or
\* migrates (xdg_shell.rs, migrate_spatial_engine): no window has two owners,
\* a live one has one, the engine that runs owns it, and Classic to Ocean and
\* back shows on each monitor what it showed before.
THEOREM WindowsAreOwnedOnce == EsSpec => []WindowsKeepTheirOwner
<1>1. EsInit => EsInv BY EsInitIsOwned
<1>2. EsInv /\ [EsNext]_esVars => EsInv' BY EsNextKeeps
<1>3. EsInv => WindowsKeepTheirOwner
  <2> SUFFICES ASSUME EsInv PROVE WindowsKeepTheirOwner OBVIOUS
  <2>1. EsTypeOK /\ LiveWindowsOwnedOnce BY OwnedOnce
  <2>2. RoundTripKeepsTheView BY TheViewReturns
  <2>3. EngineOwnsItsWindows BY DEF EsInv
  <2> QED BY <2>1, <2>2, <2>3 DEF WindowsKeepTheirOwner
<1> QED BY <1>1, <1>2, <1>3, PTL DEF EsSpec

-----------------------------------------------------------------------------
(* Nothing is rearranged.                                                  *)

\* A window put beside another that then leaves stands where that one stood.
LEMMA SwapInPlace ==
  ASSUME NEW s \in Orders, NEW x \in Apps, x \notin Range(s), NEW y \in Range(s)
  PROVE  Less(Beside(s, x, y), y) = [i \in DOMAIN s |-> IF s[i] = y THEN x ELSE s[i]]
<1> DEFINE n == Len(s)
           u == Beside(s, x, y)
           v == Less(u, y)
<1>1. s \in Seq(Apps) /\ DOMAIN s = 1 .. n /\ n \in Nat /\ IsInjective(s) BY DEF Orders
<1>2. PICK i \in 0 .. n :
        /\ u \in Seq(Apps) /\ Len(u) = n + 1
        /\ \A j \in 1 .. n + 1 : u[j] = IF j <= i THEN s[j] ELSE IF j = i + 1 THEN x ELSE s[j - 1]
        /\ y \in Range(s) => i # 0 /\ s[i] = y
  BY BesideIs
<1>3. u \in Orders BY BesideKeeps
<1> HIDE DEF n, u, v
<1>4. i \in 1 .. n /\ s[i] = y /\ i \in 1 .. n + 1 BY <1>1, <1>2
<1>5. u[i] = y /\ i \in DOMAIN u BY <1>1, <1>2, <1>4
<1>6. /\ v \in Seq(Apps) /\ Len(v) = n
      /\ \A j \in 1 .. n : v[j] = IF j < i THEN u[j] ELSE u[j + 1]
  <2>1. /\ Less(u, u[i]) \in Seq(Apps) /\ Len(Less(u, u[i])) = Len(u) - 1
        /\ \A j \in 1 .. Len(u) - 1 : Less(u, u[i])[j] = IF j < i THEN u[j] ELSE u[j + 1]
    BY <1>3, <1>5, LessIs
  <2>2. Len(u) - 1 = n /\ v = Less(u, u[i]) BY <1>1, <1>2, <1>5 DEF v
  <2> QED BY <2>1, <2>2
<1>7. ASSUME NEW j \in 1 .. n PROVE v[j] = IF s[j] = y THEN x ELSE s[j]
  <2>1. CASE j < i
    <3>1. s[j] # y BY <1>1, <1>4, <2>1 DEF IsInjective
    <3> QED BY <1>1, <1>2, <1>6, <2>1, <3>1
  <2>2. CASE j = i
    <3>1. v[j] = u[i + 1] /\ i + 1 \in 1 .. n + 1 BY <1>1, <1>4, <1>6, <2>2
    <3> QED BY <1>2, <1>4, <2>2, <3>1
  <2>3. CASE j > i
    <3>1. s[j] # y BY <1>1, <1>4, <2>3 DEF IsInjective
    <3>2. v[j] = u[j + 1] /\ j + 1 \in 1 .. n + 1 /\ j + 1 - 1 = j BY <1>1, <1>4, <1>6, <2>3
    <3>3. u[j + 1] = s[j] BY <1>2, <1>4, <2>3, <3>2
    <3> QED BY <3>1, <3>2, <3>3
  <2> QED BY <1>4, <2>1, <2>2, <2>3
<1>8. DOMAIN v = 1 .. n BY <1>6
<1>9. v = [j \in 1 .. n |-> IF s[j] = y THEN x ELSE s[j]] BY <1>6, <1>7, <1>8
<1> QED BY <1>1, <1>9 DEF v, u

LEMMA DetachGivesBack ==
  ASSUME EsInv, NEW x \in DOMAIN eaten, Detach(x), NEW t \in TileOf(classic, x)
  PROVE  LET s == classic.tree[t] IN
         classic'.tree[t] = [i \in DOMAIN s |-> IF s[i] = x THEN eaten[x].of ELSE s[i]]
<1> USE DEF EsInv
<1> DEFINE f == eaten[x].of
           s == classic.tree[t]
           g == TiledIn(classic, f, t, x)
<1>1. ClassicType(classic) /\ f \in Apps /\ x \in Apps /\ f \in Hidden /\ t \in Trees /\ x \in Range(s)
  BY DEF Typed, IsTable, Meal, Hidden, TileOf
<1>2. \A u \in TileOf(classic, x) : u = t BY <1>1 DEF OwnedRightly, Alone
<1>3. \A m : GiveBack(x, m) = g
  <2> TAKE m
  <2>1. TileOf(classic, x) # {} /\ (CHOOSE u \in TileOf(classic, x) : TRUE) = t BY <1>2
  <2> QED BY <2>1 DEF GiveBack
<1>4. PICK m \in Heads : classic' = Untiled(GiveBack(x, m), x) BY DEF Detach
<1>5. classic' = Untiled(g, x) BY <1>3, <1>4
<1>6. f \notin Range(s)
  <2>1. ~ Owned(classic, ocean, f) BY <1>1 DEF OwnedRightly
  <2> QED BY <1>1, <2>1 DEF Owned, TileOf
<1>7. ClassicType(g) /\ g.tree[t] = Beside(s, f, x) BY <1>1, <1>6, TiledInIs
<1> HIDE DEF g
<1>8. \A u \in Trees : Untiled(g, x).tree[u] = Less(g.tree[u], x) BY <1>7, UntiledIs
<1>9. classic'.tree[t] = Less(Beside(s, f, x), x) BY <1>1, <1>5, <1>7, <1>8
<1>10. s \in Orders BY <1>1 DEF ClassicType
<1> HIDE DEF s, f
<1>11. Less(Beside(s, f, x), x) = [i \in DOMAIN s |-> IF s[i] = x THEN f ELSE s[i]]
  BY <1>1, <1>6, <1>10, SwapInPlace
<1> QED BY <1>9, <1>11 DEF s, f

\* A window only stops hiding another where one of the two goes.
LEMMA MealEnds ==
  ASSUME EsInv, EsNext, NEW x \in DOMAIN eaten, x \notin DOMAIN eaten'
  PROVE  \E y \in Apps : Detach(y) /\ surface'[y] # "live" /\ (y = x \/ y = eaten[x].of)
<1>1. UNCHANGED eaten => FALSE OBVIOUS
<1>2. \A y, v : eaten' = Bind(eaten, y, v) => FALSE BY DEF Bind
<1>3. surface \in [Apps -> {"none", "unmapped", "live", "dead"}] BY DEF EsInv, Typed
<1>4. ASSUME NEW y \in Apps, Detach(y) PROVE y = x \/ y = eaten[x].of
  BY <1>4 DEF Detach, Lose
<1>5. ASSUME NEW y \in Apps, Destroyed(y) PROVE Detach(y) /\ surface'[y] # "live"
  BY <1>3, <1>5 DEF Destroyed
<1>6. ASSUME NEW y \in Apps, NEW buffer \in BOOLEAN, Commit(y, buffer)
      PROVE  Detach(y) /\ surface'[y] # "live"
  <2>1. CASE surface[y] = "unmapped" /\ buffer
    <3>1. IF spatial = "classic" THEN MapClassic(y) ELSE MapOcean(y) BY <1>6, <2>1 DEF Commit
    <3>2. ~ MapOcean(y) BY <1>1 DEF MapOcean
    <3>3. ~ MapClassic(y) BY <1>1, <1>2 DEF MapClassic, MapTiled
    <3> QED BY <3>1, <3>2, <3>3
  <2>2. CASE ~ (surface[y] = "unmapped" /\ buffer) /\ Mapped(y) /\ ~buffer
    <3>1. Detach(y) /\ surface' = [surface EXCEPT ![y] = "unmapped"] BY <1>6, <2>2 DEF Commit
    <3> QED BY <1>3, <3>1
  <2>3. CASE ~ (surface[y] = "unmapped" /\ buffer) /\ ~ (Mapped(y) /\ ~buffer)
    BY <1>1, <1>6, <2>3 DEF Commit
  <2> QED BY <2>1, <2>2, <2>3
<1>7. ~ SwitchEngine BY <1>1 DEF SwitchEngine
<1>8. \A y \in Apps : ~ NewToplevel(y) /\ ~ ToggleFloat(y) /\ ~ TogglePin(y) /\ \A d \in Spaces : ~ SendTo(y, d)
  BY <1>1 DEF NewToplevel, ToggleFloat, TogglePin, SendTo, Desktop
<1>9. \A m \in Heads : /\ \A d \in Spaces : ~ SwitchSpace(m, d)
                       /\ \A d \in 0 .. Len(MonitorOrder) * Numbered - 1 : ~ Travel(m, d)
  BY <1>1 DEF SwitchSpace, Travel, Desktop
<1>10. \E y \in Apps : Destroyed(y) \/ \E buffer \in BOOLEAN : Commit(y, buffer)
  BY <1>7, <1>8, <1>9 DEF EsNext
<1> QED BY <1>4, <1>5, <1>6, <1>10

LEMMA SwallowedReturns ==
  ASSUME EsInv, EsNext PROVE SwallowedComesBackInPlace
<1> SUFFICES ASSUME NEW x \in DOMAIN eaten, NEW t \in TileOf(classic, x), x \notin DOMAIN eaten',
                    surface'[eaten[x].of] = "live"
             PROVE  LET s == classic.tree[t] IN
                    classic'.tree[t] = [i \in DOMAIN s |-> IF s[i] = x THEN eaten[x].of ELSE s[i]]
  BY DEF SwallowedComesBackInPlace
<1>1. Detach(x) BY MealEnds
<1> QED BY <1>1, DetachGivesBack

\* Only a change of the engine changes which one runs.
LEMMA OthersKeepTheEngine ==
  ASSUME EsNext, spatial' # spatial PROVE SwitchEngine
<1>1. \A y \in Apps : /\ ~ NewToplevel(y) /\ ~ Destroyed(y) /\ ~ ToggleFloat(y) /\ ~ TogglePin(y)
                      /\ \A d \in Spaces : ~ SendTo(y, d)
  BY DEF NewToplevel, Destroyed, ToggleFloat, TogglePin, SendTo, Desktop
<1>2. \A y \in Apps, buffer \in BOOLEAN : ~ Commit(y, buffer) BY DEF Commit
<1>3. \A m \in Heads : /\ \A d \in Spaces : ~ SwitchSpace(m, d)
                       /\ \A d \in 0 .. Len(MonitorOrder) * Numbered - 1 : ~ Travel(m, d)
  BY DEF SwitchSpace, Travel, Desktop
<1> QED BY <1>1, <1>2, <1>3 DEF EsNext

LEMMA CompanyToOcean ==
  ASSUME EsInv, SwitchEngine, spatial = "classic" PROVE MigrationKeepsCompany
<1> USE DEF EsInv
<1>1. ClassicType(classic) /\ \A x \in Apps : Alone(classic, ocean, x) BY DEF Typed, OwnedRightly
<1> DEFINE e == ToOcean(classic, ocean).classic
           p == ToOcean(classic, ocean).ocean
<1>2. classic' = e /\ ocean' = p BY DEF SwitchEngine
<1>3. Launched(classic, e, p) BY <1>1, ToOceanIs
<1> HIDE DEF e, p
<1>4. /\ \A t \in Trees : classic'.tree[t] = IF t[2] = Scratchpad THEN classic.tree[t] ELSE <<>>
      /\ DOMAIN classic'.tag = DOMAIN classic.tag \ Leaving(classic)
      /\ \A x \in DOMAIN classic'.tag : classic'.tag[x] = classic.tag[x]
      /\ classic'.pinned = {}
      /\ DOMAIN ocean'.loose = Leaving(classic) /\ DOMAIN ocean'.pins = Leaving(classic) \cap classic.pinned
  BY <1>2, <1>3 DEF Launched
<1>5. Reefs(ocean) = {} /\ DOMAIN ocean.loose = {} /\ DOMAIN ocean.pins = {}
  BY DEF Deserted, Typed, OceanType
<1>6. Leaving(classic) \subseteq DOMAIN classic.tag /\ classic.pinned \subseteq Leaving(classic)
  BY <1>1 DEF Leaving, ClassicType
<1>7. ASSUME NEW t \in Trees, classic.tree[t] # <<>>
      PROVE  \/ \E u \in Trees : classic'.tree[u] = classic.tree[t]
             \/ \E r \in DOMAIN ocean'.reefs : ocean'.reefs[r].wins = classic.tree[t]
  <2>1. CASE t[2] = Scratchpad BY <1>4, <2>1
  <2>2. CASE t[2] # Scratchpad
    <3>1. t \in InUse(classic) BY <1>7, <2>2 DEF InUse
    <3>2. PICK r \in DOMAIN TreesInLine(classic) : TreesInLine(classic)[r] = t BY <3>1, TreesInLineIs
    <3>3. r \in Reefs(p) /\ DOMAIN p.reefs = Reefs(p) BY <1>3, <3>2 DEF Launched, Reefs
    <3>4. p.reefs[r].wins = classic.tree[t] BY <1>1, <1>3, <3>2, <3>3, LaunchedReefs
    <3> QED BY <1>2, <3>3, <3>4
  <2> QED BY <2>1, <2>2
<1>8. \A m \in Heads : classic'.tree[<<m, Scratchpad>>] = classic.tree[<<m, Scratchpad>>]
  <2>1. Scratchpad \in Spaces BY EsAssumption DEF EsAssumption, Spaces, Scratchpad
  <2> QED BY <1>4, <2>1 DEF Trees
<1>9. /\ DOMAIN classic.tag \cup DOMAIN ocean.loose = DOMAIN classic'.tag \cup DOMAIN ocean'.loose
      /\ classic.pinned \cup DOMAIN ocean.pins = classic'.pinned \cup DOMAIN ocean'.pins
  BY <1>4, <1>5, <1>6
<1>10. \A x \in DOMAIN classic.tag \ classic.pinned :
         classic.tag[x].desk = Scratchpad => x \in DOMAIN classic'.tag /\ classic'.tag[x] = classic.tag[x]
  BY <1>4 DEF Leaving
<1>11. \A s \in {classic.tree[t] : t \in Trees} \cup {ocean.reefs[r].wins : r \in Reefs(ocean)} :
         s # <<>> => \/ \E u \in Trees : classic'.tree[u] = s
                     \/ \E r \in DOMAIN ocean'.reefs : ocean'.reefs[r].wins = s
  BY <1>5, <1>7
<1> QED BY <1>8, <1>9, <1>10, <1>11 DEF MigrationKeepsCompany

LEMMA CompanyToClassic ==
  ASSUME EsInv, SwitchEngine, spatial = "ocean" PROVE MigrationKeepsCompany
<1> USE DEF EsInv
<1>1. ClassicType(classic) /\ OceanType(ocean) /\ \A x \in Apps : Alone(classic, ocean, x)
  BY DEF Typed, OwnedRightly
<1> DEFINE e == ToClassic(classic, ocean).classic
           slots == Slots(ocean)
<1>2. classic' = e /\ Fits(ocean) /\ ocean' = ToClassic(classic, ocean).ocean BY DEF SwitchEngine
<1>3. Landed(classic, ocean, e) BY <1>1, ToClassicIs
<1>4. DOMAIN ocean'.loose = {} /\ DOMAIN ocean'.pins = {} BY <1>2 DEF ToClassic, Nowhere
<1> HIDE DEF e
<1>5. \A i \in Reefs(ocean) : slots[i].desk \in 1 .. Numbered BY <1>1, <1>2, <1>3, LandedIsTyped
<1>6. Numbered \in Nat \ {0} BY EsAssumption DEF EsAssumption
<1>7. \A t \in Trees : t[2] = Scratchpad => classic'.tree[t] = classic.tree[t]
  <2> TAKE t \in Trees
  <2> HAVE t[2] = Scratchpad
  <2>1. \A i \in Reefs(ocean) : slots[i].desk # t[2] BY <1>5, <1>6 DEF Scratchpad
  <2>2. e.tree[t] = classic.tree[t] BY <1>3, <2>1 DEF Landed
  <2> QED BY <1>2, <2>2
<1>8. ASSUME NEW t \in Trees, classic.tree[t] # <<>>, Range(classic.tree[t]) \cap strays = {}
      PROVE  classic'.tree[t] = classic.tree[t]
  <2> DEFINE s == classic.tree[t]
  <2>1. s \in Seq(Apps) BY <1>1 DEF ClassicType, Orders
  <2>2. 1 \in DOMAIN s BY <1>8, <2>1
  <2>3. s[1] \in Apps \ strays /\ t \in TileOf(classic, s[1]) BY <1>8, <2>1, <2>2 DEF Range, TileOf
  <2>4. t[2] = Scratchpad BY <2>3 DEF EngineOwnsItsWindows
  <2> QED BY <1>7, <2>4
<1>9. ASSUME NEW r \in Reefs(ocean) PROVE \E t \in Trees : classic'.tree[t] = ocean.reefs[r].wins
  <2>1. PICK i \in Reefs(ocean) : ReefsInLine(ocean)[i] = r BY <1>1, ReefsInLineIs
  <2>2. slots[i].out \in Heads /\ slots[i].wins = ocean.reefs[r].wins BY <1>1, <2>1, SlotsAreDocked DEF Docked
  <2>3. slots[i].desk \in Spaces BY <1>5, <1>6 DEF Spaces, Scratchpad
  <2>4. e.tree[<<slots[i].out, slots[i].desk>>] = slots[i].wins BY <1>3, <2>3 DEF Landed
  <2>5. <<slots[i].out, slots[i].desk>> \in Trees BY <2>2, <2>3 DEF Trees
  <2> QED BY <1>2, <2>2, <2>4, <2>5
<1>10. \A s \in {classic.tree[t] : t \in Trees} \cup {ocean.reefs[r].wins : r \in Reefs(ocean)} :
         s # <<>> /\ Range(s) \cap strays = {} => \E u \in Trees : classic'.tree[u] = s
  BY <1>8, <1>9
<1>11. \A m \in Heads : classic'.tree[<<m, Scratchpad>>] = classic.tree[<<m, Scratchpad>>]
  <2>1. Scratchpad \in Spaces BY <1>6 DEF Spaces, Scratchpad
  <2> QED BY <1>7, <2>1 DEF Trees
<1>12. /\ DOMAIN e.tag = DOMAIN classic.tag \cup DOMAIN ocean.loose
       /\ \A x \in DOMAIN classic.tag \ DOMAIN ocean.loose : e.tag[x] = classic.tag[x]
       /\ e.pinned = classic.pinned \cup DOMAIN ocean.pins
  BY <1>3 DEF Landed
<1>13. /\ DOMAIN classic.tag \cup DOMAIN ocean.loose = DOMAIN classic'.tag \cup DOMAIN ocean'.loose
       /\ classic.pinned \cup DOMAIN ocean.pins = classic'.pinned \cup DOMAIN ocean'.pins
  BY <1>2, <1>4, <1>12
<1>14. \A x \in DOMAIN classic.tag : x \in DOMAIN classic'.tag /\ classic'.tag[x] = classic.tag[x]
  <2>1. \A x \in DOMAIN classic.tag : x \in Apps BY <1>1 DEF ClassicType, IsTable
  <2>2. \A x \in DOMAIN classic.tag : x \notin DOMAIN ocean.loose BY <1>1, <2>1 DEF Alone
  <2> QED BY <1>2, <1>12, <2>2
<1> QED BY <1>10, <1>11, <1>13, <1>14 DEF MigrationKeepsCompany

\* Nothing is rearranged behind the user's back (the two translations of
\* ocean.rs; restore_swallowed): an engine change keeps the windows of a
\* workspace together and in order, floating and pinned ones as they are and
\* the scratchpads shut, and a window that gives its place back gives that one.
THEOREM NothingIsRearranged == EsSpec => PlacesAreKept
<1>1. EsInit => EsInv BY EsInitIsOwned
<1>2. EsInv /\ [EsNext]_esVars => EsInv' BY EsNextKeeps
<1>3. EsInv /\ [EsNext]_esVars => [MigrationKeepsCompany /\ SwallowedComesBackInPlace]_esVars
  <2> SUFFICES ASSUME EsInv, EsNext PROVE MigrationKeepsCompany /\ SwallowedComesBackInPlace
    OBVIOUS
  <2>1. SwallowedComesBackInPlace BY SwallowedReturns
  <2>2. CASE spatial' = spatial BY <2>1, <2>2 DEF MigrationKeepsCompany
  <2>3. CASE spatial' # spatial
    <3>1. SwitchEngine BY <2>3, OthersKeepTheEngine
    <3>2. spatial \in {"classic", "ocean"} BY DEF EsInv, Typed
    <3> QED BY <2>1, <3>1, <3>2, CompanyToOcean, CompanyToClassic
  <2> QED BY <2>1, <2>2, <2>3
<1> QED BY <1>1, <1>2, <1>3, PTL DEF EsSpec, PlacesAreKept
=============================================================================
