---------------------------- MODULE ServicesProofs ----------------------------
(***************************************************************************)
(* Proofs about the components that have work of their own under way, for  *)
(* any outputs, clients, sessions, streams and files: what a locked        *)
(* session lets a capture show, where a capture waits until it is answered *)
(* and how many may wait, the one picture a stream has on order, who owns  *)
(* a PipeWire thread, and what the file watcher knows.                     *)
(*                                                                         *)
(* Each theorem is about the specification of its own component, which the *)
(* behaviours of MCServices implement.                                     *)
(***************************************************************************)
EXTENDS MCServices, FiniteSetTheorems, NaturalsInduction, WellFoundedInduction, SequenceTheorems, TLAPS

-----------------------------------------------------------------------------
(* One picture on order *)

CfTyped ==
  /\ onOrder \in BOOLEAN /\ ended \in BOOLEAN
  /\ asking \in {"idle", "request", "swap", "send", "publish", "close", "empty", "release"}
  /\ filling \in {"no", "load", "store", "release", "close"}
  /\ inbox \in Nat /\ waiting \in Nat

\* Whoever holds the order shows as onOrder, but for a stream that closed itself
\* while its picture was under way: then nobody is about to swap again, and what
\* empties the slot and releases the order does so after the flag went up.
OrderShows ==
  /\ Outstanding = 1 => onOrder \/ (ended /\ asking # "swap")
  /\ asking \in {"empty", "release"} => ended

CfInv == CfTyped /\ Outstanding <= 1 /\ OrderShows

LEMMA CfInvIsOneOrder == CfInv => OneOrder
  BY SMT DEF CfInv, CfTyped, Outstanding, OrderShows, OneOrder

LEMMA CfInitInv == CfInit => CfInv
<1> SUFFICES ASSUME CfInit PROVE CfInv
  OBVIOUS
<1>1. CfTyped BY DEF CfInit, CfTyped
<1>2. Outstanding = 0 BY SMT DEF CfInit, Outstanding
<1>3. OrderShows BY <1>2, SMT DEF CfInit, OrderShows
<1> QED BY <1>1, <1>2, <1>3, SMT DEF CfInv

LEMMA CfStep ==
  ASSUME CfInv, [CfNext]_cfVars
  PROVE  CfInv' /\ (ended /\ asking = "idle" => inbox' <= inbox)
<1> USE DEF CfInv, CfTyped, Outstanding, OrderShows, streamSide, compositorSide
<1>1. CASE Turn \/ StreamStops BY <1>1, SMT DEF Turn, StreamStops
<1>2. CASE LoadClosed \/ SwapPending \/ Send
  <2>1. CASE LoadClosed BY <2>1, SMT DEF LoadClosed
  <2>2. CASE SwapPending BY <2>2, SMT DEF SwapPending
  <2>3. CASE Send BY <2>3, SMT DEF Send
  <2> QED BY <1>2, <2>1, <2>2, <2>3
<1>3. CASE Publish \/ CloseHere \/ EmptyHere \/ ReleaseHere
  <2>1. CASE Publish BY <2>1, SMT DEF Publish
  <2>2. CASE CloseHere BY <2>2, SMT DEF CloseHere
  <2>3. CASE EmptyHere BY <2>3, SMT DEF EmptyHere
  <2>4. CASE ReleaseHere
    <3>a. onOrder' = FALSE BY <2>4 DEF ReleaseHere
    <3>b. onOrder' \in BOOLEAN BY ONLY <3>a, Zenon
    <3>c. /\ ended' \in BOOLEAN /\ inbox' \in Nat /\ waiting' \in Nat
          /\ asking' \in {"idle", "request", "swap", "send", "publish", "close", "empty", "release"}
          /\ filling' \in {"no", "load", "store", "release", "close"}
      BY <2>4, SMT DEF ReleaseHere
    <3>1. CfTyped' BY <3>b, <3>c, Zenon
    <3>2. Outstanding' <= 1 /\ (Outstanding' = 1 => Outstanding = 1 /\ ended /\ asking # "send")
      BY <2>4, SMT DEF ReleaseHere
    <3>3. OrderShows' BY <2>4, <3>2, SMT DEF ReleaseHere
    <3>4. asking = "idle" => inbox' <= inbox BY <2>4, SMT DEF ReleaseHere
    <3> QED BY ONLY <3>1, <3>2, <3>3, <3>4, Zenon DEF CfInv
  <2> QED BY <1>3, <2>1, <2>2, <2>3, <2>4
<1>4. CASE Receive
  <2>1. CASE waiting' = waiting + 1 /\ filling' = filling BY <1>4, <2>1, SMT DEF Receive
  <2>2. CASE filling' \in {"release", "close"} /\ waiting' = waiting
    BY <1>4, <2>2, SMT DEF Receive
  <2> QED BY <1>4, <2>1, <2>2 DEF Receive
<1>5. CASE Capture BY <1>5, SMT DEF Capture
<1>6. CASE LoadEnded \/ StoreSlot \/ ClearPending \/ CloseThere
  <2>1. CASE LoadEnded BY <2>1, SMT DEF LoadEnded
  <2>2. CASE StoreSlot BY <2>2, SMT DEF StoreSlot
  <2>3. CASE ClearPending
    <3>a. onOrder' = FALSE BY <2>3 DEF ClearPending
    <3>b. onOrder' \in BOOLEAN BY ONLY <3>a, Zenon
    <3>c. /\ ended' \in BOOLEAN /\ inbox' \in Nat /\ waiting' \in Nat
          /\ asking' \in {"idle", "request", "swap", "send", "publish", "close", "empty", "release"}
          /\ filling' \in {"no", "load", "store", "release", "close"}
      BY <2>3, SMT DEF ClearPending
    <3>1. CfTyped' BY <3>b, <3>c, Zenon
    <3>2. Outstanding' <= 1 /\ Outstanding' = 0
      BY <2>3, SMT DEF ClearPending
    <3>3. OrderShows' BY <2>3, <3>2, SMT DEF ClearPending
    <3>4. asking = "idle" => inbox' <= inbox BY <2>3, SMT DEF ClearPending
    <3> QED BY ONLY <3>1, <3>2, <3>3, <3>4, Zenon DEF CfInv
  <2>4. CASE CloseThere BY <2>4, SMT DEF CloseThere
  <2> QED BY <1>6, <2>1, <2>2, <2>3, <2>4
<1>7. CASE Resize BY <1>7, SMT DEF Resize
<1>8. CASE UNCHANGED cfVars BY <1>8, SMT DEF cfVars
<1> QED
  BY <1>1, <1>2, <1>3, <1>4, <1>5, <1>6, <1>7, <1>8 DEF CfNext, CfStream, CfCompositor

(* A stream has at most one picture on order, whoever holds it, and once it *)
(* ended it orders no more (FrameTarget::request, complete and close).      *)
THEOREM OneOrderAtATime == CfSpec => StreamOrders
<1>1. CfInit => CfInv BY CfInitInv
<1>2. CfInv /\ [CfNext]_cfVars
        => CfInv' /\ (OneOrder' /\ (ended /\ asking = "idle" => inbox' <= inbox))
  <2> SUFFICES ASSUME CfInv, [CfNext]_cfVars
               PROVE  CfInv' /\ (OneOrder' /\ (ended /\ asking = "idle" => inbox' <= inbox))
    OBVIOUS
  <2>1. CfInv' /\ (ended /\ asking = "idle" => inbox' <= inbox) BY CfStep
  <2>2. OneOrder' BY <2>1, CfInvIsOneOrder, PTL
  <2> QED BY <2>1, <2>2
<1> QED BY <1>1, <1>2, PTL DEF CfSpec, StreamOrders

-----------------------------------------------------------------------------
(* What a locked session lets a capture show *)

\* The record of the shots is always one of all of them.
ShotsKept == shot = [s \in Shots |-> shot[s]]

\* A picture other than the lock screen's comes from before the lock: it was there,
\* or its fence was being waited for; and what starts to wait shows the lock screen.
Hides ==
  /\ \A s \in Shots : shot'[s] \in Pictures \ {"lock"} => shot[s] = shot'[s] \/ s \in DOMAIN fenced
  /\ \A s \in DOMAIN fenced' \ DOMAIN fenced : fenced'[s] = "lock"

\* Under a lock render_one_capture draws the lock screen or nothing.
LEMMA DrawnUnderLock ==
  ASSUME locked, NEW kind
  PROVE  Drawn(kind) \in {"lock", "failed"}
<1>1. CASE kind = "window" BY <1>1 DEF Drawn
<1>2. CASE kind # "window" BY <1>2 DEF Drawn
<1> QED BY <1>1, <1>2

\* A step that answers shots with anything but a picture hides what is locked.
LEMMA NoNewPicture ==
  ASSUME UNCHANGED fenced,
         \A s \in Shots : shot'[s] = shot[s] \/ shot'[s] \notin Pictures
  PROVE  Hides
  BY DEF Hides

LEMMA AnsweredKeeps ==
  ASSUME NEW S, NEW how, Answered(S, how)
  PROVE  ShotsKept' /\ \A s \in Shots : shot'[s] = shot[s] \/ shot'[s] = how
  BY DEF Answered, ShotsKept

LEMMA EnqueueKeeps ==
  ASSUME NEW capture, NEW owners, Enqueue(capture, owners)
  PROVE  ShotsKept' /\ Hides
<1>1. CASE Refused(capture.out, owners)
  <2>1. Answered(capture.ids, "failed") /\ UNCHANGED fenced BY <1>1 DEF Enqueue
  <2> QED BY <2>1, AnsweredKeeps, NoNewPicture DEF Pictures
<1>2. CASE ~Refused(capture.out, owners)
  <2>1. /\ shot' = [s \in Shots |-> IF s \in capture.ids THEN "asked" ELSE shot[s]]
        /\ UNCHANGED fenced
    BY <1>2 DEF Enqueue
  <2> QED BY <2>1, NoNewPicture DEF Pictures, ShotsKept
<1> QED BY <1>1, <1>2

LEMMA RenderKeeps ==
  ASSUME NEW o, NEW broken, NEW late, Render(o, broken, late)
  PROVE  ShotsKept' /\ (locked => Hides)
<1> DEFINE all == FanOut(o)
           n == Min({Len(all), MaxDrawn})
           now == SubSeq(all, 1, n)
           outcome == [s \in Ids(now) |->
             LET i == CHOOSE j \in DOMAIN now : s \in now[j].ids
             IN IF i \in broken THEN "failed" ELSE Drawn(now[i].kind)]
<1> HIDE DEF all, n, now
<1>1. /\ late \subseteq {s \in Ids(now) : outcome[s] /= "failed"}
      /\ fenced' = [s \in DOMAIN fenced \cup late |-> IF s \in late THEN outcome[s] ELSE fenced[s]]
      /\ shot' = [s \in Shots |-> IF s \in Ids(now) \ late THEN outcome[s] ELSE shot[s]]
  BY DEF Render, all, n, now
<1> SUFFICES ASSUME locked PROVE Hides
  BY <1>1 DEF ShotsKept
<1>2. \A s \in Ids(now) : outcome[s] \in {"lock", "failed"}
  BY DrawnUnderLock
<1> HIDE DEF outcome
<1>3. \A s \in Shots : shot'[s] \in Pictures \ {"lock"} => shot'[s] = shot[s]
  BY <1>1, <1>2 DEF Pictures
<1>4. DOMAIN fenced' = DOMAIN fenced \cup late
  BY <1>1
<1>5. ASSUME NEW s \in DOMAIN fenced' \ DOMAIN fenced PROVE fenced'[s] = "lock"
  BY <1>1, <1>2, <1>4
<1> QED BY <1>3, <1>5 DEF Hides

\* A step that leaves the requests alone, or answers none of them.
LEMMA CpStep ==
  ASSUME ShotsKept, [CpNext]_cpVars
  PROVE  ShotsKept' /\ (locked => Hides)
<1>1. CASE UNCHANGED <<shot, fenced>>
  BY <1>1, NoNewPicture DEF ShotsKept
<1>2. CASE \E a \in Askers : ClientGone(a)
  BY <1>2, NoNewPicture DEF ClientGone, ShotsKept, Pictures
<1>3. CASE \E s \in Shots, o \in Displays, k \in Kinds : Copy(s, o, k)
  <2> PICK s \in Shots, o \in Displays, k \in Kinds : Copy(s, o, k) BY <1>3
  <2>1. CASE shot' = [shot EXCEPT ![s] = "failed"] /\ UNCHANGED fenced
    BY <2>1, NoNewPicture DEF ShotsKept, Pictures
  <2>2. CASE Enqueue([kind |-> k, out |-> o, ids |-> {s}], {ShotOwner[s]})
    BY <2>2, EnqueueKeeps
  <2> QED BY <2>1, <2>2 DEF Copy
<1>4. CASE \E s \in Shots : NewFrame(s)
  BY <1>4, NoNewPicture DEF NewFrame, ShotsKept, Pictures
<1>5. CASE \E s \in Streams : RequestFrame(s)
  <2> PICK s \in Streams : RequestFrame(s) BY <1>5
  <2>1. CASE StreamOf[s] \in mapped
    BY <2>1, EnqueueKeeps DEF RequestFrame
  <2>2. CASE StreamOf[s] \notin mapped BY <2>2, <1>1 DEF RequestFrame
  <2> QED BY <2>1, <2>2
<1>6. CASE \E o \in Displays : DrawSome(o)
  BY <1>6, RenderKeeps DEF DrawSome
<1>7. ASSUME NEW outs, GiveUp(outs) PROVE ShotsKept' /\ Hides
  <2>1. UNCHANGED fenced /\ \E S : Answered(S, "failed") BY <1>7 DEF GiveUp
  <2> QED BY <2>1, AnsweredKeeps, NoNewPicture DEF Pictures
<1>8. CASE \E s \in Shots : FenceReached(s)
  <2> PICK s \in Shots : FenceReached(s) BY <1>8
  <2>1. /\ s \in DOMAIN fenced /\ DOMAIN fenced' \subseteq DOMAIN fenced
        /\ Answered({s}, fenced[s])
    BY DEF FenceReached, Restrict
  <2>2. \A t \in Shots : shot'[t] = shot[t] \/ t \in DOMAIN fenced
    BY <2>1 DEF Answered
  <2>3. ShotsKept' BY <2>1, AnsweredKeeps
  <2> QED BY <2>1, <2>2, <2>3 DEF Hides
<1>9. CASE UNCHANGED cpVars BY <1>1, <1>9 DEF cpVars
<1>10. CASE \/ SetLocked \/ SwitchVt \/ CloseWindow
            \/ \E o \in Displays : SetPower(o) \/ Unplug(o)
  BY <1>1, <1>10 DEF SetLocked, SwitchVt, CloseWindow, SetPower, Unplug
<1> QED
  BY <1>2, <1>3, <1>4, <1>5, <1>6, <1>7, <1>8, <1>9, <1>10
  DEF CpNext, CpWorld, CpAsk, CpServe, FailUnlit, CleanUp

(* A frame drawn for a client while the session is locked never shows a     *)
(* window or the desktop, however long before the lock it was asked for     *)
(* (render_one_capture looks at the lock when it draws, not at the queue).  *)
THEOREM LockedCapturesHideTheDesktop == CpSpec => LockHidesCaptures
<1>1. CpInit => ShotsKept BY DEF CpInit, ShotsKept
<1>2. ShotsKept /\ [CpNext]_cpVars => ShotsKept' /\ (locked => Hides)
  BY CpStep
<1> QED BY <1>1, <1>2, PTL DEF CpSpec, LockHidesCaptures, Hides

-----------------------------------------------------------------------------
(* The queue of captures *)

\* Every set of natural numbers has a least element.
LEMMA Lowest ==
  ASSUME NEW S \in SUBSET Nat, S # {}
  PROVE  \E m \in S : \A k \in S : m <= k
<1>1. \E m \in S : \A k \in S : ~ (<<k, m>> \in OpToRel(<, Nat))
  BY NatLessThanWellFounded, WFMin
<1>2. PICK m \in S : \A k \in S : ~ (k < m) BY <1>1, Zenon DEF OpToRel
<1>3. \A k \in S : m <= k BY <1>2
<1> QED BY <1>3

\* The recursion of Only, as far as n.
Keeping(s, T, n, f) ==
  f = [i \in 0 .. n |-> IF i = 0 THEN <<>>
                        ELSE IF s[i] \in T THEN Append(f[i - 1], s[i]) ELSE f[i - 1]]

LEMMA KeepingExists ==
  ASSUME NEW s, NEW T, NEW n \in Nat
  PROVE  \E f : Keeping(s, T, n, f)
<1> DEFINE Bad == {m \in Nat : ~\E f : Keeping(s, T, m, f)}
<1>1. SUFFICES ASSUME Bad # {} PROVE FALSE BY Zenon
<1>2. PICK m \in Bad : \A k \in Bad : m <= k
  <2>1. Bad \in SUBSET Nat OBVIOUS
  <2> HIDE DEF Bad
  <2> QED BY <1>1, <2>1, Lowest
<1>3. m \in Nat /\ \A k \in Nat : k < m => k \notin Bad BY <1>2
<1>4. CASE m = 0
  <2> DEFINE f == [i \in 0 .. m |-> <<>>]
  <2>1. f = [i \in 0 .. m |-> IF i = 0 THEN <<>>
                              ELSE IF s[i] \in T THEN Append(f[i - 1], s[i]) ELSE f[i - 1]]
    BY <1>4
  <2>2. Keeping(s, T, m, f) BY <2>1 DEF Keeping
  <2> QED BY <2>2
<1>5. CASE m # 0
  <2>1. m \in Nat /\ m - 1 \in Nat /\ m - 1 < m BY <1>5
  <2>2. m - 1 \notin Bad
    <3> HIDE DEF Bad
    <3> QED BY <1>3, <2>1
  <2>3. PICK g : Keeping(s, T, m - 1, g) BY <2>1, <2>2
  <2> DEFINE step(x, i) == IF s[i] \in T THEN Append(x, s[i]) ELSE x
             f == [i \in 0 .. m |-> IF i = m THEN step(g[m - 1], m) ELSE g[i]]
  <2>4. g = [i \in 0 .. m - 1 |-> IF i = 0 THEN <<>> ELSE step(g[i - 1], i)]
    BY <2>3 DEF Keeping
  <2> HIDE DEF step
  <2>5. f = [i \in 0 .. m |-> IF i = 0 THEN <<>> ELSE step(f[i - 1], i)]
    <3>1. ASSUME NEW i \in 0 .. m
          PROVE  f[i] = IF i = 0 THEN <<>> ELSE step(f[i - 1], i)
      <4>1. CASE i = m BY <1>5, <2>1, <4>1
      <4>2. CASE i # m
        <5>1. i \in 0 .. m - 1 BY <2>1, <3>1, <4>2
        <5>2. f[i] = g[i] BY <4>2
        <5>3. i # 0 => f[i - 1] = g[i - 1] BY <2>1, <5>1
        <5> QED BY <2>4, <5>1, <5>2, <5>3
      <4> QED BY <4>1, <4>2
    <3>2. f = [i \in 0 .. m |-> f[i]] OBVIOUS
    <3> HIDE DEF f
    <3> QED BY <3>1, <3>2
  <2>6. Keeping(s, T, m, f) BY <2>5 DEF Keeping, step
  <2> HIDE DEF f
  <2> QED BY <2>6
<1> QED BY <1>4, <1>5

\* t is what T leaves of the first n entries of s: h says where each comes from.
Picks(s, T, n, t) ==
  \E h \in [1 .. Len(t) -> {j \in 1 .. n : s[j] \in T}] :
    /\ \A k \in 1 .. Len(t) : t[k] = s[h[k]]
    /\ \A k, l \in 1 .. Len(t) : h[k] = h[l] => k = l
    /\ \A j \in 1 .. n : s[j] \in T => \E k \in 1 .. Len(t) : h[k] = j

LEMMA PicksOneMore ==
  ASSUME NEW E, NEW s \in Seq(E), NEW T, NEW n \in Nat, n + 1 <= Len(s),
         NEW t \in Seq(E), Picks(s, T, n, t)
  PROVE  IF s[n + 1] \in T
         THEN Append(t, s[n + 1]) \in Seq(E) /\ Picks(s, T, n + 1, Append(t, s[n + 1]))
         ELSE Picks(s, T, n + 1, t)
<1> PICK h \in [1 .. Len(t) -> {j \in 1 .. n : s[j] \in T}] :
      /\ \A k \in 1 .. Len(t) : t[k] = s[h[k]]
      /\ \A k, l \in 1 .. Len(t) : h[k] = h[l] => k = l
      /\ \A j \in 1 .. n : s[j] \in T => \E k \in 1 .. Len(t) : h[k] = j
  BY DEF Picks
<1>1. Len(t) \in Nat /\ 1 .. n + 1 = (1 .. n) \cup {n + 1} BY LenProperties
<1>2. CASE s[n + 1] \notin T
  <2>1. {j \in 1 .. n + 1 : s[j] \in T} = {j \in 1 .. n : s[j] \in T} BY <1>1, <1>2
  <2>2. \A j \in 1 .. n + 1 : s[j] \in T => \E k \in 1 .. Len(t) : h[k] = j BY <1>1, <1>2
  <2> QED BY <1>2, <2>1, <2>2 DEF Picks
<1>3. CASE s[n + 1] \in T
  <2> DEFINE u == Append(t, s[n + 1])
             g == [k \in 1 .. Len(t) + 1 |-> IF k = Len(t) + 1 THEN n + 1 ELSE h[k]]
             D == {j \in 1 .. n + 1 : s[j] \in T}
  <2>1. s[n + 1] \in E BY ElementOfSeq
  <2>2. /\ u \in Seq(E) /\ Len(u) = Len(t) + 1 /\ u[Len(t) + 1] = s[n + 1]
        /\ \A k \in 1 .. Len(t) : u[k] = t[k]
    BY <2>1, AppendProperties
  <2>3. 1 .. Len(t) + 1 = (1 .. Len(t)) \cup {Len(t) + 1} /\ Len(t) + 1 \notin 1 .. Len(t)
    BY <1>1
  <2>4. \A k \in 1 .. Len(t) : h[k] \in 1 .. n /\ s[h[k]] \in T OBVIOUS
  <2>5. /\ g[Len(t) + 1] = n + 1
        /\ \A k \in 1 .. Len(t) : g[k] = h[k]
    BY <2>3
  <2>6. g \in [1 .. Len(t) + 1 -> D] BY <1>1, <1>3, <2>3, <2>4
  <2> HIDE DEF u, g, D
  <2>7. \A k \in 1 .. Len(t) + 1 : u[k] = s[g[k]] BY <2>2, <2>3, <2>5
  <2>8. \A k \in 1 .. Len(t) : h[k] # n + 1 BY <2>4
  <2>9. \A k, l \in 1 .. Len(t) + 1 : g[k] = g[l] => k = l BY <2>3, <2>5, <2>8
  <2>10. \A j \in 1 .. n + 1 : s[j] \in T => \E k \in 1 .. Len(t) + 1 : g[k] = j
    BY <1>1, <2>3, <2>5
  <2>11. /\ g \in [1 .. Len(u) -> D]
         /\ \A k \in 1 .. Len(u) : u[k] = s[g[k]]
         /\ \A k, l \in 1 .. Len(u) : g[k] = g[l] => k = l
         /\ \A j \in 1 .. n + 1 : s[j] \in T => \E k \in 1 .. Len(u) : g[k] = j
    BY <2>2, <2>6, <2>7, <2>9, <2>10
  <2>12. Picks(s, T, n + 1, u) BY ONLY <2>11, Zenon DEF Picks, D
  <2> QED BY <1>3, <2>2, <2>12 DEF u
<1> QED BY <1>2, <1>3

\* Only keeps the entries of T, once each and no other.
LEMMA OnlyPicks ==
  ASSUME NEW E, NEW s \in Seq(E), NEW T
  PROVE  Only(s, T) \in Seq(E) /\ Picks(s, T, Len(s), Only(s, T))
<1> DEFINE n == Len(s)
           f == CHOOSE g : Keeping(s, T, n, g)
<1>1. n \in Nat BY LenProperties
<1>2. Only(s, T) = f[n] BY DEF Only, Keeping
<1>3. Keeping(s, T, n, f) BY <1>1, KeepingExists
<1>4. \A i \in 0 .. n : f[i] = IF i = 0 THEN <<>>
                               ELSE IF s[i] \in T THEN Append(f[i - 1], s[i]) ELSE f[i - 1]
  BY <1>3, Zenon DEF Keeping
<1> HIDE DEF f
<1> DEFINE Bad == {i \in 0 .. n : ~(f[i] \in Seq(E) /\ Picks(s, T, i, f[i]))}
<1>5. Bad = {}
  <2>1. SUFFICES ASSUME Bad # {} PROVE FALSE OBVIOUS
  <2>2. PICK m \in Bad : \A k \in Bad : m <= k
    <3>1. Bad \in SUBSET Nat BY <1>1
    <3> HIDE DEF Bad
    <3> QED BY <2>1, <3>1, Lowest
  <2>3. CASE m = 0
    <3>1. f[0] = <<>> BY <1>1, <1>4
    <3>2. <<>> \in Seq(E) /\ Len(<<>>) = 0 BY EmptySeq
    <3> DEFINE h == [k \in {} |-> k]
    <3>3. 1 .. 0 = {} OBVIOUS
    <3>4. h \in [{} -> {j \in {} : s[j] \in T}] OBVIOUS
    <3> HIDE DEF h
    <3>5. Picks(s, T, 0, <<>>) BY <3>2, <3>3, <3>4 DEF Picks
    <3> QED BY <2>2, <2>3, <3>1, <3>2, <3>5
  <2>4. CASE m # 0
    <3>1. m \in 1 .. n /\ m - 1 \in 0 .. n /\ ~(m <= m - 1) /\ (m - 1) + 1 = m /\ m - 1 \in Nat
      BY <1>1, <2>2, <2>4
    <3>2. m - 1 \notin Bad
      <4> HIDE DEF Bad
      <4> QED BY <2>2, <3>1
    <3>3. f[m - 1] \in Seq(E) /\ Picks(s, T, m - 1, f[m - 1]) BY <3>1, <3>2
    <3>4. f[m] = IF s[m] \in T THEN Append(f[m - 1], s[m]) ELSE f[m - 1]
      BY <1>4, <2>4, <3>1
    <3>5. (m - 1) + 1 <= Len(s) BY <1>1, <3>1
    <3>6. IF s[(m - 1) + 1] \in T
          THEN Append(f[m - 1], s[(m - 1) + 1]) \in Seq(E)
               /\ Picks(s, T, (m - 1) + 1, Append(f[m - 1], s[(m - 1) + 1]))
          ELSE Picks(s, T, (m - 1) + 1, f[m - 1])
      BY <3>1, <3>3, <3>5, PicksOneMore
    <3>7. f[m] \in Seq(E) /\ Picks(s, T, m, f[m]) BY <3>1, <3>3, <3>4, <3>6
    <3> QED BY <2>2, <3>7
  <2> QED BY <2>3, <2>4
<1>6. n \notin Bad BY <1>5
<1>7. f[n] \in Seq(E) /\ Picks(s, T, n, f[n]) BY <1>1, <1>6
<1> QED BY <1>2, <1>7

\* What queue_capture puts in the queue.
Entry == [kind : Kinds, out : Displays, ids : SUBSET (Shots \cup Streams)]

\* An entry is one shot, or streams that agree on the cursor.
Fit(c) == IF c.kind = "cast"
          THEN /\ c.ids # {} /\ c.ids \subseteq Streams
               /\ c.ids \subseteq Pointed \/ c.ids \cap Pointed = {}
          ELSE \E s \in Shots : c.ids = {s}

\* A queue of such entries in which nobody waits twice.
Sound(q) == /\ q \in Seq(Entry)
            /\ \A i \in 1 .. Len(q) : Fit(q[i])
            /\ \A i, j \in 1 .. Len(q) : i # j => q[i].ids \cap q[j].ids = {}

\* Each entry of t is one of the entries I of q, or stands for a stream's entry there.
From(t, q, I) ==
  \E h \in [1 .. Len(t) -> I] :
    /\ \A k \in 1 .. Len(t) : t[k] = q[h[k]] \/ (t[k].kind = "cast" /\ q[h[k]].kind = "cast")
    /\ \A k, l \in 1 .. Len(t) : h[k] = h[l] => k = l

LEMMA IdsAre ==
  ASSUME NEW q \in Seq(Entry)
  PROVE  \A x : x \in Ids(q) <=> \E i \in 1 .. Len(q) : x \in q[i].ids
<1>1. DOMAIN q = 1 .. Len(q) BY LenProperties
<1> QED BY <1>1 DEF Ids

LEMMA SoundOnly ==
  ASSUME NEW q, Sound(q), NEW T
  PROVE  /\ Sound(Only(q, T))
         /\ \A x : x \in Ids(Only(q, T)) <=> \E i \in 1 .. Len(q) : q[i] \in T /\ x \in q[i].ids
         /\ From(Only(q, T), q, {j \in 1 .. Len(q) : q[j] \in T})
<1> DEFINE t == Only(q, T)
<1>1. q \in Seq(Entry) BY DEF Sound
<1>2. t \in Seq(Entry) /\ Picks(q, T, Len(q), t) BY <1>1, OnlyPicks
<1> HIDE DEF t
<1>3. PICK h \in [1 .. Len(t) -> {j \in 1 .. Len(q) : q[j] \in T}] :
        /\ \A k \in 1 .. Len(t) : t[k] = q[h[k]]
        /\ \A k, l \in 1 .. Len(t) : h[k] = h[l] => k = l
        /\ \A j \in 1 .. Len(q) : q[j] \in T => \E k \in 1 .. Len(t) : h[k] = j
  BY <1>2 DEF Picks
<1>4. \A k \in 1 .. Len(t) : h[k] \in 1 .. Len(q) /\ q[h[k]] \in T BY <1>3
<1>5. \A k \in 1 .. Len(t) : Fit(t[k]) BY <1>3, <1>4 DEF Sound
<1>6. \A k, l \in 1 .. Len(t) : k # l => t[k].ids \cap t[l].ids = {}
  BY <1>3, <1>4 DEF Sound
<1>7. Sound(t) BY <1>2, <1>5, <1>6 DEF Sound
<1>8. From(t, q, {j \in 1 .. Len(q) : q[j] \in T}) BY <1>3, Zenon DEF From
<1>9. ASSUME NEW x
      PROVE  x \in Ids(t) <=> \E i \in 1 .. Len(q) : q[i] \in T /\ x \in q[i].ids
  <2>1. x \in Ids(t) <=> \E k \in 1 .. Len(t) : x \in t[k].ids BY <1>2, IdsAre
  <2>2. \A k \in 1 .. Len(t) : t[k] = q[h[k]] BY <1>3
  <2> QED BY <1>3, <1>4, <2>1, <2>2
<1> QED BY <1>7, <1>8, <1>9 DEF t

LEMMA SoundJoin ==
  ASSUME NEW t, Sound(t), NEW u, Sound(u), Ids(t) \cap Ids(u) = {}
  PROVE  Sound(t \o u) /\ Ids(t \o u) = Ids(t) \cup Ids(u)
<1> DEFINE m == Len(t)
           n == Len(u)
           v == t \o u
<1>1. t \in Seq(Entry) /\ u \in Seq(Entry) BY DEF Sound
<1>2. m \in Nat /\ n \in Nat BY <1>1, LenProperties
<1>3. /\ v \in Seq(Entry) /\ Len(v) = m + n
      /\ \A i \in 1 .. m + n : v[i] = IF i <= m THEN t[i] ELSE u[i - m]
  BY <1>1, ConcatProperties
<1>4. \A i \in 1 .. m : t[i].ids \subseteq Ids(t) BY <1>1, IdsAre
<1>5. \A i \in 1 .. n : u[i].ids \subseteq Ids(u) BY <1>1, IdsAre
<1>6. \A i \in 1 .. m + n : (i <= m /\ i \in 1 .. m) \/ (~(i <= m) /\ i - m \in 1 .. n)
  BY <1>2
<1>7. \A i \in 1 .. n : i + m \in 1 .. m + n /\ ~(i + m <= m) /\ (i + m) - m = i BY <1>2
<1>8. \A i \in 1 .. m : i \in 1 .. m + n /\ i <= m BY <1>2
<1>9. \A i, j \in 1 .. m + n : i # j /\ ~(i <= m) /\ ~(j <= m) => i - m # j - m BY <1>2
<1> HIDE DEF v, m, n
<1>10. \A i \in 1 .. m + n : Fit(v[i]) BY <1>3, <1>6 DEF Sound, m, n
<1>11. ASSUME NEW i \in 1 .. m + n, NEW j \in 1 .. m + n, i # j
       PROVE  v[i].ids \cap v[j].ids = {}
  <2>1. CASE i <= m /\ j <= m BY <1>3, <1>6, <1>11, <2>1 DEF Sound, m
  <2>2. CASE ~(i <= m) /\ ~(j <= m) BY <1>3, <1>6, <1>9, <1>11, <2>2 DEF Sound, n
  <2>3. CASE i <= m /\ ~(j <= m) BY <1>3, <1>4, <1>5, <1>6, <2>3
  <2>4. CASE ~(i <= m) /\ j <= m BY <1>3, <1>4, <1>5, <1>6, <2>4
  <2> QED BY <2>1, <2>2, <2>3, <2>4
<1>12. Sound(v) BY <1>3, <1>10, <1>11 DEF Sound
<1>13. \A x : x \in Ids(v) <=> x \in Ids(t) \/ x \in Ids(u)
  <2>1. \A x : x \in Ids(v) <=> \E i \in 1 .. m + n : x \in v[i].ids BY <1>3, IdsAre
  <2>2. \A x : x \in Ids(t) <=> \E i \in 1 .. m : x \in t[i].ids BY <1>1, IdsAre DEF m
  <2>3. \A x : x \in Ids(u) <=> \E i \in 1 .. n : x \in u[i].ids BY <1>1, IdsAre DEF n
  <2>4. ASSUME NEW i \in 1 .. m + n PROVE v[i].ids \subseteq Ids(t) \cup Ids(u)
    BY <1>3, <1>4, <1>5, <1>6
  <2>5. ASSUME NEW i \in 1 .. m PROVE t[i].ids \subseteq Ids(v)
    BY <1>3, <1>8, <2>1
  <2>6. ASSUME NEW i \in 1 .. n PROVE u[i].ids \subseteq Ids(v)
    <3>1. v[i + m] = u[i] BY <1>3, <1>7
    <3> QED BY <1>7, <2>1, <3>1
  <2> QED BY <2>1, <2>2, <2>3, <2>4, <2>5, <2>6
<1> QED BY <1>12, <1>13 DEF v

LEMMA FromJoin ==
  ASSUME NEW t \in Seq(Entry), NEW u \in Seq(Entry), NEW q, NEW I, NEW J,
         From(t, q, I), From(u, q, J), I \cap J = {}
  PROVE  From(t \o u, q, I \cup J)
<1> DEFINE m == Len(t)
           n == Len(u)
           v == t \o u
           Like(c, d) == c = d \/ (c.kind = "cast" /\ d.kind = "cast")
<1>1. PICK g \in [1 .. m -> I] : /\ \A k \in 1 .. m : Like(t[k], q[g[k]])
                                 /\ \A k, l \in 1 .. m : g[k] = g[l] => k = l
  BY DEF From
<1>2. PICK h \in [1 .. n -> J] : /\ \A k \in 1 .. n : Like(u[k], q[h[k]])
                                 /\ \A k, l \in 1 .. n : h[k] = h[l] => k = l
  BY DEF From
<1>3. m \in Nat /\ n \in Nat BY LenProperties
<1>4. Len(v) = m + n /\ \A i \in 1 .. m + n : v[i] = IF i <= m THEN t[i] ELSE u[i - m]
  BY ConcatProperties
<1> DEFINE f == [i \in 1 .. m + n |-> IF i <= m THEN g[i] ELSE h[i - m]]
<1>5. \A i \in 1 .. m + n : (i <= m /\ i \in 1 .. m) \/ (~(i <= m) /\ i - m \in 1 .. n)
  BY <1>3
<1>6. \A i, j \in 1 .. m + n : i # j /\ ~(i <= m) /\ ~(j <= m) => i - m # j - m BY <1>3
<1>7. \A i \in 1 .. m + n : f[i] = IF i <= m THEN g[i] ELSE h[i - m] OBVIOUS
<1>8. f \in [1 .. m + n -> I \cup J] BY <1>5
<1> HIDE DEF f, v, m, n, Like
<1>9. \A i \in 1 .. m + n : Like(v[i], q[f[i]]) BY <1>1, <1>2, <1>4, <1>5, <1>7
<1>10. \A i, j \in 1 .. m + n : f[i] = f[j] => i = j BY <1>1, <1>2, <1>5, <1>6, <1>7
<1>11. From(v, q, I \cup J) BY <1>4, <1>8, <1>9, <1>10, Zenon DEF From, Like
<1> QED BY <1>11 DEF v

LEMMA SoundPart ==
  ASSUME NEW t, Sound(t), NEW n \in 0 .. Len(t)
  PROVE  LET now == SubSeq(t, 1, n)
             rest == SubSeq(t, n + 1, Len(t))
         IN /\ Sound(now) /\ Sound(rest)
            /\ Len(now) = n /\ \A i \in 1 .. n : now[i] = t[i]
            /\ Ids(now) \cap Ids(rest) = {} /\ Ids(now) \cup Ids(rest) = Ids(t)
            /\ \A q, I : From(t, q, I) => From(rest, q, I)
<1> DEFINE now == SubSeq(t, 1, n)
           rest == SubSeq(t, n + 1, Len(t))
           m == Len(t) - n
<1>1. t \in Seq(Entry) BY DEF Sound
<1>2. Len(t) \in Nat /\ n \in Nat /\ m \in Nat /\ n <= Len(t) BY <1>1, LenProperties
<1>3. \A i \in 1 .. Len(t) : t[i] \in Entry BY <1>1, ElementOfSeq
<1>4. now \in Seq(Entry) /\ Len(now) = n /\ \A i \in 1 .. n : now[i] = t[i]
  <2>1. \A i \in 1 .. n : t[i] \in Entry BY <1>2, <1>3
  <2>2. /\ SubSeq(t, 1, n) \in Seq(Entry)
        /\ Len(SubSeq(t, 1, n)) = IF 1 <= n THEN n - 1 + 1 ELSE 0
        /\ \A i \in 1 .. n - 1 + 1 : SubSeq(t, 1, n)[i] = t[1 + i - 1]
    BY <1>2, <2>1, SubSeqProperties
  <2>3. n - 1 + 1 = n /\ (~(1 <= n) => n = 0) BY <1>2
  <2>4. \A i \in 1 .. n : 1 + i - 1 = i OBVIOUS
  <2> QED BY <2>2, <2>3, <2>4
<1>5. rest \in Seq(Entry) /\ Len(rest) = m /\ \A i \in 1 .. m : rest[i] = t[i + n]
  <2>1. \A i \in n + 1 .. Len(t) : t[i] \in Entry BY <1>2, <1>3
  <2>2. /\ SubSeq(t, n + 1, Len(t)) \in Seq(Entry)
        /\ Len(SubSeq(t, n + 1, Len(t))) = IF n + 1 <= Len(t) THEN Len(t) - (n + 1) + 1 ELSE 0
        /\ \A i \in 1 .. Len(t) - (n + 1) + 1 : SubSeq(t, n + 1, Len(t))[i] = t[n + 1 + i - 1]
    BY <1>2, <2>1, SubSeqProperties
  <2>3. Len(t) - (n + 1) + 1 = m /\ (~(n + 1 <= Len(t)) => m = 0) BY <1>2
  <2>4. \A i \in 1 .. m : n + 1 + i - 1 = i + n BY <1>2
  <2> QED BY <2>2, <2>3, <2>4
<1>6. \A i \in 1 .. n : i \in 1 .. Len(t) BY <1>2
<1>7. \A i \in 1 .. m : i + n \in 1 .. Len(t) BY <1>2
<1>8. \A i \in 1 .. n, j \in 1 .. m : i # j + n BY <1>2
<1>9. \A i, j \in 1 .. m : i # j => i + n # j + n BY <1>2
<1>10. \A i \in 1 .. Len(t) : i \in 1 .. n \/ (i - n \in 1 .. m /\ (i - n) + n = i) BY <1>2
<1> HIDE DEF now, rest, m
<1>11. Sound(now) BY <1>4, <1>6 DEF Sound
<1>12. Sound(rest)
  <2>1. \A i \in 1 .. m : Fit(rest[i]) BY <1>5, <1>7 DEF Sound
  <2>2. ASSUME NEW i \in 1 .. m, NEW j \in 1 .. m, i # j PROVE rest[i].ids \cap rest[j].ids = {}
    <3>1. i + n # j + n BY <1>9, <2>2
    <3> QED BY <1>5, <1>7, <3>1 DEF Sound
  <2> QED BY <1>5, <2>1, <2>2 DEF Sound
<1>13. \A x : x \in Ids(now) <=> \E i \in 1 .. n : x \in t[i].ids BY <1>4, IdsAre
<1>14. \A x : x \in Ids(rest) <=> \E i \in 1 .. m : x \in t[i + n].ids
  <2>1. \A x : x \in Ids(rest) <=> \E i \in 1 .. m : x \in rest[i].ids BY <1>5, IdsAre
  <2> QED BY <1>5, <2>1
<1>15. \A x : x \in Ids(t) <=> \E i \in 1 .. Len(t) : x \in t[i].ids BY <1>1, IdsAre
<1>16. Ids(now) \cap Ids(rest) = {}
  <2>1. \A i \in 1 .. n, j \in 1 .. m : t[i].ids \cap t[j + n].ids = {}
    BY <1>6, <1>7, <1>8 DEF Sound
  <2> QED BY <1>13, <1>14, <2>1
<1>17. Ids(now) \cup Ids(rest) = Ids(t)
  <2>1. \A x : x \in Ids(t) => x \in Ids(now) \/ x \in Ids(rest)
    <3> TAKE x
    <3>1. HAVE x \in Ids(t)
    <3>2. PICK i \in 1 .. Len(t) : x \in t[i].ids BY <1>15, <3>1
    <3>3. CASE i \in 1 .. n BY <1>13, <3>2, <3>3
    <3>4. CASE i - n \in 1 .. m /\ (i - n) + n = i BY <1>14, <3>2, <3>4
    <3> QED BY <1>10, <3>3, <3>4
  <2> QED BY <1>6, <1>7, <1>13, <1>14, <1>15, <2>1
<1>18. ASSUME NEW q, NEW I, From(t, q, I) PROVE From(rest, q, I)
  <2> DEFINE Like(c, d) == c = d \/ (c.kind = "cast" /\ d.kind = "cast")
  <2>1. PICK h \in [1 .. Len(t) -> I] : /\ \A k \in 1 .. Len(t) : Like(t[k], q[h[k]])
                                        /\ \A k, l \in 1 .. Len(t) : h[k] = h[l] => k = l
    BY <1>18 DEF From
  <2> DEFINE g == [k \in 1 .. m |-> h[k + n]]
  <2>2. g \in [1 .. m -> I] BY <1>7
  <2>3. \A k \in 1 .. m : g[k] = h[k + n] OBVIOUS
  <2> HIDE DEF g, Like
  <2>4. \A k \in 1 .. m : Like(rest[k], q[g[k]]) BY <1>5, <1>7, <2>1, <2>3
  <2>5. \A k, l \in 1 .. m : g[k] = g[l] => k = l BY <1>7, <1>9, <2>1, <2>3
  <2> QED BY <1>5, <2>2, <2>4, <2>5, Zenon DEF From, Like
<1>19. /\ Sound(now) /\ Sound(rest)
       /\ Len(now) = n /\ \A i \in 1 .. n : now[i] = t[i]
       /\ Ids(now) \cap Ids(rest) = {} /\ Ids(now) \cup Ids(rest) = Ids(t)
       /\ \A q, I : From(t, q, I) => From(rest, q, I)
  BY <1>4, <1>11, <1>12, <1>16, <1>17, <1>18
<1> QED BY <1>19 DEF now, rest

\* Where the shots of a wait in q.
Asking(q, a) == {i \in 1 .. Len(q) : \E s \in q[i].ids \cap Shots : ShotOwner[s] = a}

\* What stands for entries of q is no longer than q, and nobody asks for more.
LEMMA FromBounds ==
  ASSUME NEW q \in Seq(Entry), NEW t, Sound(t), From(t, q, 1 .. Len(q))
  PROVE  /\ Len(t) <= Len(q)
         /\ \A a : Cardinality(Asking(t, a)) <= Cardinality(Asking(q, a))
<1>1. PICK h \in [1 .. Len(t) -> 1 .. Len(q)] :
        /\ \A k \in 1 .. Len(t) : t[k] = q[h[k]] \/ (t[k].kind = "cast" /\ q[h[k]].kind = "cast")
        /\ \A k, l \in 1 .. Len(t) : h[k] = h[l] => k = l
  BY DEF From
<1>2. Len(t) \in Nat /\ Len(q) \in Nat BY LenProperties DEF Sound
<1>3. IsFiniteSet(1 .. Len(q)) /\ Cardinality(1 .. Len(q)) = Len(q) /\ Cardinality(1 .. Len(t)) = Len(t)
  <2>1. \A n \in Nat : Cardinality(1 .. n) = n
    <3> TAKE n \in Nat
    <3>1. Cardinality(1 .. n) = IF 1 > n THEN 0 ELSE n - 1 + 1 BY FS_Interval
    <3> QED BY <3>1
  <2>2. IsFiniteSet(1 .. Len(q)) BY <1>2, FS_Interval
  <2> QED BY <1>2, <2>1, <2>2
<1>4. h \in Injection(1 .. Len(t), 1 .. Len(q)) BY <1>1 DEF Injection, IsInjective
<1>5. Len(t) <= Len(q) BY <1>3, <1>4, FS_Injection
<1>6. ASSUME NEW a PROVE Cardinality(Asking(t, a)) <= Cardinality(Asking(q, a))
  <2> DEFINE g == [k \in Asking(t, a) |-> h[k]]
  <2>1. ASSUME NEW k \in Asking(t, a) PROVE h[k] \in Asking(q, a)
    <3>1. k \in 1 .. Len(t) /\ \E s \in t[k].ids \cap Shots : ShotOwner[s] = a BY DEF Asking
    <3>2. PICK s \in t[k].ids \cap Shots : ShotOwner[s] = a BY <3>1
    <3>3. t[k].kind # "cast" BY <3>1, <3>2, CaptureAssumption DEF Sound, Fit
    <3>4. t[k] = q[h[k]] BY <1>1, <3>1, <3>3
    <3> QED BY <1>1, <3>1, <3>2, <3>4 DEF Asking
  <2>2. \A k, l \in Asking(t, a) : h[k] = h[l] => k = l BY <1>1 DEF Asking
  <2>3. g \in Injection(Asking(t, a), Asking(q, a)) BY <2>1, <2>2 DEF Injection, IsInjective
  <2>4. IsFiniteSet(Asking(q, a)) BY <1>3, FS_Subset DEF Asking
  <2> HIDE DEF g
  <2> QED BY <2>3, <2>4, FS_Injection
<1> QED BY <1>5, <1>6

\* What was asked for waits in the queue or behind a fence, not both.
CpAccounts ==
  /\ \A s \in Shots :
       /\ shot[s] = "asked" <=> (s \in Ids(queue) \/ (s \in DOMAIN fenced /\ shot[s] # "gone"))
       /\ s \in Ids(queue) => s \notin DOMAIN fenced
  /\ \A s \in Streams : cast[s] = "asked" <=> s \in Ids(queue)

\* The queue and each client's share of it.
CpLimits == /\ Len(queue) <= MaxPending
            /\ \A a \in Askers : Cardinality(Asking(queue, a)) <= MaxPerAsker

CpInv == CpTypeOK /\ Sound(queue) /\ CpAccounts /\ CpLimits

LEMMA CpInitInv == CpInit => CpInv
<1> SUFFICES ASSUME CpInit PROVE CpInv OBVIOUS
<1>1. queue = <<>> /\ fenced = <<>> BY DEF CpInit
<1>2. queue \in Seq(Entry) /\ Len(queue) = 0 BY <1>1, EmptySeq
<1>3. Sound(queue) BY <1>2 DEF Sound
<1>4. \A x : x \notin Ids(queue)
  <2>1. 1 .. 0 = {} OBVIOUS
  <2>2. \A x : x \in Ids(queue) <=> \E i \in 1 .. 0 : x \in queue[i].ids BY <1>2, IdsAre
  <2> QED BY <2>1, <2>2
<1>5. DOMAIN fenced = {} /\ Range(fenced) = {} BY <1>1 DEF Range
<1>6. CpTypeOK BY <1>2, <1>5 DEF CpInit, CpTypeOK, Entry
<1>7. CpAccounts BY <1>4, <1>5 DEF CpInit, CpAccounts
<1>8. CpLimits
  <2>1. \A a : Asking(queue, a) = {} BY <1>2 DEF Asking
  <2>2. \A a : Cardinality(Asking(queue, a)) = 0 BY <2>1, FS_EmptySet
  <2>3. 0 <= MaxPending /\ 0 <= MaxPerAsker BY CaptureAssumption
  <2> QED BY <1>2, <2>2, <2>3 DEF CpLimits
<1> QED BY <1>3, <1>6, <1>7, <1>8 DEF CpInv

LEMMA CpInvKeeps == CpInv => CapturesKept
<1> SUFFICES ASSUME CpInv PROVE CapturesKept OBVIOUS
<1>1. /\ CpTypeOK /\ Sound(queue) /\ CpAccounts /\ CpLimits
      /\ queue \in Seq(Entry)
  BY DEF CpInv, Sound
<1>2. DOMAIN queue = 1 .. Len(queue) BY <1>1, LenProperties
<1>3. \A x : x \in Ids(queue) <=> \E i \in DOMAIN queue : x \in queue[i].ids BY <1>1, <1>2, IdsAre
<1>4. ASSUME NEW s \in Shots
      PROVE  LET places == {i \in DOMAIN queue : s \in queue[i].ids} IN
             /\ Cardinality(places) <= 1
             /\ shot[s] = "asked" <=> (places /= {} \/ (s \in DOMAIN fenced /\ shot[s] /= "gone"))
             /\ places = {} \/ s \notin DOMAIN fenced
  <2> DEFINE places == {i \in DOMAIN queue : s \in queue[i].ids}
  <2>1. places # {} <=> s \in Ids(queue) BY <1>3
  <2>2. \A i, j \in places : i = j BY <1>1, <1>2 DEF Sound
  <2>3. Cardinality(places) <= 1
    <3> HIDE DEF places
    <3>1. CASE places = {} BY <3>1, FS_EmptySet
    <3>2. CASE places # {}
      <4>1. PICK i : places = {i} BY <2>2, <3>2
      <4>2. Cardinality({i}) = 1 BY FS_Singleton
      <4> QED BY <4>1, <4>2
    <3> QED BY <3>1, <3>2
  <2> HIDE DEF places
  <2>4. /\ Cardinality(places) <= 1
        /\ shot[s] = "asked" <=> (places /= {} \/ (s \in DOMAIN fenced /\ shot[s] /= "gone"))
        /\ places = {} \/ s \notin DOMAIN fenced
    BY <1>1, <2>1, <2>3 DEF CpAccounts
  <2> QED BY <2>4 DEF places
<1>5. CapturesAccounted BY <1>1, <1>3, <1>4 DEF CapturesAccounted, CpAccounts
<1>6. \A a : Asks(a) = Cardinality(Asking(queue, a)) BY <1>2 DEF Asks, Asking
<1>7. CaptureQueueBounded BY <1>1, <1>6 DEF CaptureQueueBounded, CpLimits
<1> QED BY <1>1, <1>5, <1>7 DEF CapturesKept

\* What a drop of entries leaves is within the limits.
LEMMA LimitsStay ==
  ASSUME CpInv, Sound(queue'), From(queue', queue, 1 .. Len(queue))
  PROVE  CpLimits'
<1>1. queue \in Seq(Entry) /\ queue' \in Seq(Entry) BY DEF CpInv, Sound
<1>2. /\ Len(queue') <= Len(queue)
      /\ \A a : Cardinality(Asking(queue', a)) <= Cardinality(Asking(queue, a))
  BY <1>1, FromBounds
<1>3. \A n, m \in Nat : n <= m => \A k \in Nat : m <= k => n <= k OBVIOUS
<1>4. Len(queue) \in Nat /\ Len(queue') \in Nat BY <1>1, LenProperties
<1>5. \A a : IsFiniteSet(Asking(queue, a)) /\ IsFiniteSet(Asking(queue', a))
  <2>1. IsFiniteSet(1 .. Len(queue)) /\ IsFiniteSet(1 .. Len(queue')) BY <1>4, FS_Interval
  <2>2. \A a : Asking(queue, a) \subseteq 1 .. Len(queue) /\ Asking(queue', a) \subseteq 1 .. Len(queue')
    BY DEF Asking
  <2> QED BY <2>1, <2>2, FS_Subset
<1>6. \A a : Cardinality(Asking(queue, a)) \in Nat /\ Cardinality(Asking(queue', a)) \in Nat
  BY <1>5, FS_CardinalityType
<1>7. Len(queue') <= MaxPending BY <1>2, <1>3, <1>4, CaptureAssumption DEF CpInv, CpLimits
<1>8. ASSUME NEW a \in Askers PROVE Cardinality(Asking(queue', a)) <= MaxPerAsker
  BY <1>2, <1>3, <1>6, CaptureAssumption DEF CpInv, CpLimits
<1> QED BY <1>7, <1>8 DEF CpLimits

LEMMA FromWider ==
  ASSUME NEW t, NEW q, NEW I, NEW J, From(t, q, I), I \subseteq J
  PROVE  From(t, q, J)
<1>1. [1 .. Len(t) -> I] \subseteq [1 .. Len(t) -> J] OBVIOUS
<1> QED BY <1>1, Zenon DEF From

LEMMA SharedIs ==
  ASSUME NEW q, NEW o \in Displays, NEW ids \in SUBSET Streams, NEW J,
         ids \subseteq Pointed \/ ids \cap Pointed = {},
         ids # {} => \E j \in J : q[j].kind = "cast"
  PROVE  /\ Sound(Shared(o, ids)) /\ Ids(Shared(o, ids)) = ids
         /\ From(Shared(o, ids), q, J)
<1> DEFINE c == [kind |-> "cast", out |-> o, ids |-> ids]
           t == Shared(o, ids)
<1>1. CASE ids = {}
  <2>1. t = <<>> BY <1>1 DEF Shared
  <2>2. t \in Seq(Entry) /\ Len(t) = 0 BY <2>1, EmptySeq
  <2> HIDE DEF t
  <2>3. Sound(t) BY <2>2 DEF Sound
  <2>4. Ids(t) = {}
    <3>1. 1 .. 0 = {} OBVIOUS
    <3>2. \A x : x \in Ids(t) <=> \E i \in 1 .. 0 : x \in t[i].ids BY <2>2, IdsAre
    <3> QED BY <3>1, <3>2
  <2> DEFINE h == [k \in {} |-> k]
  <2>5. h \in [{} -> J] /\ 1 .. 0 = {} OBVIOUS
  <2> HIDE DEF h
  <2>6. From(t, q, J) BY <2>2, <2>5 DEF From
  <2> QED BY <1>1, <2>3, <2>4, <2>6 DEF t
<1>2. CASE ids # {}
  <2>1. t = <<c>> BY <1>2 DEF Shared
  <2>2. c \in Entry /\ Fit(c) BY <1>2 DEF Entry, Kinds, Fit
  <2>3. c.ids = ids /\ c.kind = "cast" OBVIOUS
  <2> HIDE DEF c, t
  <2>4. t \in Seq(Entry) /\ Len(t) = 1 /\ t[1] = c BY <2>1, <2>2
  <2>5. Sound(t) BY <2>2, <2>4 DEF Sound
  <2>6. Ids(t) = ids
    <3>1. 1 .. 1 = {1} OBVIOUS
    <3>2. \A x : x \in Ids(t) <=> \E i \in 1 .. 1 : x \in t[i].ids BY <2>4, IdsAre
    <3> QED BY <2>3, <2>4, <3>1, <3>2
  <2>7. PICK j \in J : q[j].kind = "cast" BY <1>2
  <2> DEFINE h == [k \in 1 .. 1 |-> j]
  <2>8. h \in [1 .. 1 -> J] /\ h[1] = j OBVIOUS
  <2> HIDE DEF h
  <2>9. \A k \in 1 .. 1 : t[k].kind = "cast" /\ q[h[k]].kind = "cast" BY <2>3, <2>4, <2>7, <2>8
  <2>10. \A k, l \in 1 .. 1 : h[k] = h[l] => k = l OBVIOUS
  <2>11. From(t, q, J) BY <2>4, <2>8, <2>9, <2>10, Zenon DEF From
  <2> QED BY <2>5, <2>6, <2>11 DEF t
<1> QED BY <1>1, <1>2

\* Where an output's captures wait.
At(o) == {j \in 1 .. Len(queue) : queue[j].out = o}

\* Merging the streams of an output loses no request and adds no entry.
LEMMA FanOutIs ==
  ASSUME Sound(queue), NEW o \in Displays
  PROVE  /\ Sound(FanOut(o))
         /\ \A x : x \in Ids(FanOut(o)) <=> \E i \in At(o) : x \in queue[i].ids
         /\ From(FanOut(o), queue, At(o))
<1> DEFINE casts == {c \in Of(o) : c.kind = "cast"}
           viewers == UNION {c.ids : c \in casts}
           plain == Only(queue, Of(o) \ casts)
           bare == Shared(o, viewers \ Pointed)
           dotted == Shared(o, viewers \cap Pointed)
           P == {j \in 1 .. Len(queue) : queue[j] \in Of(o) \ casts}
           B == {j \in At(o) : queue[j].kind = "cast" /\ queue[j].ids \cap Pointed = {}}
           D == {j \in At(o) : queue[j].kind = "cast" /\ queue[j].ids \subseteq Pointed}
<1>1. queue \in Seq(Entry) /\ DOMAIN queue = 1 .. Len(queue) BY LenProperties DEF Sound
<1>2. FanOut(o) = (plain \o bare) \o dotted BY DEF FanOut
<1>3. \A c : c \in Of(o) <=> \E j \in At(o) : c = queue[j] BY <1>1 DEF Of, Range, At
<1>4. \A j \in 1 .. Len(queue) : Fit(queue[j]) BY DEF Sound
<1>5. \A x : x \in viewers <=> \E j \in At(o) : queue[j].kind = "cast" /\ x \in queue[j].ids
  BY <1>3
<1>6. viewers \subseteq Streams BY <1>4, <1>5 DEF At, Fit
<1>7. P = {j \in At(o) : queue[j].kind # "cast"} BY <1>3 DEF At
<1>8. /\ Sound(plain) /\ From(plain, queue, P)
      /\ \A x : x \in Ids(plain) <=> \E i \in P : x \in queue[i].ids
  <2> DEFINE T == Of(o) \ casts
  <2> HIDE DEF T
  <2>1. /\ Sound(Only(queue, T))
        /\ \A x : x \in Ids(Only(queue, T)) <=> \E i \in 1 .. Len(queue) : queue[i] \in T /\ x \in queue[i].ids
        /\ From(Only(queue, T), queue, {j \in 1 .. Len(queue) : queue[j] \in T})
    BY SoundOnly
  <2> QED BY <2>1 DEF T
<1> HIDE DEF casts, viewers, plain, P
<1>9. \A j \in At(o) : queue[j].kind = "cast" => j \in B \/ j \in D BY <1>4 DEF At, Fit
<1>10. /\ Sound(bare) /\ Ids(bare) = viewers \ Pointed /\ From(bare, queue, B)
  <2> DEFINE ids == viewers \ Pointed
  <2>1. ids \in SUBSET Streams /\ ids \cap Pointed = {} BY <1>6
  <2>2. ids # {} => \E j \in B : queue[j].kind = "cast" BY <1>5, <1>9
  <2> HIDE DEF ids, B
  <2>3. Sound(Shared(o, ids)) /\ Ids(Shared(o, ids)) = ids /\ From(Shared(o, ids), queue, B)
    BY <2>1, <2>2, SharedIs
  <2> QED BY <2>3 DEF ids
<1>11. /\ Sound(dotted) /\ Ids(dotted) = viewers \cap Pointed /\ From(dotted, queue, D)
  <2> DEFINE ids == viewers \cap Pointed
  <2>1. ids \in SUBSET Streams /\ ids \subseteq Pointed BY <1>6
  <2>2. ids # {} => \E j \in D : queue[j].kind = "cast" BY <1>5, <1>9
  <2> HIDE DEF ids, D
  <2>3. Sound(Shared(o, ids)) /\ Ids(Shared(o, ids)) = ids /\ From(Shared(o, ids), queue, D)
    BY <2>1, <2>2, SharedIs
  <2> QED BY <2>3 DEF ids
<1>12. B \cap D = {} BY <1>4 DEF At, Fit
<1>13. P \cap B = {} /\ P \cap D = {} /\ P \subseteq At(o) BY <1>7
<1>14. Ids(plain) \cap viewers = {}
  <2>1. \A i \in P : queue[i].ids \subseteq Shots BY <1>4, <1>7 DEF At, Fit
  <2> QED BY <1>6, <1>8, <2>1, CaptureAssumption
<1>15. B \subseteq At(o) /\ D \subseteq At(o) OBVIOUS
<1> HIDE DEF bare, dotted, B, D
<1>16. Sound(plain \o bare) /\ Ids(plain \o bare) = Ids(plain) \cup (viewers \ Pointed)
  <2>1. Ids(plain) \cap Ids(bare) = {} BY <1>10, <1>14
  <2> QED BY <1>8, <1>10, <2>1, SoundJoin
<1>17. From(plain \o bare, queue, P \cup B)
  <2>1. plain \in Seq(Entry) /\ bare \in Seq(Entry) BY <1>8, <1>10 DEF Sound
  <2> QED BY <1>8, <1>10, <1>13, <2>1, FromJoin
<1> DEFINE both == plain \o bare
<1> HIDE DEF both
<1>18. /\ Sound(both \o dotted)
       /\ Ids(both \o dotted) = Ids(both) \cup (viewers \cap Pointed)
       /\ Ids(both) = Ids(plain) \cup (viewers \ Pointed)
  <2>1. Sound(both) /\ Ids(both) = Ids(plain) \cup (viewers \ Pointed) BY <1>16 DEF both
  <2>2. Ids(both) \cap Ids(dotted) = {} BY <1>11, <1>14, <2>1
  <2> QED BY <1>11, <2>1, <2>2, SoundJoin
<1>19. From(both \o dotted, queue, (P \cup B) \cup D)
  <2>1. both \in Seq(Entry) /\ dotted \in Seq(Entry) BY <1>11, <1>16 DEF Sound, both
  <2>2. From(both, queue, P \cup B) BY <1>17 DEF both
  <2>3. (P \cup B) \cap D = {} BY <1>12, <1>13
  <2> QED BY <1>11, <2>1, <2>2, <2>3, FromJoin
<1>20. From(both \o dotted, queue, At(o))
  <2>1. (P \cup B) \cup D \subseteq At(o) BY <1>13, <1>15
  <2> QED BY <1>19, <2>1, FromWider
<1>21. \A x : x \in Ids(both \o dotted) <=> \E i \in At(o) : x \in queue[i].ids
  <2>1. \A x : x \in Ids(both \o dotted) <=> x \in Ids(plain) \/ x \in viewers BY <1>18
  <2> QED BY <1>5, <1>7, <1>8, <2>1
<1> QED BY <1>2, <1>18, <1>20, <1>21 DEF both

\* All that can become of a shot.
Fates == {"new", "asked", "failed", "gone"} \cup Pictures

\* The parts of CpTypeOK a capture step can touch.
CpTyped == /\ DOMAIN fenced \subseteq Shots /\ Range(fenced) \subseteq Pictures
           /\ shot \in [Shots -> Fates]
           /\ cast \in [Streams -> {"idle", "asked", "closed"}]

LEMMA CpTypeIs ==
  ASSUME CpInv, UNCHANGED worldVars, Sound(queue'), CpTyped'
  PROVE  CpTypeOK'
<1>1. queue' \in Seq(Entry) BY DEF Sound
<1>2. CpTypeOK BY DEF CpInv
<1> QED BY <1>1, <1>2 DEF CpTypeOK, CpTyped, Entry, worldVars, Fates

\* Nothing was taken in, drawn or answered.
LEMMA CpIdle ==
  ASSUME CpInv, UNCHANGED <<queue, fenced, shot, cast>>,
         mapped' \subseteq Displays, unlit' \subseteq mapped',
         drmActive' \in BOOLEAN, locked' \in BOOLEAN, window' \in BOOLEAN
  PROVE  CpInv'
<1>1. CpTypeOK' BY DEF CpInv, CpTypeOK
<1>2. Sound(queue)' BY DEF CpInv
<1>3. CpAccounts' BY DEF CpInv, CpAccounts
<1>4. CpLimits' BY DEF CpInv, CpLimits
<1> QED BY <1>1, <1>2, <1>3, <1>4 DEF CpInv

\* The requests of the set `gone` leave the queue, and are answered or fenced.
LEMMA Leaves ==
  ASSUME CpInv, UNCHANGED worldVars, CpTyped',
         Sound(queue'), From(queue', queue, 1 .. Len(queue)),
         NEW gone, Ids(queue') = Ids(queue) \ gone,
         \A s \in Shots \cap gone :
            s \in Ids(queue) \/ s \in DOMAIN fenced' =>
              (shot'[s] = "asked" <=> s \in DOMAIN fenced' /\ shot'[s] # "gone"),
         \A s \in Shots \cap gone :
            ~(s \in Ids(queue) \/ s \in DOMAIN fenced') => shot'[s] # "asked",
         \A s \in Shots \ gone : shot'[s] = shot[s] /\ (s \in DOMAIN fenced' <=> s \in DOMAIN fenced),
         \A s \in Streams \cap gone : cast'[s] # "asked",
         \A s \in Streams \ gone : cast'[s] = cast[s]
  PROVE  CpInv'
<1>1. CpLimits' BY LimitsStay
<1>2. CpTypeOK' BY CpTypeIs
<1>3. CpAccounts BY DEF CpInv
<1>4. ASSUME NEW s \in Shots
      PROVE  /\ shot'[s] = "asked" <=> (s \in Ids(queue') \/ (s \in DOMAIN fenced' /\ shot'[s] # "gone"))
             /\ s \in Ids(queue') => s \notin DOMAIN fenced'
  <2>1. CASE s \in gone BY <2>1
  <2>2. CASE s \notin gone BY <1>3, <2>2 DEF CpAccounts
  <2> QED BY <2>1, <2>2
<1>5. ASSUME NEW s \in Streams PROVE cast'[s] = "asked" <=> s \in Ids(queue')
  <2>1. CASE s \in gone BY <2>1
  <2>2. CASE s \notin gone BY <1>3, <2>2 DEF CpAccounts
  <2> QED BY <2>1, <2>2
<1>6. CpAccounts' BY <1>4, <1>5 DEF CpAccounts
<1> QED BY <1>1, <1>2, <1>6 DEF CpInv

LEMMA SoundAppend ==
  ASSUME NEW q, Sound(q), NEW c \in Entry, Fit(c), c.ids \cap Ids(q) = {}
  PROVE  /\ Sound(Append(q, c)) /\ Len(Append(q, c)) = Len(q) + 1
         /\ Append(q, c)[Len(q) + 1] = c
         /\ \A i \in 1 .. Len(q) : Append(q, c)[i] = q[i]
         /\ Ids(Append(q, c)) = Ids(q) \cup c.ids
<1> DEFINE t == Append(q, c)
           n == Len(q)
<1>1. q \in Seq(Entry) /\ n \in Nat BY LenProperties DEF Sound
<1>2. /\ t \in Seq(Entry) /\ Len(t) = n + 1 /\ t[n + 1] = c
      /\ \A i \in 1 .. n : t[i] = q[i]
  BY <1>1, AppendProperties
<1>3. 1 .. n + 1 = (1 .. n) \cup {n + 1} BY <1>1
<1> HIDE DEF t, n
<1>4. \A i \in 1 .. n : q[i].ids \cap c.ids = {} BY <1>1, IdsAre DEF n
<1>5. \A i \in 1 .. n + 1 : Fit(t[i]) BY <1>2, <1>3 DEF Sound, n
<1>6. \A i, j \in 1 .. n + 1 : i # j => t[i].ids \cap t[j].ids = {} BY <1>2, <1>3, <1>4 DEF Sound, n
<1>7. Sound(t) BY <1>2, <1>5, <1>6 DEF Sound
<1>8. \A x : x \in Ids(t) <=> x \in Ids(q) \/ x \in c.ids
  <2>1. \A x : x \in Ids(t) <=> \E i \in 1 .. n + 1 : x \in t[i].ids BY <1>2, IdsAre
  <2>2. \A x : x \in Ids(q) <=> \E i \in 1 .. n : x \in q[i].ids BY <1>1, IdsAre DEF n
  <2> QED BY <1>2, <1>3, <2>1, <2>2
<1> QED BY <1>2, <1>7, <1>8 DEF t, n

LEMMA EnqueueSafe ==
  ASSUME CpInv, NEW capture \in Entry, Fit(capture), NEW owners \in SUBSET Askers,
         \A s \in capture.ids \cap Shots : shot[s] = "new" /\ ShotOwner[s] \in owners,
         \A s \in capture.ids \cap Streams : cast[s] = "idle",
         Enqueue(capture, owners), UNCHANGED worldVars
  PROVE  CpInv'
<1>1. /\ CpTypeOK /\ Sound(queue) /\ CpAccounts /\ CpLimits
      /\ shot \in [Shots -> Fates] /\ cast \in [Streams -> {"idle", "asked", "closed"}]
  BY DEF CpInv, CpTypeOK, Fates
<1>2. CASE Refused(capture.out, owners)
  <2>1. /\ UNCHANGED <<queue, fenced>>
        /\ shot' = [t \in Shots |-> IF t \in capture.ids /\ shot[t] = "asked" THEN "failed" ELSE shot[t]]
        /\ cast' = [t \in Streams |-> IF t \in capture.ids THEN "idle" ELSE cast[t]]
    BY <1>2 DEF Enqueue, Answered, Streamed
  <2>2. shot' = shot BY <1>1, <2>1
  <2>3. cast' = cast BY <1>1, <2>1
  <2> QED BY <1>1, <2>1, <2>2, <2>3, CpIdle DEF worldVars, CpTypeOK
<1>3. CASE ~Refused(capture.out, owners)
  <2>1. /\ queue' = Append(queue, capture) /\ UNCHANGED fenced
        /\ shot' = [s \in Shots |-> IF s \in capture.ids THEN "asked" ELSE shot[s]]
        /\ cast' = [t \in Streams |-> IF t \in capture.ids THEN "asked" ELSE cast[t]]
    BY <1>3 DEF Enqueue, Streamed
  <2>2. /\ \A a \in owners : ~(Asks(a) >= MaxPerAsker)
        /\ ~(Len(queue) >= MaxPending)
    BY <1>3 DEF Refused
  <2>3. capture.ids \cap Ids(queue) = {}
    <3>1. \A s \in capture.ids \cap Shots : s \notin Ids(queue) BY <1>1 DEF CpAccounts
    <3>2. \A s \in capture.ids \cap Streams : s \notin Ids(queue) BY <1>1 DEF CpAccounts
    <3>3. capture.ids \subseteq Shots \cup Streams BY DEF Entry
    <3> QED BY <3>1, <3>2, <3>3
  <2>4. /\ Sound(queue') /\ Len(queue') = Len(queue) + 1 /\ queue'[Len(queue) + 1] = capture
        /\ \A i \in 1 .. Len(queue) : queue'[i] = queue[i]
        /\ Ids(queue') = Ids(queue) \cup capture.ids
    BY <1>1, <2>1, <2>3, SoundAppend
  <2>5. CpTyped'
    <3>1. DOMAIN fenced \subseteq Shots /\ Range(fenced) \subseteq Pictures BY <1>1 DEF CpTypeOK
    <3>2. shot' \in [Shots -> Fates] BY <1>1, <2>1 DEF Fates
    <3>3. cast' \in [Streams -> {"idle", "asked", "closed"}] BY <1>1, <2>1
    <3> QED BY <2>1, <3>1, <3>2, <3>3 DEF CpTyped
  <2>6. CpTypeOK' BY <2>4, <2>5, CpTypeIs
  <2>7. CpAccounts'
    <3>1. ASSUME NEW s \in Shots
          PROVE  /\ shot'[s] = "asked" <=> (s \in Ids(queue') \/ (s \in DOMAIN fenced' /\ shot'[s] # "gone"))
                 /\ s \in Ids(queue') => s \notin DOMAIN fenced'
      <4>1. CASE s \in capture.ids BY <1>1, <2>1, <2>4, <4>1 DEF CpAccounts
      <4>2. CASE s \notin capture.ids BY <1>1, <2>1, <2>4, <4>2 DEF CpAccounts
      <4> QED BY <4>1, <4>2
    <3>2. ASSUME NEW s \in Streams PROVE cast'[s] = "asked" <=> s \in Ids(queue')
      BY <1>1, <2>1, <2>4 DEF CpAccounts
    <3> QED BY <3>1, <3>2 DEF CpAccounts
  <2>8. queue \in Seq(Entry) /\ Len(queue) \in Nat /\ DOMAIN queue = 1 .. Len(queue)
    BY <1>1, LenProperties DEF Sound
  <2>9. Len(queue') <= MaxPending BY <2>2, <2>4, <2>8, CaptureAssumption
  <2>10. ASSUME NEW a \in Askers PROVE Cardinality(Asking(queue', a)) <= MaxPerAsker
    <3> DEFINE n == Len(queue)
               was == Asking(queue, a)
    <3>1. Asks(a) = Cardinality(was) BY <2>8 DEF Asks, Asking
    <3>2. 1 .. n + 1 = (1 .. n) \cup {n + 1} /\ n + 1 \notin 1 .. n BY <2>8
    <3>3. Asking(queue', a) \ {n + 1} = was BY <2>4, <3>2 DEF Asking
    <3>4. n + 1 \notin was BY <3>2 DEF Asking
    <3>5. IsFiniteSet(was)
      <4>1. IsFiniteSet(1 .. n) BY <2>8, FS_Interval
      <4> QED BY <4>1, FS_Subset DEF Asking
    <3>6. Cardinality(was) \in Nat BY <3>5, FS_CardinalityType
    <3> HIDE DEF was
    <3>7. CASE n + 1 \notin Asking(queue', a)
      <4>1. Asking(queue', a) = was BY <3>3, <3>7
      <4>2. Cardinality(Asking(queue, a)) <= MaxPerAsker BY <1>1 DEF CpLimits
      <4> QED BY <4>1, <4>2 DEF was
    <3>8. CASE n + 1 \in Asking(queue', a)
      <4>1. Asking(queue', a) = was \cup {n + 1} BY <3>3, <3>8
      <4>2. Cardinality(was \cup {n + 1}) = Cardinality(was) + 1
        BY <3>4, <3>5, FS_AddElement
      <4>3. PICK s \in capture.ids \cap Shots : ShotOwner[s] = a BY <2>4, <3>8 DEF Asking
      <4>4. ~(Cardinality(was) >= MaxPerAsker) BY <2>2, <3>1, <4>3
      <4> QED BY <3>6, <4>1, <4>2, <4>4, CaptureAssumption
    <3> QED BY <3>7, <3>8
  <2>11. CpLimits' BY <2>9, <2>10 DEF CpLimits
  <2> QED BY <2>4, <2>6, <2>7, <2>11 DEF CpInv
<1> QED BY <1>2, <1>3

LEMMA QueueFromItself ==
  ASSUME Sound(queue)
  PROVE  From(queue, queue, 1 .. Len(queue))
<1>1. queue \in Seq(Entry) /\ Len(queue) \in Nat BY LenProperties DEF Sound
<1> DEFINE h == [i \in 1 .. Len(queue) |-> i]
<1>2. h \in [1 .. Len(queue) -> 1 .. Len(queue)] /\ \A i \in 1 .. Len(queue) : h[i] = i OBVIOUS
<1> HIDE DEF h
<1> QED BY <1>2 DEF From

LEMMA CopySafe ==
  ASSUME CpInv, NEW s \in Shots, NEW o \in Displays, NEW k \in Kinds, Copy(s, o, k)
  PROVE  CpInv'
<1>1. /\ shot[s] = "new" /\ k \in {"output", "dmabuf", "window"} /\ UNCHANGED worldVars
      /\ shot \in [Shots -> Fates] /\ CpAccounts /\ Sound(queue) /\ CpTypeOK
  BY DEF Copy, CpInv, CpTypeOK, Fates
<1>2. CASE shot' = [shot EXCEPT ![s] = "failed"] /\ UNCHANGED <<queue, fenced, cast>>
  <2>1. shot' \in [Shots -> Fates] BY <1>1, <1>2 DEF Fates
  <2>2. CpTyped' BY <1>1, <1>2, <2>1 DEF CpTyped, CpTypeOK
  <2>3. From(queue', queue, 1 .. Len(queue)) BY <1>1, <1>2, QueueFromItself
  <2>4. Ids(queue') = Ids(queue) \ {s} BY <1>1, <1>2 DEF CpAccounts
  <2>5. Sound(queue') BY <1>1, <1>2
  <2>6. s \notin Ids(queue) /\ s \notin DOMAIN fenced BY <1>1 DEF CpAccounts
  <2>7. shot'[s] = "failed" /\ \A t \in Shots \ {s} : shot'[t] = shot[t] BY <1>1, <1>2
  <2>8. \A t \in Streams : t # s BY CaptureAssumption
  <2> QED BY <1>1, <1>2, <2>2, <2>3, <2>4, <2>5, <2>6, <2>7, <2>8, Leaves
<1>3. CASE Enqueue([kind |-> k, out |-> o, ids |-> {s}], {ShotOwner[s]})
  <2> DEFINE c == [kind |-> k, out |-> o, ids |-> {s}]
  <2>1. c \in Entry BY DEF Entry
  <2>2. Fit(c) BY <1>1 DEF Fit
  <2>3. c.ids = {s} OBVIOUS
  <2>4. Enqueue(c, {ShotOwner[s]}) BY <1>3
  <2>5. {ShotOwner[s]} \in SUBSET Askers BY CaptureAssumption
  <2>6. s \notin Streams BY CaptureAssumption
  <2> HIDE DEF c
  <2> QED BY <1>1, <2>1, <2>2, <2>3, <2>4, <2>5, <2>6, EnqueueSafe
<1> QED BY <1>2, <1>3 DEF Copy

LEMMA RequestFrameSafe ==
  ASSUME CpInv, NEW s \in Streams, RequestFrame(s)
  PROVE  CpInv'
<1>1. cast[s] = "idle" /\ UNCHANGED worldVars BY DEF RequestFrame
<1>2. CASE UNCHANGED <<queue, fenced, shot, cast>>
  BY <1>1, <1>2, CpIdle DEF CpInv, CpTypeOK, worldVars
<1>3. CASE Enqueue([kind |-> "cast", out |-> StreamOf[s], ids |-> {s}], {})
  <2> DEFINE c == [kind |-> "cast", out |-> StreamOf[s], ids |-> {s}]
  <2>1. StreamOf[s] \in Displays BY CaptureAssumption
  <2>2. c \in Entry BY <2>1 DEF Entry, Kinds
  <2>3. Fit(c) BY DEF Fit
  <2>4. c.ids = {s} OBVIOUS
  <2>5. Enqueue(c, {}) BY <1>3
  <2>6. s \notin Shots BY CaptureAssumption
  <2> HIDE DEF c
  <2>7. {} \in SUBSET Askers OBVIOUS
  <2> QED BY <1>1, <2>2, <2>3, <2>4, <2>5, <2>6, <2>7, EnqueueSafe
<1> QED BY <1>2, <1>3 DEF RequestFrame

\* What Only leaves of the queue holds the requests of the entries it keeps.
LEMMA OnlyLeaves ==
  ASSUME Sound(queue), NEW T
  PROVE  /\ Sound(Only(queue, T)) /\ From(Only(queue, T), queue, 1 .. Len(queue))
         /\ Ids(Only(queue, T)) = Ids(queue) \ UNION {c.ids : c \in Range(queue) \ T}
<1> DEFINE gone == UNION {c.ids : c \in Range(queue) \ T}
           t == Only(queue, T)
<1>1. queue \in Seq(Entry) /\ DOMAIN queue = 1 .. Len(queue) BY LenProperties DEF Sound
<1>2. /\ Sound(t) /\ From(t, queue, {j \in 1 .. Len(queue) : queue[j] \in T})
      /\ \A x : x \in Ids(t) <=> \E i \in 1 .. Len(queue) : queue[i] \in T /\ x \in queue[i].ids
  BY SoundOnly
<1> HIDE DEF t
<1>3. From(t, queue, 1 .. Len(queue)) BY <1>2, FromWider
<1>4. \A x : x \in Ids(queue) <=> \E i \in 1 .. Len(queue) : x \in queue[i].ids BY <1>1, IdsAre
<1>5. \A x : x \in gone <=> \E i \in 1 .. Len(queue) : queue[i] \notin T /\ x \in queue[i].ids
  BY <1>1 DEF Range
<1> HIDE DEF gone
<1>6. \A i, j \in 1 .. Len(queue) : i # j => queue[i].ids \cap queue[j].ids = {} BY DEF Sound
<1>7. \A x : x \in Ids(t) <=> x \in Ids(queue) /\ x \notin gone BY <1>2, <1>4, <1>5, <1>6
<1>8. Ids(t) = Ids(queue) \ gone BY <1>7
<1> QED BY <1>2, <1>3, <1>8 DEF t, gone

LEMMA GiveUpSafe ==
  ASSUME CpInv, NEW outs, GiveUp(outs)
  PROVE  CpInv'
<1> DEFINE lost == {c \in Range(queue) : c.out \in outs}
           ids == UNION {c.ids : c \in lost}
<1>1. /\ queue' = Only(queue, Range(queue) \ lost)
      /\ shot' = [t \in Shots |-> IF t \in ids /\ shot[t] = "asked" THEN "failed" ELSE shot[t]]
      /\ cast' = [t \in Streams |-> IF t \in ids THEN "closed" ELSE cast[t]]
      /\ UNCHANGED worldVars /\ UNCHANGED fenced
  BY DEF GiveUp, Answered, Streamed
<1>2. Sound(queue) /\ CpAccounts /\ CpTypeOK BY DEF CpInv
<1>3. Range(queue) \ (Range(queue) \ lost) = lost OBVIOUS
<1>4. ids \subseteq Ids(queue) BY DEF Ids, Range
<1> HIDE DEF lost
<1>5. /\ Sound(queue') /\ From(queue', queue, 1 .. Len(queue))
      /\ Ids(queue') = Ids(queue) \ ids
  BY <1>1, <1>2, <1>3, OnlyLeaves
<1> HIDE DEF ids
<1>6. CpTyped' BY <1>1, <1>2 DEF CpTyped, CpTypeOK, Fates
<1>7. \A s \in Shots \cap ids : shot[s] = "asked" /\ s \notin DOMAIN fenced BY <1>2, <1>4 DEF CpAccounts
<1>8. \A s \in Shots \cap ids : shot'[s] = "failed" BY <1>1, <1>7
<1>9. \A s \in Shots \ ids : shot'[s] = shot[s] BY <1>1
<1>10. /\ \A s \in Streams \cap ids : cast'[s] # "asked"
       /\ \A s \in Streams \ ids : cast'[s] = cast[s]
  BY <1>1
<1> QED BY <1>1, <1>5, <1>6, <1>7, <1>8, <1>9, <1>10, Leaves

LEMMA ClientGoneSafe ==
  ASSUME CpInv, NEW a \in Askers, ClientGone(a)
  PROVE  CpInv'
<1> DEFINE mine == {s \in Shots : ShotOwner[s] = a}
           T == {c \in Range(queue) : c.ids \cap mine = {}}
<1>1. /\ queue' = Only(queue, T)
      /\ shot' = [s \in Shots |-> IF s \in mine /\ shot[s] \in {"new", "asked"} THEN "gone" ELSE shot[s]]
      /\ UNCHANGED worldVars /\ UNCHANGED <<fenced, cast>>
  BY DEF ClientGone
<1>2. Sound(queue) /\ CpAccounts /\ CpTypeOK /\ queue \in Seq(Entry) BY DEF CpInv, Sound
<1>3. DOMAIN queue = 1 .. Len(queue) BY <1>2, LenProperties
<1>4. mine \subseteq Shots OBVIOUS
<1>5. \A c \in Range(queue) \ T : c.ids \subseteq mine
  <2> TAKE c \in Range(queue) \ T
  <2>1. Fit(c) /\ c.ids \cap mine # {} BY <1>2, <1>3 DEF Range, Sound
  <2> HIDE DEF mine
  <2> QED BY <1>4, <2>1, CaptureAssumption DEF Fit
<1>6. \A s \in Ids(queue) \cap mine : \E c \in Range(queue) \ T : s \in c.ids
  BY DEF Ids, Range
<1> DEFINE gone == UNION {c.ids : c \in Range(queue) \ T}
<1>7. \A x : x \in gone <=> \E c \in Range(queue) \ T : x \in c.ids OBVIOUS
<1>8. /\ Sound(queue') /\ From(queue', queue, 1 .. Len(queue))
      /\ Ids(queue') = Ids(queue) \ gone
  <2> HIDE DEF T
  <2> QED BY <1>1, <1>2, OnlyLeaves
<1> HIDE DEF T, gone, mine
<1>9. Ids(queue') = Ids(queue) \ mine
  <2>1. gone \subseteq mine BY <1>5, <1>7
  <2>2. Ids(queue) \cap mine \subseteq gone BY <1>6, <1>7
  <2> QED BY <1>8, <2>1, <2>2
<1> HIDE DEF mine
<1>10. CpTyped' BY <1>1, <1>2 DEF CpTyped, CpTypeOK, Fates
<1>11. \A s \in Shots \cap mine : shot'[s] # "asked" BY <1>1
<1>12. \A s \in Shots \cap mine : s \in DOMAIN fenced => shot'[s] = "gone"
  BY <1>1, <1>2 DEF CpAccounts
<1>13. \A s \in Shots \ mine : shot'[s] = shot[s] BY <1>1
<1>14. \A s \in Streams : s \notin mine BY <1>4, CaptureAssumption
<1> QED BY <1>1, <1>8, <1>9, <1>10, <1>11, <1>12, <1>13, <1>14, Leaves

LEMMA NewFrameSafe ==
  ASSUME CpInv, NEW s \in Shots, NewFrame(s)
  PROVE  CpInv'
<1>1. /\ shot[s] \in {"failed"} \cup Pictures /\ shot' = [shot EXCEPT ![s] = "new"]
      /\ UNCHANGED worldVars /\ UNCHANGED <<queue, fenced, cast>>
  BY DEF NewFrame
<1>2. Sound(queue) /\ CpAccounts /\ CpTypeOK /\ shot \in [Shots -> Fates] BY DEF CpInv, CpTypeOK, Fates
<1>3. s \notin Ids(queue) /\ s \notin DOMAIN fenced BY <1>1, <1>2 DEF CpAccounts, Pictures
<1>4. CpTyped' BY <1>1, <1>2 DEF CpTyped, CpTypeOK, Fates
<1>5. Ids(queue') = Ids(queue) \ {s} BY <1>1, <1>3
<1>6. shot'[s] = "new" /\ \A t \in Shots \ {s} : shot'[t] = shot[t] BY <1>1, <1>2
<1>7. \A t \in Streams : t # s BY CaptureAssumption
<1>8. Sound(queue') /\ From(queue', queue, 1 .. Len(queue)) BY <1>1, <1>2, QueueFromItself
<1> QED BY <1>1, <1>3, <1>4, <1>5, <1>6, <1>7, <1>8, Leaves

LEMMA FenceReachedSafe ==
  ASSUME CpInv, NEW s \in Shots, FenceReached(s)
  PROVE  CpInv'
<1>1. /\ s \in DOMAIN fenced
      /\ fenced' = [x \in DOMAIN fenced \ {s} |-> fenced[x]]
      /\ shot' = [t \in Shots |-> IF t \in {s} /\ shot[t] = "asked" THEN fenced[s] ELSE shot[t]]
      /\ UNCHANGED worldVars /\ UNCHANGED <<queue, cast>>
  BY DEF FenceReached, Restrict, Answered
<1>2. Sound(queue) /\ CpAccounts /\ CpTypeOK /\ shot \in [Shots -> Fates] BY DEF CpInv, CpTypeOK, Fates
<1>3. fenced[s] \in Pictures BY <1>1, <1>2 DEF CpTypeOK, Range
<1>4. s \notin Ids(queue) BY <1>1, <1>2 DEF CpAccounts
<1>5. DOMAIN fenced' = DOMAIN fenced \ {s} /\ \A x \in DOMAIN fenced' : fenced'[x] = fenced[x] BY <1>1
<1>6. DOMAIN fenced' \subseteq Shots /\ Range(fenced') \subseteq Pictures
  BY <1>2, <1>5 DEF CpTypeOK, Range
<1>7. shot' \in [Shots -> Fates] BY <1>1, <1>2, <1>3 DEF Fates
<1>8. CpTyped' BY <1>1, <1>2, <1>6, <1>7 DEF CpTyped, CpTypeOK
<1>9. Ids(queue') = Ids(queue) \ {s} BY <1>1, <1>4
<1>10. shot'[s] # "asked" /\ \A t \in Shots \ {s} : shot'[t] = shot[t] BY <1>1, <1>2, <1>3 DEF Pictures
<1>11. \A t \in Streams : t # s BY CaptureAssumption
<1>12. Sound(queue') /\ From(queue', queue, 1 .. Len(queue)) BY <1>1, <1>2, QueueFromItself
<1> QED BY <1>1, <1>4, <1>5, <1>8, <1>9, <1>10, <1>11, <1>12, Leaves

LEMMA RenderSafe ==
  ASSUME CpInv, NEW o \in Displays, NEW broken, NEW late \in SUBSET Shots, Render(o, broken, late)
  PROVE  CpInv'
<1> DEFINE all == FanOut(o)
           n == Min({Len(all), MaxDrawn})
           now == SubSeq(all, 1, n)
           rest == SubSeq(all, n + 1, Len(all))
           others == NotOf(o)
           outcome == [s \in Ids(now) |->
             LET i == CHOOSE j \in DOMAIN now : s \in now[j].ids
             IN IF i \in broken THEN "failed" ELSE Drawn(now[i].kind)]
           there == {j \in 1 .. Len(queue) : queue[j] \in Range(queue) \ Of(o)}
<1> HIDE DEF all, n, now, rest, others
<1>1. /\ late \subseteq {s \in Ids(now) : outcome[s] /= "failed"}
      /\ queue' = others \o rest
      /\ fenced' = [s \in DOMAIN fenced \cup late |-> IF s \in late THEN outcome[s] ELSE fenced[s]]
      /\ shot' = [s \in Shots |-> IF s \in Ids(now) \ late THEN outcome[s] ELSE shot[s]]
      /\ cast' = [t \in Streams |-> IF t \in Ids(now) THEN "idle" ELSE cast[t]]
      /\ UNCHANGED worldVars
  BY DEF Render, Streamed, all, n, now, rest, others
<1>2. /\ Sound(queue) /\ CpAccounts /\ CpTypeOK /\ queue \in Seq(Entry)
      /\ shot \in [Shots -> Fates] /\ cast \in [Streams -> {"idle", "asked", "closed"}]
  BY DEF CpInv, CpTypeOK, Fates, Sound
<1>3. DOMAIN queue = 1 .. Len(queue) BY <1>2, LenProperties
<1>4. /\ Sound(all) /\ From(all, queue, At(o))
      /\ \A x : x \in Ids(all) <=> \E i \in At(o) : x \in queue[i].ids
  BY <1>2, FanOutIs DEF all
<1>5. n \in 0 .. Len(all)
  <2>1. Len(all) \in Nat /\ MaxDrawn \in Nat BY <1>4, LenProperties, CaptureAssumption DEF Sound
  <2>2. \E m \in {Len(all), MaxDrawn} : \A k \in {Len(all), MaxDrawn} : m <= k BY <2>1
  <2>3. n \in {Len(all), MaxDrawn} /\ \A k \in {Len(all), MaxDrawn} : n <= k
    BY ONLY <2>2 DEF n, Min
  <2> QED BY <2>1, <2>3
<1>6. /\ Sound(now) /\ Sound(rest) /\ From(rest, queue, At(o))
      /\ Ids(now) \cap Ids(rest) = {} /\ Ids(now) \cup Ids(rest) = Ids(all)
  BY <1>4, <1>5, SoundPart DEF now, rest
<1>7. \A j \in 1 .. Len(queue) : queue[j] \in Range(queue) \ Of(o) <=> j \notin At(o)
  BY <1>3 DEF Of, Range, At
<1>8. /\ Sound(others) /\ From(others, queue, there)
      /\ \A x : x \in Ids(others) <=> \E i \in 1 .. Len(queue) : i \notin At(o) /\ x \in queue[i].ids
  <2>1. /\ Sound(others) /\ From(others, queue, there)
        /\ \A x : x \in Ids(others) <=>
              \E i \in 1 .. Len(queue) : queue[i] \in Range(queue) \ Of(o) /\ x \in queue[i].ids
    BY <1>2, SoundOnly DEF others, NotOf
  <2> QED BY <1>7, <2>1
<1>9. there \cap At(o) = {} /\ there \cup At(o) \subseteq 1 .. Len(queue) BY <1>7 DEF At
<1> HIDE DEF there
<1>10. \A x : x \in Ids(queue) <=> \E i \in 1 .. Len(queue) : x \in queue[i].ids BY <1>2, IdsAre
<1>11. \A i, j \in 1 .. Len(queue) : i # j => queue[i].ids \cap queue[j].ids = {} BY <1>2 DEF Sound
<1>12. Ids(others) \cap Ids(all) = {} BY <1>4, <1>8, <1>11 DEF At
<1>13. Ids(others) \cup Ids(all) = Ids(queue) BY <1>4, <1>8, <1>10 DEF At
<1>14. Sound(queue') /\ Ids(queue') = Ids(others) \cup Ids(rest)
  <2>1. Ids(others) \cap Ids(rest) = {} BY <1>6, <1>12
  <2> QED BY <1>1, <1>6, <1>8, <2>1, SoundJoin
<1>15. Ids(queue') = Ids(queue) \ Ids(now) BY <1>6, <1>12, <1>13, <1>14
<1>16. From(queue', queue, 1 .. Len(queue))
  <2>1. others \in Seq(Entry) /\ rest \in Seq(Entry) BY <1>6, <1>8 DEF Sound
  <2>2. From(others \o rest, queue, there \cup At(o)) BY <1>6, <1>8, <1>9, <2>1, FromJoin
  <2> QED BY <1>1, <1>9, <2>2, FromWider
<1>17. \A s \in Ids(now) : outcome[s] \in Pictures \cup {"failed"}
  <2>1. \A kind : Drawn(kind) \in Pictures \cup {"failed"} BY DEF Drawn, Pictures
  <2> QED BY <2>1
<1> HIDE DEF outcome
<1> DEFINE shown == Ids(now)
<1>18. shown \subseteq Ids(queue) BY <1>6, <1>13
<1> HIDE DEF shown
<1>19. late \subseteq shown /\ \A s \in late : outcome[s] \in Pictures BY <1>1, <1>17 DEF shown
<1>20. DOMAIN fenced' = DOMAIN fenced \cup late BY <1>1
<1>21. CpTyped'
  <2>1. DOMAIN fenced' \subseteq Shots BY <1>2, <1>20 DEF CpTypeOK
  <2>2. \A s \in DOMAIN fenced' : fenced'[s] = IF s \in late THEN outcome[s] ELSE fenced[s] BY <1>1, <1>20
  <2>3. Range(fenced') \subseteq Pictures BY <1>2, <1>19, <1>20, <2>2 DEF CpTypeOK, Range
  <2>4. shot' \in [Shots -> Fates]
    <3>1. \A s \in Shots : (IF s \in shown \ late THEN outcome[s] ELSE shot[s]) \in Fates
      BY <1>2, <1>17 DEF Fates, shown
    <3>2. shot' = [s \in Shots |-> IF s \in shown \ late THEN outcome[s] ELSE shot[s]] BY <1>1 DEF shown
    <3> QED BY <3>1, <3>2
  <2>5. cast' \in [Streams -> {"idle", "asked", "closed"}] BY <1>1, <1>2
  <2> QED BY <2>1, <2>3, <2>4, <2>5 DEF CpTyped
<1>22. \A s \in Shots \cap shown : shot[s] = "asked" /\ s \notin DOMAIN fenced
  BY <1>2, <1>18 DEF CpAccounts
<1>23. \A s \in Shots \cap shown :
         /\ s \in late => shot'[s] = "asked" /\ s \in DOMAIN fenced'
         /\ s \notin late => shot'[s] \in Pictures \cup {"failed"} /\ s \notin DOMAIN fenced'
  BY <1>1, <1>17, <1>20, <1>22 DEF shown
<1>24. \A s \in Shots \ shown : shot'[s] = shot[s] /\ (s \in DOMAIN fenced' <=> s \in DOMAIN fenced)
  BY <1>1, <1>19, <1>20 DEF shown
<1>25. /\ \A s \in Streams \cap shown : cast'[s] # "asked"
       /\ \A s \in Streams \ shown : cast'[s] = cast[s]
  BY <1>1 DEF shown
<1>26. Ids(queue') = Ids(queue) \ shown BY <1>15 DEF shown
<1>27. \A s \in Shots \cap shown : shot'[s] = "asked" <=> s \in DOMAIN fenced' /\ shot'[s] # "gone"
  BY <1>23 DEF Pictures
<1>28. \A s \in Shots \cap shown : s \in Ids(queue) BY <1>18
<1> QED BY <1>1, <1>14, <1>16, <1>21, <1>24, <1>25, <1>26, <1>27, <1>28, Leaves

LEMMA CpInvStep == CpInv /\ [CpNext]_cpVars => CpInv'
<1> SUFFICES ASSUME CpInv, [CpNext]_cpVars PROVE CpInv' OBVIOUS
<1>1. CASE UNCHANGED cpVars
  BY <1>1, CpIdle DEF cpVars, CpInv, CpTypeOK
<1>2. CASE SetLocked \/ SwitchVt \/ CloseWindow
  BY <1>2, CpIdle DEF SetLocked, SwitchVt, CloseWindow, CpInv, CpTypeOK
<1>3. CASE \E o \in Displays : SetPower(o) \/ Unplug(o)
  BY <1>3, CpIdle DEF SetPower, Unplug, CpInv, CpTypeOK
<1>4. CASE \E a \in Askers : ClientGone(a) BY <1>4, ClientGoneSafe
<1>5. CASE CpAsk BY <1>5, CopySafe, NewFrameSafe, RequestFrameSafe DEF CpAsk
<1>6. CASE CpServe
  BY <1>6, GiveUpSafe, RenderSafe, FenceReachedSafe DEF CpServe, FailUnlit, CleanUp, DrawSome
<1> QED BY <1>1, <1>2, <1>3, <1>4, <1>5, <1>6 DEF CpNext, CpWorld

(* Every capture that was taken in waits in exactly one place until it is   *)
(* answered, and no client's and no output's share of the queue is          *)
(* overrun, whatever is merged, deferred, refused or withdrawn              *)
(* (queue_capture and render_pending_captures).                             *)
THEOREM CapturesAreKept == CpSpec => []CapturesKept
<1>1. CpInit => CpInv BY CpInitInv
<1>2. CpInv /\ [CpNext]_cpVars => CpInv' BY CpInvStep
<1>3. CpInv => CapturesKept BY CpInvKeeps
<1> QED BY <1>1, <1>2, <1>3, PTL DEF CpSpec

-----------------------------------------------------------------------------
(* Portal sessions: every question answered, every thread owned *)

CpoTyped ==
  /\ entry \in [Portals -> {"none", "idle", "starting", "active", "closed"}]
  /\ call \in [Portals -> {"no", "picking", "picked", "launching", "launched"}]
  /\ answer \in [Portals -> {"none", "choice", "cancel"}]
  /\ thread \in [Portals -> {"none", "starting", "failed", "live", "dead"}]
  /\ picks \in Seq(Portals) /\ picker \in Portals \cup {NoPicker}

InPicks(p) == \E i \in DOMAIN picks : picks[i] = p

\* The three places are of a Start that waits for the user and of no other, and the
\* channel holds it once.
Questions ==
  /\ \A p \in Portals : InPicks(p) => call[p] = "picking" /\ picker # p /\ answer[p] = "none"
  /\ \A p \in Portals : picker = p => call[p] = "picking" /\ answer[p] = "none"
  /\ \A p \in Portals : answer[p] # "none" => call[p] = "picking"
  /\ \A p \in Portals : call[p] = "picking" => InPicks(p) \/ picker = p \/ answer[p] # "none"
  /\ \A i, j \in DOMAIN picks : picks[i] = picks[j] => i = j

\* Only a registered session starts.
StartsUsable == \A p \in Portals : entry[p] \in {"starting", "active"} => p \in usable

CpoInv == CpoTyped /\ Questions /\ StartsUsable /\ PortalThreadsOwned

-----------------------------------------------------------------------------
(* Sessions of the Mutter service: nothing without an owner *)

ScTyped ==
  /\ registry \in [Buses -> SUBSET Sessions] /\ owner \in [Sessions -> Buses \cup {Nobody}]
  /\ creating \in [Sessions -> {"no", "reserved", "served"}]
  /\ recording \in [Sessions -> Nat] /\ slots \in [Sessions -> Int]
  /\ streams \in [Sessions -> [Tracks -> {"absent", "idle", "held"}]]
  /\ starting \in [Sessions -> {"no", "spawned", "passed"}]
  /\ worker \in [Sessions -> [Tracks -> {"none", "starting", "failed", "live", "dead"}]]
  /\ object \cup closed \cup stopping \cup abandoning \subseteq Sessions
  /\ onBus \cup leftBus \subseteq Buses

\* Nothing exists of a path that was not reserved, and a reserved one is in nobody's
\* hands before it is served.
Reserved ==
  /\ \A s \in Sessions : owner[s] = Nobody =>
       creating[s] = "no" /\ s \notin object /\ s \notin stopping
  /\ \A s \in Sessions : creating[s] = "reserved" =>
       /\ s \notin object /\ s \notin stopping
       /\ owner[s] \in onBus => s \in registry[owner[s]]

\* A session that can be called is registered, or what will take it away is under way.
Accounted ==
  \A s \in object : s \in registry[owner[s]] \/ s \in abandoning \/ s \in stopping
                      \/ (creating[s] = "served" /\ owner[s] \notin onBus)

\* Who left is not registered once the watcher heard of it.
Departed ==
  /\ onBus \cap leftBus = {}
  /\ \A b \in Buses : \A s \in registry[b] : owner[s] = b /\ b \in onBus \cup leftBus

\* Streams are of an open session that can be called.
Streaming ==
  \A s \in Sessions :
    /\ \A t \in Tracks : streams[s][t] # "absent" => s \in object \ closed
    /\ recording[s] > 0 \/ starting[s] # "no" => s \in object \cup closed
    /\ s \in stopping => s \in closed

\* The slots count what is recorded and what is being recorded.
SlotsCount ==
  \A s \in Sessions : s \notin closed =>
    slots[s] <= MaxStreams /\ Cardinality(Recorded(s)) + recording[s] = slots[s]

\* A client's share of the registry
ShareKept == \A b \in Buses : IsFiniteSet(registry[b]) /\ Cardinality(registry[b]) <= MaxPerBus

ScInv ==
  ScTyped /\ Reserved /\ Accounted /\ Departed /\ Streaming /\ SlotsCount /\ ShareKept /\ WorkersOwned

-----------------------------------------------------------------------------
(* Reloads: what is watched is what runs *)

\* While the loop reads, the main file is read or to be read, and the file a failed
\* load would fall back to is one of the running graph.
ReadsMain ==
  /\ phase = "read" => path \in DOMAIN got \cup todo
  /\ phase = "watch" => path \in DOMAIN got
  /\ target = path

\* Between the steps of a reload the watcher knows the graph that runs, but for the
\* directories not yet given up and the filter not yet swapped.
Watching ==
  /\ phase \in {"idle", "read", "watch"} =>
       relevant = DOMAIN running /\ dirs = Dirs(relevant) /\ fallback \in relevant
  /\ phase = "idle" => path = fallback
  /\ phase = "unwatch" => relevant = DOMAIN running
  /\ phase \in {"filter", "unwatch"} => path \in DOMAIN running

\* The main file in force is the one that runs, unless the panel is up.
Rooted ==
  /\ root \in DOMAIN running
  /\ phase \in {"idle", "read", "watch"} /\ fallback # root => failed = TRUE
  /\ phase \in {"filter", "unwatch"} => path = root

\* A file the watcher filters by is in a directory it watches, at every step.
Heard ==
  /\ Dirs(relevant) \subseteq dirs
  /\ phase \in {"filter", "unwatch"} => Dirs(DOMAIN running) \subseteq dirs

\* What was read is what is on disk, or its change is on its way or came too early.
Told(r) == \A g \in DOMAIN r : r[g] = disk[g] \/ g \in raised \cup unread \cup early
Following ==
  /\ phase = "idle" => failed = TRUE \/ Told(running)
  /\ phase \in {"read", "watch"} => Told(got)
  /\ phase \in {"filter", "unwatch"} => Told(running)

CrInv == CrTypeOK /\ NoChangeIsLost /\ ReadsMain /\ Watching /\ Rooted /\ Heard /\ Following

-----------------------------------------------------------------------------
(* The portal's steps *)

LEMMA CpoInitInv == CpoInit => CpoInv
<1> SUFFICES ASSUME CpoInit PROVE CpoInv
  OBVIOUS
<1>1. CpoTyped BY DEF CpoInit, CpoTyped
<1>2. Questions BY CastPortalAssumption DEF CpoInit, Questions, InPicks
<1>3. StartsUsable BY DEF CpoInit, StartsUsable
<1>4. PortalThreadsOwned BY DEF CpoInit, PortalThreadsOwned
<1> QED BY <1>1, <1>2, <1>3, <1>4 DEF CpoInv

LEMMA CpoInvSettles == CpoInv => StartsSettled
<1> SUFFICES ASSUME CpoInv, NEW p \in Portals, call[p] = "picking"
             PROVE  (IF p \in Range(picks) THEN 1 ELSE 0) + (IF picker = p THEN 1 ELSE 0)
                      + (IF answer[p] /= "none" THEN 1 ELSE 0) = 1
  BY DEF CpoInv, StartsSettled, PicksAnswered
<1>1. p \in Range(picks) <=> InPicks(p) BY DEF Range, InPicks
<1>2. /\ InPicks(p) => picker # p /\ answer[p] = "none"
      /\ picker = p => answer[p] = "none"
      /\ InPicks(p) \/ picker = p \/ answer[p] # "none"
  BY DEF CpoInv, Questions
<1> QED BY <1>1, <1>2

\* A step that leaves the questions and who waits for them alone
LEMMA QuestionsStay ==
  ASSUME Questions, UNCHANGED pickVars,
         \A p \in Portals : (call'[p] = "picking") <=> (call[p] = "picking")
  PROVE  Questions'
  BY DEF Questions, InPicks, pickVars

LEMMA CreatePortalKeeps ==
  ASSUME CpoInv, NEW p \in Portals, CreatePortal(p) \/ RegisterPortal(p)
  PROVE  CpoInv'
<1> USE DEF CpoInv, CreatePortal, RegisterPortal
<1>1. CpoTyped' BY DEF CpoTyped, pickVars
<1>2. Questions' BY QuestionsStay
<1>3. StartsUsable' BY DEF CpoTyped, StartsUsable
<1>4. PortalThreadsOwned' BY DEF CpoTyped, StartsUsable, PortalThreadsOwned
<1> QED BY <1>1, <1>2, <1>3, <1>4

LEMMA BeginStartKeeps ==
  ASSUME CpoInv, NEW p \in Portals, BeginStart(p)
  PROVE  CpoInv'
<1> USE DEF CpoInv, BeginStart
<1>1. CpoTyped' BY DEF CpoTyped
<1>2. Questions'
  <2>1. /\ Len(picks') = Len(picks) + 1 /\ DOMAIN picks' = 1 .. Len(picks')
        /\ DOMAIN picks = 1 .. Len(picks) /\ Len(picks) \in Nat
        /\ \A i \in DOMAIN picks : picks'[i] = picks[i]
        /\ picks'[Len(picks) + 1] = p
    BY DEF CpoTyped
  <2>2. \A q \in Portals : InPicks(q)' <=> InPicks(q) \/ q = p
    BY <2>1 DEF InPicks
  <2>3. ~InPicks(p) /\ picker # p /\ answer[p] = "none"
    BY DEF Questions
  <2>4. call' = [call EXCEPT ![p] = "picking"] /\ UNCHANGED <<picker, answer>> /\ call[p] = "no"
    OBVIOUS
  <2>5. \A q \in Portals : q # p => call'[q] = call[q] BY <2>4 DEF CpoTyped
  <2>6. call'[p] = "picking" BY <2>4 DEF CpoTyped
  <2>7. \A i, j \in DOMAIN picks' : picks'[i] = picks'[j] => i = j
    <3> SUFFICES ASSUME NEW i \in DOMAIN picks', NEW j \in DOMAIN picks', picks'[i] = picks'[j]
                 PROVE  i = j
      OBVIOUS
    <3>1. \A k \in DOMAIN picks' : k \in DOMAIN picks \/ k = Len(picks) + 1 BY <2>1
    <3>2. \A k \in DOMAIN picks : picks[k] # p BY <2>3 DEF InPicks
    <3> QED BY <2>1, <3>1, <3>2 DEF Questions
  <2> QED BY <2>2, <2>3, <2>4, <2>5, <2>6, <2>7 DEF Questions
<1>3. StartsUsable' BY DEF CpoTyped, StartsUsable
<1>4. PortalThreadsOwned' BY DEF CpoTyped, PortalThreadsOwned
<1> QED BY <1>1, <1>2, <1>3, <1>4

LEMMA OpenPickerKeeps ==
  ASSUME CpoInv, OpenPicker
  PROVE  CpoInv'
<1> DEFINE p == Head(picks)
           cancelled == IF picker = NoPicker THEN answer ELSE Reply(picker, "cancel")
<1>1. /\ Len(picks) \in Nat \ {0} /\ DOMAIN picks = 1 .. Len(picks)
      /\ picks' = Tail(picks) /\ picks' \in Seq(Portals)
      /\ p = picks[1] /\ p \in Portals
      /\ DOMAIN picks' = 1 .. Len(picks) - 1
      /\ \A i \in DOMAIN picks' : i + 1 \in DOMAIN picks /\ picks'[i] = picks[i + 1]
  BY SMT DEF OpenPicker, CpoInv, CpoTyped
<1>2. /\ UNCHANGED <<entry, listed, usable, call, thread, attached, curtain>>
      /\ \/ /\ picker' = NoPicker
            /\ \E what \in {"cancel", "choice"} : answer' = [cancelled EXCEPT ![p] = what]
         \/ picker' = p /\ answer' = cancelled
  BY DEF OpenPicker
<1> HIDE DEF p
<1>3. call[p] = "picking" /\ picker # p /\ answer[p] = "none"
  BY <1>1 DEF CpoInv, Questions, InPicks
<1>4. cancelled \in [Portals -> {"none", "choice", "cancel"}]
  BY DEF CpoInv, CpoTyped, Reply
<1>5. \A q \in Portals : cancelled[q] # "none" <=> answer[q] # "none" \/ picker = q
  BY CastPortalAssumption DEF CpoInv, CpoTyped, Reply
<1> HIDE DEF cancelled
<1>6. /\ picker' \in {p, NoPicker} /\ answer' \in [Portals -> {"none", "choice", "cancel"}]
      /\ \A q \in Portals \ {p} : answer'[q] = cancelled[q]
      /\ picker' = NoPicker => answer'[p] # "none"
      /\ picker' = p => answer'[p] = "none"
  BY <1>1, <1>2, <1>3, <1>4, <1>5, CastPortalAssumption
<1>7. CpoTyped' BY <1>1, <1>2, <1>6 DEF CpoInv, CpoTyped
<1>8. \A q \in Portals : InPicks(q)' <=> InPicks(q) /\ q # p
  <2> SUFFICES ASSUME NEW q \in Portals PROVE InPicks(q)' <=> InPicks(q) /\ q # p
    OBVIOUS
  <2>1. ASSUME NEW i \in DOMAIN picks', picks'[i] = q PROVE InPicks(q) /\ q # p
    <3>1. i + 1 \in DOMAIN picks /\ picks[i + 1] = q /\ 1 \in DOMAIN picks /\ i + 1 # 1
      BY <1>1, <2>1
    <3> QED BY <1>1, <3>1 DEF CpoInv, Questions, InPicks
  <2>2. ASSUME NEW i \in DOMAIN picks, picks[i] = q, q # p PROVE InPicks(q)'
    <3>1. i # 1 BY <1>1, <2>2
    <3>2. i - 1 \in DOMAIN picks' /\ picks'[i - 1] = picks[(i - 1) + 1] BY <1>1, <3>1
    <3>3. (i - 1) + 1 = i BY <1>1
    <3> QED BY <2>2, <3>2, <3>3 DEF InPicks
  <2> QED BY <2>1, <2>2 DEF InPicks
<1>9. \A i, j \in DOMAIN picks' : picks'[i] = picks'[j] => i = j
  <2> SUFFICES ASSUME NEW i \in DOMAIN picks', NEW j \in DOMAIN picks', picks'[i] = picks'[j]
               PROVE  i = j
    OBVIOUS
  <2>1. i + 1 = j + 1 BY <1>1 DEF CpoInv, Questions
  <2> QED BY <1>1, <2>1
<1>10. \A q \in Portals : InPicks(q) => call[q] = "picking" /\ picker # q /\ answer[q] = "none"
  BY DEF CpoInv, Questions
<1>11. \A q \in Portals : picker = q => call[q] = "picking" /\ answer[q] = "none"
  BY DEF CpoInv, Questions
<1>12. \A q \in Portals : (answer[q] # "none" => call[q] = "picking")
                          /\ (call[q] = "picking" => InPicks(q) \/ picker = q \/ answer[q] # "none")
  BY DEF CpoInv, Questions
<1>13. call' = call BY <1>2
<1>14. Questions'
  BY <1>1, <1>3, <1>5, <1>6, <1>8, <1>9, <1>10, <1>11, <1>12, <1>13, CastPortalAssumption DEF Questions
<1>15. StartsUsable' /\ PortalThreadsOwned'
  BY <1>2 DEF CpoInv, StartsUsable, PortalThreadsOwned
<1> QED BY <1>7, <1>14, <1>15 DEF CpoInv

LEMMA ChooseKeeps ==
  ASSUME CpoInv, NEW what \in {"choice", "cancel"}, Choose(what)
  PROVE  CpoInv'
<1> USE DEF CpoInv, Choose, Reply
<1>1. CpoTyped' BY DEF CpoTyped
<1>2. \A q \in Portals : answer'[q] # "none" <=> answer[q] # "none" \/ picker = q
  BY CastPortalAssumption DEF CpoTyped
<1>3. Questions' BY <1>2, CastPortalAssumption DEF Questions, InPicks
<1>4. StartsUsable' /\ PortalThreadsOwned' BY DEF StartsUsable, PortalThreadsOwned
<1> QED BY <1>1, <1>3, <1>4

LEMMA ChosenKeeps ==
  ASSUME CpoInv, NEW p \in Portals, Chosen(p)
  PROVE  CpoInv'
<1> USE DEF CpoInv, Chosen, Reply, Unreserve
<1>1. CpoTyped'
  <2>1. CASE answer[p] = "choice" BY <2>1 DEF CpoTyped
  <2>2. CASE answer[p] # "choice" BY <2>2 DEF CpoTyped
  <2> QED BY <2>1, <2>2
<1>2. /\ \A q \in Portals : answer'[q] # "none" <=> answer[q] # "none" /\ q # p
      /\ \A q \in Portals : call'[q] = "picking" <=> call[q] = "picking" /\ q # p
  BY DEF CpoTyped
<1>3. Questions'
  <2>1. ~InPicks(p) /\ picker # p BY DEF Questions
  <2> QED BY <1>2, <2>1 DEF Questions, InPicks
<1>4. StartsUsable' BY DEF CpoTyped, StartsUsable
<1>5. PortalThreadsOwned' BY DEF CpoTyped, PortalThreadsOwned
<1> QED BY <1>1, <1>3, <1>4, <1>5

LEMMA LaunchedKeeps ==
  ASSUME CpoInv, NEW p \in Portals, Launched(p) \/ Complete(p) \/ ThreadMoves(p) \/ ClosePortal(p)
  PROVE  CpoInv'
<1> USE DEF CpoInv
<1>1. CASE Launched(p)
  <2> USE <1>1 DEF Launched, Unreserve
  <2>1. CpoTyped' BY DEF CpoTyped, pickVars
  <2>2. \A q \in Portals : (call'[q] = "picking") <=> (call[q] = "picking") BY DEF CpoTyped
  <2>3. Questions' BY <2>2, QuestionsStay
  <2>4. StartsUsable' BY DEF CpoTyped, StartsUsable
  <2>5. PortalThreadsOwned' BY DEF CpoTyped, PortalThreadsOwned
  <2> QED BY <2>1, <2>3, <2>4, <2>5
<1>2. CASE Complete(p)
  <2> USE <1>2 DEF Complete
  <2>1. CpoTyped' BY DEF CpoTyped, pickVars
  <2>2. \A q \in Portals : (call'[q] = "picking") <=> (call[q] = "picking") BY DEF CpoTyped
  <2>3. Questions' BY <2>2, QuestionsStay
  <2>4. StartsUsable' BY DEF CpoTyped, StartsUsable
  <2>5. PortalThreadsOwned' BY DEF CpoTyped, PortalThreadsOwned
  <2> QED BY <2>1, <2>3, <2>4, <2>5
<1>3. CASE ThreadMoves(p)
  <2> USE <1>3 DEF ThreadMoves
  <2>1. CpoTyped' BY DEF CpoTyped, pickVars
  <2>2. Questions' BY QuestionsStay
  <2>3. StartsUsable' BY DEF StartsUsable
  <2>4. PortalThreadsOwned' BY DEF CpoTyped, PortalThreadsOwned
  <2> QED BY <2>1, <2>2, <2>3, <2>4
<1>4. CASE ClosePortal(p)
  <2> USE <1>4 DEF ClosePortal
  <2>1. CpoTyped' BY DEF CpoTyped, pickVars
  <2>2. Questions' BY QuestionsStay
  <2>3. StartsUsable' BY DEF CpoTyped, StartsUsable
  <2>4. PortalThreadsOwned' BY DEF CpoTyped, PortalThreadsOwned
  <2> QED BY <2>1, <2>2, <2>3, <2>4
<1> QED BY <1>1, <1>2, <1>3, <1>4

LEMMA CpoStep == CpoInv /\ [CpoNext]_cpoVars => CpoInv'
<1> SUFFICES ASSUME CpoInv, [CpoNext]_cpoVars PROVE CpoInv'
  OBVIOUS
<1>1. CASE UNCHANGED <<entry, listed, usable, call, pickVars, thread, attached>>
  BY <1>1 DEF CpoInv, CpoTyped, Questions, InPicks, StartsUsable, PortalThreadsOwned, pickVars
<1>2. CASE Curtain BY <1>1, <1>2 DEF Curtain
<1>3. CASE UNCHANGED cpoVars BY <1>1, <1>3 DEF cpoVars, pickVars
<1> QED
  BY <1>2, <1>3, CreatePortalKeeps, BeginStartKeeps, OpenPickerKeeps, ChooseKeeps, ChosenKeeps,
     LaunchedKeeps DEF CpoNext, CpoStart

-----------------------------------------------------------------------------
(* The Mutter service's steps *)

LEMMA ScInitInv == ScInit => ScInv
<1> SUFFICES ASSUME ScInit PROVE ScInv
  OBVIOUS
<1>1. ScTyped BY DEF ScInit, ScTyped
<1>2. Reserved BY DEF ScInit, Reserved
<1>3. Accounted /\ Departed /\ Streaming BY ScreencastAssumption DEF ScInit, Accounted, Departed, Streaming
<1>4. SlotsCount
  <2>1. \A s \in Sessions : Recorded(s) = {} BY DEF ScInit, Recorded
  <2>2. \A s \in Sessions : Cardinality(Recorded(s)) = 0 BY <2>1, FS_EmptySet
  <2>3. \A s \in Sessions : slots[s] = 0 /\ recording[s] = 0 BY DEF ScInit
  <2> QED BY <2>2, <2>3, ScreencastAssumption DEF SlotsCount
<1>5. ShareKept BY FS_EmptySet, ScreencastAssumption DEF ScInit, ShareKept
<1>6. WorkersOwned BY DEF ScInit, WorkersOwned
<1> QED BY <1>1, <1>2, <1>3, <1>4, <1>5, <1>6 DEF ScInv

LEMMA TracksFinite ==
  ASSUME NEW T \in SUBSET Tracks
  PROVE  IsFiniteSet(T) /\ Cardinality(T) \in Nat /\ Cardinality(T) <= MaxStreams
         /\ (Cardinality(T) = MaxStreams => T = Tracks)
<1>1. IsFiniteSet(Tracks) /\ Cardinality(Tracks) = MaxStreams
  BY FS_Interval, ScreencastAssumption DEF Tracks
<1> QED BY <1>1, FS_Subset, FS_CardinalityType

LEMMA RecordedTracks ==
  ASSUME NEW s
  PROVE  Recorded(s) \in SUBSET Tracks
  BY DEF Recorded

\* While nobody's registration is touched, the client-side parts of the invariant stay.
LEMMA BusStays ==
  ASSUME ScInv, UNCHANGED <<busVars, object, abandoning, stopping>>
  PROVE  Reserved' /\ Accounted' /\ Departed' /\ ShareKept'
  BY DEF ScInv, Reserved, Accounted, Departed, ShareKept, busVars

\* And while no call of a session moves, the rest.
LEMMA CallsStay ==
  ASSUME ScInv, UNCHANGED <<closed, callVars, streams>>
  PROVE  SlotsCount'
  BY DEF ScInv, SlotsCount, callVars, Recorded

LEMMA WorkersStay ==
  ASSUME ScInv, UNCHANGED <<closed, callVars, streams, worker>>
  PROVE  WorkersOwned'
  BY DEF ScInv, WorkersOwned, callVars

\* What Accounted and the rest say of the client side, session by session.
LEMMA ReserveKeeps ==
  ASSUME ScInv, NEW s \in Sessions, NEW b \in Buses, Reserve(s, b)
  PROVE  ScInv'
<1> USE DEF ScInv, Reserve
<1>1. ScTyped' BY DEF ScTyped, callVars
<1>2. registry' = [registry EXCEPT ![b] = @ \cup {s}] /\ owner' = [owner EXCEPT ![s] = b]
      /\ creating' = [creating EXCEPT ![s] = "reserved"] /\ owner[s] = Nobody /\ b \in onBus
      /\ UNCHANGED <<onBus, leftBus, object, closed, callVars, streams, abandoning, stopping, worker>>
  OBVIOUS
<1>3. /\ \A t \in Sessions : t # s => owner'[t] = owner[t] /\ creating'[t] = creating[t]
      /\ owner'[s] = b /\ creating'[s] = "reserved"
      /\ \A c \in Buses : registry'[c] = registry[c] \cup (IF c = b THEN {s} ELSE {})
  BY <1>2 DEF ScTyped
<1>4. s \notin object /\ s \notin stopping /\ b # Nobody
  BY <1>2, ScreencastAssumption DEF Reserved
<1>5. Reserved' BY <1>2, <1>3, <1>4 DEF Reserved, ScTyped
<1>6. Accounted'
  <2> SUFFICES ASSUME NEW t \in object
               PROVE  t \in registry'[owner'[t]] \/ t \in abandoning \/ t \in stopping
                        \/ (creating'[t] = "served" /\ owner'[t] \notin onBus)
    BY <1>2 DEF Accounted
  <2>1. t # s /\ t \in Sessions BY <1>4 DEF ScTyped
  <2>2. owner[t] \in Buses BY <2>1 DEF Reserved, ScTyped
  <2> QED BY <1>3, <2>1, <2>2 DEF Accounted
<1>7. Departed'
  <2>1. ASSUME NEW c \in Buses, NEW t \in registry'[c] PROVE owner'[t] = c /\ c \in onBus \cup leftBus
    <3>1. CASE t = s
      <4>1. s \notin registry[c] BY <1>2, ScreencastAssumption DEF Departed
      <4> QED BY <1>2, <1>3, <2>1, <3>1, <4>1
    <3>2. CASE t # s
      <4>1. t \in registry[c] /\ t \in Sessions BY <1>3, <2>1, <3>2 DEF ScTyped
      <4> QED BY <1>3, <3>2, <4>1 DEF Departed
    <3> QED BY <3>1, <3>2
  <2> QED BY <1>2, <2>1 DEF Departed
<1>8. Streaming' BY <1>2 DEF Streaming, callVars
<1>9. SlotsCount' BY <1>2, CallsStay
<1>10. ShareKept'
  <2>1. IsFiniteSet(registry[b]) /\ Cardinality(registry[b]) < MaxPerBus BY DEF ShareKept
  <2>2. Cardinality(registry[b]) \in Nat BY <2>1, FS_CardinalityType
  <2>3. IsFiniteSet(registry[b] \cup {s}) /\ Cardinality(registry[b] \cup {s}) <= Cardinality(registry[b]) + 1
    <3> DEFINE R == registry[b]
    <3>1. IsFiniteSet(R \cup {s})
          /\ Cardinality(R \cup {s}) = IF s \in R THEN Cardinality(R) ELSE Cardinality(R) + 1
      <4> HIDE DEF R
      <4>1. IsFiniteSet(R) BY <2>1 DEF R
      <4> QED BY ONLY <4>1, FS_AddElement
    <3> QED BY <2>2, <3>1
  <2>4. IsFiniteSet(registry[b] \cup {s}) /\ Cardinality(registry[b] \cup {s}) <= MaxPerBus
    <3>1. Cardinality(registry[b] \cup {s}) \in Nat BY <2>3, FS_CardinalityType
    <3> QED BY <2>1, <2>2, <2>3, <3>1, ScreencastAssumption
  <2>5. registry'[b] = registry[b] \cup {s} /\ \A c \in Buses : c # b => registry'[c] = registry[c]
    BY <1>3
  <2> QED BY <2>4, <2>5 DEF ShareKept
<1>11. WorkersOwned' BY <1>2, WorkersStay
<1> QED BY <1>1, <1>5, <1>6, <1>7, <1>8, <1>9, <1>10, <1>11

\* SessionRegistry::remove: the entry of s goes, every other stays.
LEMMA ForgetKeeps ==
  ASSUME ScInv, NEW s \in Sessions, owner[s] \in Buses, Forget(s)
  PROVE  /\ registry' \in [Buses -> SUBSET Sessions] /\ ShareKept'
         /\ \A b \in Buses : \A t \in Sessions : t \in registry'[b] => t \in registry[b]
         /\ \A b \in Buses : \A t \in Sessions \ {s} : t \in registry[b] => t \in registry'[b]
<1>1. /\ registry' \in [Buses -> SUBSET Sessions]
      /\ registry'[owner[s]] = registry[owner[s]] \ {s}
      /\ \A b \in Buses : b # owner[s] => registry'[b] = registry[b]
  BY DEF Forget, ScInv, ScTyped
<1>2. ASSUME NEW b \in Buses PROVE IsFiniteSet(registry'[b]) /\ Cardinality(registry'[b]) <= MaxPerBus
  <2>1. IsFiniteSet(registry[b]) /\ Cardinality(registry[b]) <= MaxPerBus BY DEF ScInv, ShareKept
  <2>2. registry'[b] \in SUBSET registry[b] BY <1>1
  <2>3. /\ IsFiniteSet(registry'[b]) /\ Cardinality(registry'[b]) <= Cardinality(registry[b])
        /\ Cardinality(registry[b]) \in Nat /\ Cardinality(registry'[b]) \in Nat
    BY <2>1, <2>2, FS_Subset, FS_CardinalityType
  <2> QED BY <2>1, <2>3, ScreencastAssumption
<1>3. ShareKept' BY <1>2 DEF ShareKept
<1> QED BY <1>1, <1>3

LEMMA ServeKeeps ==
  ASSUME ScInv, NEW s \in Sessions, Serve(s)
  PROVE  ScInv'
<1> USE DEF ScInv
<1>1. /\ creating[s] = "reserved" /\ creating' \in [Sessions -> {"no", "reserved", "served"}]
      /\ creating'[s] \in {"served", "no"} /\ \A t \in Sessions : t # s => creating'[t] = creating[t]
      /\ UNCHANGED <<onBus, leftBus, owner, closed, callVars, streams, abandoning, stopping, worker>>
      /\ object' \subseteq object \cup {s}
  BY DEF Serve, ScTyped
<1>2. /\ owner[s] \in Buses /\ s \notin object /\ s \notin stopping
      /\ owner[s] \in onBus => s \in registry[owner[s]]
  BY <1>1 DEF Reserved, ScTyped
<1>3. CASE object' = object \cup {s} /\ creating'[s] = "served" /\ UNCHANGED registry
  <2>1. ScTyped' BY <1>1, <1>3 DEF ScTyped, callVars
  <2>2. Reserved' BY <1>1, <1>2, <1>3, ScreencastAssumption DEF Reserved
  <2>3. Accounted' BY <1>1, <1>2, <1>3 DEF Accounted, ScTyped
  <2>4. Departed' /\ ShareKept' BY <1>1, <1>3 DEF Departed, ShareKept
  <2>5. Streaming' BY <1>1, <1>3 DEF Streaming, callVars
  <2> QED BY <1>1, <2>1, <2>2, <2>3, <2>4, <2>5, CallsStay, WorkersStay
<1>4. CASE Forget(s) /\ creating'[s] = "no" /\ UNCHANGED object
  <2>1. /\ registry' \in [Buses -> SUBSET Sessions] /\ ShareKept'
        /\ \A b \in Buses : \A t \in Sessions : t \in registry'[b] => t \in registry[b]
        /\ \A b \in Buses : \A t \in Sessions \ {s} : t \in registry[b] => t \in registry'[b]
    BY <1>2, <1>4, ForgetKeeps
  <2>2. ScTyped' BY <1>1, <1>4, <2>1 DEF ScTyped, callVars
  <2>3. Reserved' BY <1>1, <1>2, <1>4, <2>1, ScreencastAssumption DEF Reserved, ScTyped
  <2>4. Accounted'
    <3> SUFFICES ASSUME NEW t \in object
                 PROVE  t \in registry'[owner[t]] \/ t \in abandoning \/ t \in stopping
                          \/ (creating'[t] = "served" /\ owner[t] \notin onBus)
      BY <1>1, <1>4 DEF Accounted
    <3>1. t \in Sessions \ {s} /\ owner[t] \in Buses BY <1>2 DEF ScTyped, Reserved
    <3> QED BY <1>1, <2>1, <3>1 DEF Accounted
  <2>5. Departed' BY <1>1, <2>1 DEF Departed, ScTyped
  <2>6. Streaming' BY <1>1, <1>4 DEF Streaming, callVars
  <2> QED BY <1>1, <2>1, <2>2, <2>3, <2>4, <2>5, <2>6, CallsStay, WorkersStay
<1> QED BY <1>1, <1>3, <1>4 DEF Serve, ScTyped

LEMMA CheckOwnerKeeps ==
  ASSUME ScInv, NEW s \in Sessions, CheckOwner(s)
  PROVE  ScInv'
<1> USE DEF ScInv
<1>1. /\ creating[s] = "served" /\ creating' \in [Sessions -> {"no", "reserved", "served"}]
      /\ creating'[s] = "no" /\ \A t \in Sessions : t # s => creating'[t] = creating[t]
      /\ UNCHANGED <<onBus, leftBus, owner, object, closed, callVars, streams, stopping, worker>>
  BY DEF CheckOwner, ScTyped
<1>2. owner[s] \in Buses BY <1>1 DEF Reserved, ScTyped
<1>3. SlotsCount' /\ WorkersOwned' BY <1>1, CallsStay, WorkersStay
<1>4. CASE owner[s] \in onBus /\ UNCHANGED <<registry, abandoning>>
  <2>1. ScTyped' BY <1>1, <1>4 DEF ScTyped, callVars
  <2>2. Reserved' BY <1>1, <1>4 DEF Reserved
  <2>3. Accounted' BY <1>1, <1>4 DEF Accounted, ScTyped
  <2>4. Departed' /\ ShareKept' BY <1>1, <1>4 DEF Departed, ShareKept
  <2>5. Streaming' BY <1>1, <1>4 DEF Streaming, callVars
  <2> QED BY <1>3, <2>1, <2>2, <2>3, <2>4, <2>5
<1>5. CASE Forget(s) /\ abandoning' = abandoning \cup {s}
  <2>1. /\ registry' \in [Buses -> SUBSET Sessions] /\ ShareKept'
        /\ \A b \in Buses : \A t \in Sessions : t \in registry'[b] => t \in registry[b]
        /\ \A b \in Buses : \A t \in Sessions \ {s} : t \in registry[b] => t \in registry'[b]
    BY <1>2, <1>5, ForgetKeeps
  <2>2. ScTyped' BY <1>1, <1>5, <2>1 DEF ScTyped, callVars
  <2>3. Reserved' BY <1>1, <1>2, <2>1 DEF Reserved, ScTyped
  <2>4. Accounted'
    <3> SUFFICES ASSUME NEW t \in object, t # s
                 PROVE  t \in registry'[owner[t]] \/ t \in abandoning \/ t \in stopping
                          \/ (creating'[t] = "served" /\ owner[t] \notin onBus)
      BY <1>1, <1>5 DEF Accounted
    <3>1. t \in Sessions \ {s} /\ owner[t] \in Buses BY DEF ScTyped, Reserved
    <3> QED BY <1>1, <2>1, <3>1 DEF Accounted
  <2>5. Departed' BY <1>1, <2>1 DEF Departed, ScTyped
  <2>6. Streaming' BY <1>1, <1>5 DEF Streaming, callVars
  <2> QED BY <1>3, <2>1, <2>2, <2>3, <2>4, <2>5, <2>6
<1> QED BY <1>4, <1>5 DEF CheckOwner

\* The bus client goes: what it owns is still registered, and the watcher will hear.
LEMMA LeaveBusKeeps ==
  ASSUME ScInv, NEW b \in Buses, LeaveBus(b)
  PROVE  ScInv'
<1> USE DEF ScInv, LeaveBus
<1>1. ScTyped' BY DEF ScTyped, callVars
<1>2. Reserved' BY DEF Reserved
<1>3. Accounted' BY DEF Accounted
<1>4. Departed' BY DEF Departed
<1>5. Streaming' BY DEF Streaming, callVars
<1>6. ShareKept' BY DEF ShareKept
<1> QED BY <1>1, <1>2, <1>3, <1>4, <1>5, <1>6, CallsStay, WorkersStay

\* The watcher hears of it: every registration goes at once.
LEMMA WatchKeeps ==
  ASSUME ScInv, NEW b \in Buses, Watch(b)
  PROVE  ScInv'
<1> USE DEF ScInv
<1>1. /\ b \in leftBus /\ abandoning = {} /\ leftBus' = leftBus \ {b} /\ abandoning' = registry[b]
      /\ registry' \in [Buses -> SUBSET Sessions] /\ registry'[b] = {}
      /\ \A c \in Buses : c # b => registry'[c] = registry[c]
      /\ UNCHANGED <<onBus, owner, creating, object, closed, callVars, streams, stopping, worker>>
  BY DEF Watch, ScTyped
<1>2. b \notin onBus BY <1>1 DEF Departed
<1>3. ScTyped' BY <1>1 DEF ScTyped, callVars
<1>4. Reserved' BY <1>1, <1>2 DEF Reserved, ScTyped
<1>5. Accounted'
  <2> SUFFICES ASSUME NEW t \in object
               PROVE  t \in registry'[owner[t]] \/ t \in registry[b] \/ t \in stopping
                        \/ (creating[t] = "served" /\ owner[t] \notin onBus)
    BY <1>1 DEF Accounted
  <2>1. owner[t] \in Buses BY DEF ScTyped, Reserved
  <2> QED BY <1>1, <2>1 DEF Accounted
<1>6. Departed' BY <1>1 DEF Departed
<1>7. Streaming' BY <1>1 DEF Streaming, callVars
<1>8. ShareKept' BY <1>1, FS_EmptySet, ScreencastAssumption DEF ShareKept
<1> QED BY <1>1, <1>3, <1>4, <1>5, <1>6, <1>7, <1>8, CallsStay, WorkersStay

\* The next step of a call takes a slot, and gives it back or uses it: the first free
\* track is a free one, so that no stream another call started is overwritten.
LEMMA LeastTrack ==
  ASSUME NEW T \in SUBSET Tracks, T # {}
  PROVE  Min(T) \in T
<1>1. T \in SUBSET Nat BY ScreencastAssumption DEF Tracks
<1>2. \E d \in T : \A e \in T : ~ (<<e, d>> \in OpToRel(<, Nat))
  BY <1>1, NatLessThanWellFounded, WFMin
<1>3. \E d \in T : \A e \in T : ~ (e < d) BY <1>1, <1>2, Zenon DEF OpToRel
<1>4. \E d \in T : \A e \in T : d <= e BY <1>1, <1>3
<1> QED BY <1>4 DEF Min

LEMMA RecordKeeps ==
  ASSUME ScInv, NEW s \in Sessions, Record(s)
  PROVE  ScInv'
<1> USE DEF ScInv
<1>1. /\ s \in object /\ s \notin closed /\ slots[s] < MaxStreams
      /\ slots' = [slots EXCEPT ![s] = @ + 1] /\ recording' = [recording EXCEPT ![s] = @ + 1]
      /\ UNCHANGED <<busVars, object, closed, streams, starting, abandoning, stopping, worker>>
  BY DEF Record, Callable
<1>2. ScTyped' BY <1>1 DEF ScTyped, busVars
<1>3. Streaming' BY <1>1 DEF Streaming, ScTyped
<1>4. SlotsCount'
  <2>1. \A t \in Sessions : Cardinality(Recorded(t)') = Cardinality(Recorded(t))
                            /\ Cardinality(Recorded(t)) \in Nat
    BY <1>1, TracksFinite, RecordedTracks DEF Recorded
  <2>2. /\ recording'[s] = recording[s] + 1 /\ slots'[s] = slots[s] + 1
        /\ \A t \in Sessions : t # s => recording'[t] = recording[t] /\ slots'[t] = slots[t]
        /\ slots[s] \in Int /\ recording[s] \in Nat
    BY <1>1 DEF ScTyped
  <2>3. slots'[s] <= MaxStreams /\ Cardinality(Recorded(s)') + recording'[s] = slots'[s]
    <3>1. Cardinality(Recorded(s)) + recording[s] = slots[s] BY <1>1 DEF SlotsCount
    <3> HIDE DEF ScInv
    <3> QED BY <1>1, <2>1, <2>2, <3>1, ScreencastAssumption
  <2>4. ASSUME NEW t \in Sessions, t # s, t \notin closed
        PROVE  slots'[t] <= MaxStreams /\ Cardinality(Recorded(t)') + recording'[t] = slots'[t]
    BY <2>1, <2>2, <2>4 DEF SlotsCount
  <2> QED BY <1>1, <2>3, <2>4 DEF SlotsCount
<1>5. WorkersOwned' BY <1>1 DEF WorkersOwned
<1> QED BY <1>1, <1>2, <1>3, <1>4, <1>5, BusStays

LEMMA PushKeeps ==
  ASSUME ScInv, NEW s \in Sessions, Push(s)
  PROVE  ScInv'
<1> USE DEF ScInv
<1>1. /\ recording[s] > 0 /\ recording' = [recording EXCEPT ![s] = @ - 1]
      /\ UNCHANGED <<busVars, object, closed, starting, abandoning, stopping, worker>>
  BY DEF Push
<1>2. Cardinality(Recorded(s)) \in Nat /\ recording[s] \in Nat
  BY TracksFinite, RecordedTracks DEF ScTyped
<1>3. CASE s \notin closed /\ slots' = slots
           /\ streams' = [streams EXCEPT ![s][Min(Tracks \ Recorded(s))] = "idle"]
  <2>1. PICK t \in Tracks : t \notin Recorded(s)
                          /\ streams' = [streams EXCEPT ![s][t] = "idle"]
    <3>1. Cardinality(Recorded(s)) # MaxStreams BY <1>1, <1>2, <1>3, ScreencastAssumption DEF SlotsCount, ScTyped
    <3>2. Recorded(s) # Tracks /\ Recorded(s) \subseteq Tracks
      <4>1. IsFiniteSet(Tracks) /\ Cardinality(Tracks) = MaxStreams
        BY FS_Interval, ScreencastAssumption DEF Tracks
      <4> QED BY <3>1, <4>1, RecordedTracks
    <3>3. Min(Tracks \ Recorded(s)) \in Tracks \ Recorded(s) BY <3>2, LeastTrack
    <3> QED BY <1>3, <3>3
  <2>2. /\ streams' \in [Sessions -> [Tracks -> {"absent", "idle", "held"}]]
        /\ streams[s][t] = "absent" /\ streams'[s][t] = "idle"
        /\ \A q \in Tracks : q # t => streams'[s][q] = streams[s][q]
        /\ \A u \in Sessions : u # s => streams'[u] = streams[u]
    BY <2>1 DEF ScTyped, Recorded
  <2>3. ScTyped' BY <1>1, <1>2, <1>3, <2>2 DEF ScTyped, busVars
  <2>4. s \in object BY <1>1, <1>3 DEF Streaming
  <2>5. Streaming' BY <1>1, <1>3, <2>2, <2>4 DEF Streaming, ScTyped
  <2>6. SlotsCount'
    <3>1. Recorded(s)' = Recorded(s) \cup {t} BY <2>1, <2>2 DEF Recorded
    <3>2. Cardinality(Recorded(s)') = Cardinality(Recorded(s)) + 1
      <4>1. IsFiniteSet(Recorded(s)) BY TracksFinite, RecordedTracks
      <4> QED BY <2>1, <3>1, <4>1, FS_AddElement
    <3>3. \A u \in Sessions : u # s => Recorded(u)' = Recorded(u) BY <2>2 DEF Recorded
    <3>4. \A u \in Sessions : u # s => recording'[u] = recording[u] BY <1>1 DEF ScTyped
    <3>5. recording'[s] = recording[s] - 1 BY <1>1 DEF ScTyped
    <3>6. slots[s] <= MaxStreams /\ Cardinality(Recorded(s)) + recording[s] = slots[s]
      BY <1>3 DEF SlotsCount
    <3>7. Cardinality(Recorded(s)') + recording'[s] = slots[s]
      BY <1>2, <3>2, <3>5, <3>6
    <3>8. ASSUME NEW u \in Sessions, u # s, u \notin closed
          PROVE  slots[u] <= MaxStreams /\ Cardinality(Recorded(u)') + recording'[u] = slots[u]
      BY <3>3, <3>4, <3>8 DEF SlotsCount
    <3> QED BY <1>1, <1>3, <3>6, <3>7, <3>8 DEF SlotsCount
  <2>7. WorkersOwned'
    <3>1. \A u \in Sessions, q \in Tracks : streams[u][q] = "held" => streams'[u][q] = "held"
      BY <2>2
    <3> QED BY <1>1, <3>1 DEF WorkersOwned
  <2> QED BY <1>1, <2>3, <2>5, <2>6, <2>7, BusStays
<1>4. CASE slots' = [slots EXCEPT ![s] = @ - 1] /\ streams' = streams
  <2>1. ScTyped' BY <1>1, <1>2, <1>4 DEF ScTyped, busVars
  <2>2. Streaming' BY <1>1, <1>4 DEF Streaming, ScTyped
  <2>3. SlotsCount'
    <3>1. \A t \in Sessions : Recorded(t)' = Recorded(t) BY <1>4 DEF Recorded
    <3>2. \A t \in Sessions : Cardinality(Recorded(t)) \in Nat BY TracksFinite, RecordedTracks
    <3> QED BY <1>1, <1>4, <3>1, <3>2, ScreencastAssumption DEF SlotsCount, ScTyped
  <2>4. WorkersOwned' BY <1>1, <1>4 DEF WorkersOwned
  <2> QED BY <1>1, <2>1, <2>2, <2>3, <2>4, BusStays
<1> QED BY <1>3, <1>4 DEF Push

\* A worker moves, or its start call, and what is recorded stays.
LEMMA StartKeeps ==
  ASSUME ScInv, NEW s \in Sessions,
         ScTyped', UNCHANGED <<busVars, object, closed, recording, slots, abandoning, stopping>>,
         \A u \in Sessions \ {s} : streams'[u] = streams[u] /\ starting'[u] = starting[u]
                                   /\ worker'[u] = worker[u],
         \A t \in Tracks : streams'[s][t] = "absent" <=> streams[s][t] = "absent",
         starting'[s] # "no" => s \in object \cup closed,
         \A t \in Tracks : worker'[s][t] # "none" => streams'[s][t] = "held" \/ starting'[s] # "no"
  PROVE  ScInv'
<1> USE DEF ScInv
<1>1. Streaming' BY DEF Streaming
<1>2. \A u \in Sessions : Recorded(u)' = Recorded(u) BY DEF Recorded
<1>3. SlotsCount' BY <1>2 DEF SlotsCount
<1>4. WorkersOwned'
  <2>1. \A t \in Tracks : streams'[s][t] = "held" => s \notin closed BY <1>1 DEF Streaming
  <2> QED BY <2>1 DEF WorkersOwned
<1> QED BY <1>1, <1>3, <1>4, BusStays

LEMMA StartCallKeeps ==
  ASSUME ScInv, NEW s \in Sessions,
         Start(s) \/ StartFails(s) \/ StartPasses(s) \/ Attach(s)
  PROVE  ScInv'
<1>1. CASE Start(s)
  <2> DEFINE stale == {t \in HeldBy(s) : worker[s][t] = "dead"}
             idle == (Recorded(s) \ HeldBy(s)) \cup stale
  <2>1. /\ streams' = [streams EXCEPT ![s] = [t \in Tracks |-> IF t \in idle THEN "idle" ELSE @[t]]]
        /\ worker' = [worker EXCEPT ![s] = [t \in Tracks |-> IF t \in idle THEN "starting" ELSE @[t]]]
        /\ starting' = [starting EXCEPT ![s] = "spawned"] /\ starting[s] = "no" /\ s \in object
        /\ UNCHANGED <<busVars, object, closed, recording, slots, abandoning, stopping>>
    BY <1>1 DEF Start, Callable
  <2>2. idle \subseteq Recorded(s) BY DEF HeldBy, Recorded
  <2> HIDE DEF idle
  <2>3. ScTyped' BY <2>1 DEF ScInv, ScTyped, busVars
  <2>4. \A t \in Tracks : streams'[s][t] = "absent" <=> streams[s][t] = "absent"
    BY <2>1, <2>2 DEF ScInv, ScTyped, Recorded
  <2>5. starting'[s] # "no" BY <2>1 DEF ScInv, ScTyped
  <2>6. \A u \in Sessions \ {s} : streams'[u] = streams[u] /\ starting'[u] = starting[u]
                                   /\ worker'[u] = worker[u]
    BY <2>1 DEF ScInv, ScTyped
  <2> QED BY <2>1, <2>3, <2>4, <2>5, <2>6, StartKeeps
<1>2. CASE StartFails(s)
  <2>1. /\ starting' = [starting EXCEPT ![s] = "no"] /\ Dropped(s, Loose(s))
        /\ UNCHANGED <<busVars, object, closed, recording, slots, streams, abandoning, stopping>>
    BY <1>2 DEF StartFails
  <2>2. ScTyped' BY <2>1 DEF ScInv, ScTyped, busVars, Dropped
  <2>3. \A t \in Tracks : worker'[s][t] # "none" => streams'[s][t] = "held"
    BY <2>1 DEF ScInv, ScTyped, Dropped, Loose, HeldBy
  <2>4. starting'[s] = "no" BY <2>1 DEF ScInv, ScTyped
  <2>5. \A u \in Sessions \ {s} : streams'[u] = streams[u] /\ starting'[u] = starting[u]
                                   /\ worker'[u] = worker[u]
    BY <2>1 DEF ScInv, ScTyped, Dropped
  <2> QED BY <2>1, <2>2, <2>3, <2>4, <2>5, StartKeeps
<1>3. CASE StartPasses(s)
  <2>1. /\ starting[s] = "spawned"
        /\ UNCHANGED <<busVars, object, closed, recording, slots, streams, abandoning, stopping>>
    BY <1>3 DEF StartPasses
  <2>2. s \in object \cup closed BY <2>1 DEF ScInv, Streaming
  <2>3. CASE starting' = [starting EXCEPT ![s] = "no"] /\ Dropped(s, Loose(s))
    <3>1. ScTyped' BY <2>1, <2>3 DEF ScInv, ScTyped, busVars, Dropped
    <3>2. \A t \in Tracks : worker'[s][t] # "none" => streams'[s][t] = "held"
      BY <2>1, <2>3 DEF ScInv, ScTyped, Dropped, Loose, HeldBy
    <3>3. \A u \in Sessions \ {s} : streams'[u] = streams[u] /\ starting'[u] = starting[u]
                                     /\ worker'[u] = worker[u]
      BY <2>1, <2>3 DEF ScInv, ScTyped, Dropped
    <3> QED BY <2>1, <2>2, <3>1, <3>2, <3>3, StartKeeps
  <2>4. CASE starting' = [starting EXCEPT ![s] = "passed"] /\ UNCHANGED worker
    <3>1. ScTyped' BY <2>1, <2>4 DEF ScInv, ScTyped, busVars
    <3>2. starting'[s] # "no" BY <2>4 DEF ScInv, ScTyped
    <3>3. \A u \in Sessions \ {s} : streams'[u] = streams[u] /\ starting'[u] = starting[u]
                                     /\ worker'[u] = worker[u]
      BY <2>1, <2>4 DEF ScInv, ScTyped
    <3> QED BY <2>1, <2>2, <3>1, <3>2, <3>3, StartKeeps
  <2> QED BY <1>3, <2>3, <2>4 DEF StartPasses
<1>4. CASE Attach(s)
  <2> DEFINE found == Loose(s) \cap Recorded(s)
  <2>1. /\ starting[s] = "passed" /\ starting' = [starting EXCEPT ![s] = "no"]
        /\ streams' = [streams EXCEPT ![s] = [t \in Tracks |-> IF t \in found THEN "held" ELSE @[t]]]
        /\ Dropped(s, Loose(s) \ Recorded(s))
        /\ UNCHANGED <<busVars, object, closed, recording, slots, abandoning, stopping>>
    BY <1>4 DEF Attach
  <2>2. s \in object \cup closed BY <2>1 DEF ScInv, Streaming
  <2>3. \A t \in Tracks : worker'[s][t] # "none" => streams'[s][t] = "held"
    <3> SUFFICES ASSUME NEW t \in Tracks, worker'[s][t] # "none" PROVE streams'[s][t] = "held"
      OBVIOUS
    <3>1. /\ worker'[s][t] = IF t \in Loose(s) \ Recorded(s) THEN "none" ELSE worker[s][t]
          /\ streams'[s][t] = IF t \in found THEN "held" ELSE streams[s][t]
      BY <2>1 DEF ScInv, ScTyped, Dropped
    <3> QED BY <3>1 DEF Loose, HeldBy
  <2>4. \A t \in Tracks : streams'[s][t] = "absent" <=> streams[s][t] = "absent"
    <3> SUFFICES ASSUME NEW t \in Tracks PROVE streams'[s][t] = "absent" <=> streams[s][t] = "absent"
      OBVIOUS
    <3>1. streams'[s][t] = IF t \in found THEN "held" ELSE streams[s][t]
      BY <2>1 DEF ScInv, ScTyped
    <3> QED BY <3>1 DEF Recorded
  <2> HIDE DEF found
  <2>5. ScTyped' BY <2>1 DEF ScInv, ScTyped, busVars, Dropped
  <2>6. \A u \in Sessions \ {s} : streams'[u] = streams[u] /\ starting'[u] = starting[u]
                                   /\ worker'[u] = worker[u]
    BY <2>1 DEF ScInv, ScTyped, Dropped
  <2> QED BY <2>1, <2>2, <2>3, <2>4, <2>5, <2>6, StartKeeps
<1> QED BY <1>1, <1>2, <1>3, <1>4

LEMMA WorkerKeeps ==
  ASSUME ScInv, NEW s \in Sessions, NEW t \in Tracks, NodeAssigned(s, t) \/ WorkerEnds(s, t)
  PROVE  ScInv'
<1>1. PICK how \in {"live", "failed", "dead"} : worker' = [worker EXCEPT ![s][t] = how]
  BY DEF NodeAssigned, WorkerEnds
<1>2. /\ worker[s][t] # "none"
      /\ UNCHANGED <<busVars, object, closed, callVars, streams, abandoning, stopping>>
  BY DEF NodeAssigned, WorkerEnds
<1>3. ScTyped' BY <1>1, <1>2 DEF ScInv, ScTyped, busVars, callVars
<1>4. \A u \in Sessions, q \in Tracks : worker'[u][q] # "none" <=> worker[u][q] # "none"
  BY <1>1, <1>2 DEF ScInv, ScTyped
<1>5. WorkersOwned' BY <1>2, <1>4 DEF ScInv, WorkersOwned, callVars
<1>6. Streaming' BY <1>2 DEF ScInv, Streaming, callVars
<1> QED BY <1>2, <1>3, <1>5, <1>6, BusStays, CallsStay DEF ScInv

\* close_and_take_streams: the streams go, and with them the workers they hold.
LEMMA CloseAndTakeKeeps ==
  ASSUME ScInv, NEW s \in Sessions, CloseAndTake(s), UNCHANGED <<recording, slots, starting>>
  PROVE  /\ streams' \in [Sessions -> [Tracks -> {"absent", "idle", "held"}]]
         /\ worker' \in [Sessions -> [Tracks -> {"none", "starting", "failed", "live", "dead"}]]
         /\ closed' = closed \cup {s} /\ SlotsCount' /\ WorkersOwned'
         /\ \A t \in Tracks : streams'[s][t] = "absent"
         /\ \A u \in Sessions \ {s} : streams'[u] = streams[u]
<1> USE DEF ScInv
<1>1. CASE s \in closed
  <2>1. closed' = closed /\ closed \cup {s} = closed /\ UNCHANGED <<streams, worker>>
    BY <1>1 DEF CloseAndTake
  <2>2. \A t \in Tracks : streams'[s][t] = "absent" BY <1>1, <2>1 DEF Streaming
  <2>3. SlotsCount' BY <2>1 DEF SlotsCount, Recorded
  <2>4. WorkersOwned' BY <2>1 DEF WorkersOwned
  <2> QED BY <2>1, <2>2, <2>3, <2>4 DEF ScTyped
<1>2. CASE s \notin closed
  <2>1. /\ closed' = closed \cup {s} /\ Dropped(s, HeldBy(s))
        /\ streams' = [streams EXCEPT ![s] = [t \in Tracks |-> "absent"]]
    BY <1>2 DEF CloseAndTake
  <2>2. /\ streams' \in [Sessions -> [Tracks -> {"absent", "idle", "held"}]]
        /\ worker' \in [Sessions -> [Tracks -> {"none", "starting", "failed", "live", "dead"}]]
        /\ \A t \in Tracks : streams'[s][t] = "absent"
        /\ \A t \in Tracks : worker'[s][t] = IF t \in HeldBy(s) THEN "none" ELSE worker[s][t]
        /\ \A u \in Sessions \ {s} : streams'[u] = streams[u] /\ worker'[u] = worker[u]
    BY <2>1 DEF ScTyped, Dropped
  <2>3. \A u \in Sessions \ {s} : Recorded(u)' = Recorded(u) BY <2>2 DEF Recorded
  <2>4. SlotsCount' BY <2>1, <2>3 DEF SlotsCount
  <2>5. WorkersOwned' BY <2>1, <2>2 DEF WorkersOwned, HeldBy
  <2> QED BY <2>1, <2>2, <2>4, <2>5
<1> QED BY <1>1, <1>2

LEMMA StopKeeps ==
  ASSUME ScInv, NEW s \in Sessions, Stop(s)
  PROVE  ScInv'
<1> USE DEF ScInv
<1>1. /\ s \in object /\ CloseAndTake(s) /\ stopping' = stopping \cup {s}
      /\ UNCHANGED <<busVars, object, callVars, abandoning>>
  BY DEF Stop, Callable
<1>2. /\ streams' \in [Sessions -> [Tracks -> {"absent", "idle", "held"}]]
      /\ worker' \in [Sessions -> [Tracks -> {"none", "starting", "failed", "live", "dead"}]]
      /\ closed' = closed \cup {s} /\ SlotsCount' /\ WorkersOwned'
      /\ \A t \in Tracks : streams'[s][t] = "absent"
      /\ \A u \in Sessions \ {s} : streams'[u] = streams[u]
  BY <1>1, CloseAndTakeKeeps DEF callVars
<1>3. ScTyped' BY <1>1, <1>2 DEF ScTyped, busVars, callVars
<1>4. Reserved' BY <1>1, ScreencastAssumption DEF Reserved, busVars
<1>5. Accounted' BY <1>1 DEF Accounted, busVars
<1>6. Departed' /\ ShareKept' BY <1>1 DEF Departed, ShareKept, busVars
<1>7. Streaming' BY <1>1, <1>2 DEF Streaming, callVars
<1> QED BY <1>2, <1>3, <1>4, <1>5, <1>6, <1>7

\* The session is closed by then, so that it streams nothing when its object goes.
LEMMA UnregisterKeeps ==
  ASSUME ScInv, NEW s \in Sessions, Unregister(s)
  PROVE  ScInv'
<1> USE DEF ScInv
<1>1. /\ s \in stopping /\ Forget(s) /\ stopping' = stopping \ {s} /\ object' = object \ {s}
      /\ UNCHANGED <<onBus, leftBus, owner, creating, closed, callVars, streams, abandoning, worker>>
  BY DEF Unregister
<1>2. owner[s] \in Buses /\ creating[s] # "reserved" /\ s \in closed
  BY <1>1 DEF Reserved, ScTyped, Streaming
<1>3. /\ registry' \in [Buses -> SUBSET Sessions] /\ ShareKept'
      /\ \A b \in Buses : \A t \in Sessions : t \in registry'[b] => t \in registry[b]
      /\ \A b \in Buses : \A t \in Sessions \ {s} : t \in registry[b] => t \in registry'[b]
  BY <1>1, <1>2, ForgetKeeps
<1>4. ScTyped' BY <1>1, <1>3 DEF ScTyped, callVars
<1>5. Reserved' BY <1>1, <1>2, <1>3 DEF Reserved, ScTyped
<1>6. Accounted'
  <2> SUFFICES ASSUME NEW t \in object, t # s
               PROVE  t \in registry'[owner[t]] \/ t \in abandoning \/ t \in stopping \ {s}
                        \/ (creating[t] = "served" /\ owner[t] \notin onBus)
    BY <1>1 DEF Accounted
  <2>1. t \in Sessions \ {s} /\ owner[t] \in Buses BY DEF ScTyped, Reserved
  <2> QED BY <1>3, <2>1 DEF Accounted
<1>7. Departed' BY <1>1, <1>3 DEF Departed, ScTyped
<1>8. Streaming' BY <1>1, <1>2 DEF Streaming, callVars
<1> QED BY <1>1, <1>3, <1>4, <1>5, <1>6, <1>7, <1>8, CallsStay, WorkersStay

LEMMA AbandonKeeps ==
  ASSUME ScInv, NEW s \in Sessions, Abandon(s)
  PROVE  ScInv'
<1> USE DEF ScInv
<1>1. /\ s \in abandoning /\ abandoning' = abandoning \ {s}
      /\ UNCHANGED <<busVars, callVars, stopping>>
  BY DEF Abandon
<1>2. CASE s \in object /\ CloseAndTake(s) /\ object' = object \ {s}
  <2>1. /\ streams' \in [Sessions -> [Tracks -> {"absent", "idle", "held"}]]
        /\ worker' \in [Sessions -> [Tracks -> {"none", "starting", "failed", "live", "dead"}]]
        /\ closed' = closed \cup {s} /\ SlotsCount' /\ WorkersOwned'
        /\ \A t \in Tracks : streams'[s][t] = "absent"
        /\ \A u \in Sessions \ {s} : streams'[u] = streams[u]
    BY <1>1, <1>2, CloseAndTakeKeeps DEF callVars
  <2>2. ScTyped' BY <1>1, <1>2, <2>1 DEF ScTyped, busVars, callVars
  <2>3. Reserved' BY <1>1, <1>2 DEF Reserved, busVars
  <2>4. Accounted' BY <1>1, <1>2 DEF Accounted, busVars
  <2>5. Departed' /\ ShareKept' BY <1>1 DEF Departed, ShareKept, busVars
  <2>6. Streaming' BY <1>1, <1>2, <2>1 DEF Streaming, callVars
  <2> QED BY <2>1, <2>2, <2>3, <2>4, <2>5, <2>6
<1>3. CASE s \notin object /\ UNCHANGED <<closed, streams, worker, object>>
  <2>1. ScTyped' BY <1>1, <1>3 DEF ScTyped, busVars, callVars
  <2>2. Reserved' BY <1>1, <1>3 DEF Reserved, busVars
  <2>3. Accounted' BY <1>1, <1>3 DEF Accounted, busVars
  <2>4. Departed' /\ ShareKept' BY <1>1 DEF Departed, ShareKept, busVars
  <2>5. Streaming' BY <1>1, <1>3 DEF Streaming, callVars
  <2> QED BY <1>1, <1>3, <2>1, <2>2, <2>3, <2>4, <2>5, CallsStay, WorkersStay
<1> QED BY <1>2, <1>3 DEF Abandon

LEMMA ScStep == ScInv /\ [ScNext]_scVars => ScInv'
<1> SUFFICES ASSUME ScInv, [ScNext]_scVars PROVE ScInv'
  OBVIOUS
<1>1. CASE UNCHANGED scVars
  <2>1. /\ UNCHANGED <<busVars, object, closed, callVars, streams, abandoning, stopping, worker>>
    BY <1>1 DEF scVars, busVars, callVars
  <2>2. ScTyped' /\ Streaming' BY <2>1 DEF ScInv, ScTyped, Streaming, busVars, callVars
  <2> QED BY <2>1, <2>2, BusStays, CallsStay, WorkersStay DEF ScInv
<1>2. CASE ScClient
  BY <1>2, ReserveKeeps, RecordKeeps, StartCallKeeps, StopKeeps, LeaveBusKeeps DEF ScClient
<1>3. CASE \E s \in Sessions : ScService(s)
  BY <1>3, ServeKeeps, CheckOwnerKeeps, PushKeeps, StartCallKeeps, UnregisterKeeps, AbandonKeeps
  DEF ScService
<1>4. CASE ScWorkers BY <1>4, WorkerKeeps DEF ScWorkers
<1>5. CASE \E b \in Buses : Watch(b) BY <1>5, WatchKeeps
<1> QED BY <1>1, <1>2, <1>3, <1>4, <1>5 DEF ScNext

LEMMA ScInvOwns == ScInv => CastsOwned
<1> SUFFICES ASSUME ScInv PROVE CastsOwned
  OBVIOUS
<1> USE DEF ScInv
<1>1. NoOrphanSession
  <2> SUFFICES ASSUME NEW s \in Sessions, owner[s] \in Buses, owner[s] \notin onBus \cup leftBus, ~InFlight(s)
               PROVE  s \notin object /\ s \notin registry[owner[s]] /\ \A t \in Tracks : worker[s][t] = "none"
    BY DEF NoOrphanSession
  <2>1. s \notin registry[owner[s]] BY DEF Departed
  <2>2. s \notin object BY <2>1 DEF Accounted, InFlight
  <2>3. \A t \in Tracks : streams[s][t] = "absent" BY <2>2 DEF Streaming
  <2>4. starting[s] = "no" BY DEF InFlight
  <2> QED BY <2>1, <2>2, <2>3, <2>4 DEF WorkersOwned
<1>2. ScreencastLimits
  <2>1. \A s \in object : s \in registry[owner[s]] \/ InFlight(s) \/ owner[s] \notin onBus
    BY DEF Accounted, InFlight
  <2> QED BY <2>1 DEF ScreencastLimits, ShareKept, SlotsCount
<1> QED BY <1>1, <1>2 DEF CastsOwned

(* Whatever the clients of either screencast service do, and wherever a     *)
(* close, a departure or a failed start catches a call, every worker thread *)
(* is somebody's to stop, nothing is left of a client that is gone, and     *)
(* every Start comes to one end (screencast/dbus.rs and portal.rs).         *)
THEOREM CastsAreSettled == ScSpec /\ CpoSpec => []CastsSettled
<1>1. ScInit => ScInv BY ScInitInv
<1>2. ScInv /\ [ScNext]_scVars => ScInv' BY ScStep
<1>3. CpoInit => CpoInv BY CpoInitInv
<1>4. CpoInv /\ [CpoNext]_cpoVars => CpoInv' BY CpoStep
<1>5. ScInv /\ CpoInv => CastsSettled BY ScInvOwns, CpoInvSettles DEF CastsSettled
<1> QED BY <1>1, <1>2, <1>3, <1>4, <1>5, PTL DEF ScSpec, CpoSpec

-----------------------------------------------------------------------------
(* The steps of a reload *)

LEMMA CrInitInv == CrInit => CrInv
<1> SUFFICES ASSUME CrInit PROVE CrInv
  OBVIOUS
<1>1. MainFile \in Files /\ disk \in [Files -> Texts] /\ running = [f \in {MainFile} |-> disk[f]]
  BY CrAssumption DEF CrInit
<1>2. running \in Partial
  <2>1. running \in [{MainFile} -> Texts] BY <1>1
  <2> QED BY <1>1, <2>1 DEF Partial
<1>3. DOMAIN running = {MainFile} BY <1>1
<1>4. Dirs({MainFile}) \subseteq Dirs(Files) BY <1>1 DEF Dirs
<1>5. CrTypeOK
  <2>1. {failed, pending, token, armed, fresh} \subseteq BOOLEAN
    <3>1. failed = FALSE /\ pending = FALSE /\ token = FALSE /\ armed = FALSE /\ fresh = FALSE
      BY DEF CrInit
    <3> QED BY ONLY <3>1, Zenon
  <2>2. {path, fallback, target, root} \subseteq Files /\ saves \in 0 .. MaxSaves
    BY <1>1, CrAssumption DEF CrInit
  <2>3. got \in Partial /\ dirs \subseteq Dirs(Files) /\ relevant \subseteq Files
    BY <1>1, <1>2, <1>4 DEF CrInit
  <2>4. raised = {} /\ todo = {} /\ unread = {} /\ early = {} /\ phase = "idle" BY DEF CrInit
  <2> QED BY <1>1, <1>2, <2>1, <2>2, <2>3, <2>4 DEF CrTypeOK
<1>6. NoChangeIsLost BY DEF CrInit, NoChangeIsLost
<1>7. ReadsMain BY DEF CrInit, ReadsMain
<1>8. Watching BY <1>3 DEF CrInit, Watching
<1>9. Rooted /\ Heard BY <1>3 DEF CrInit, Rooted, Heard
<1>10. Following BY <1>1 DEF CrInit, Following, Told
<1> QED BY <1>5, <1>6, <1>7, <1>8, <1>9, <1>10 DEF CrInv

LEMMA CrInvTracks == CrInv => ReloadTracksDisk
<1> SUFFICES ASSUME CrInv PROVE ReloadTracksDisk
  OBVIOUS
<1>1. WatchesFollowTheGraph
  BY DEF CrInv, Watching, Rooted, WatchesFollowTheGraph
<1>2. SavesAreFollowed
  BY DEF CrInv, Following, Told, SavesAreFollowed, Current
<1> QED BY <1>1, <1>2 DEF CrInv, ReloadTracksDisk

\* A text in force includes known files only.
LEMMA TextKnown ==
  ASSUME NEW t \in Texts
  PROVE  t.evaluates \in BOOLEAN /\ t.includes \subseteq Files
  BY CrAssumption DEF Texts

LEMMA PartialMaps ==
  ASSUME NEW S \in SUBSET Files, NEW g \in [S -> Texts]
  PROVE  g \in Partial
  BY DEF Partial

LEMMA PartialDomain ==
  ASSUME NEW g \in Partial
  PROVE  DOMAIN g \subseteq Files /\ g \in [DOMAIN g -> Texts]
  BY DEF Partial

\* A reload begins when the loop is at rest, with the main file in force.
LEMMA BeginReloadKeeps ==
  ASSUME CrInv, NEW main \in Files, BeginReload(main), phase = "idle"
  PROVE  /\ got' \in Partial /\ todo' = {main} /\ phase' = "read" /\ unread' = {}
         /\ got' = [f \in {} |-> disk[f]] /\ early' = early /\ Following'
<1>1. got' = [f \in {} |-> disk[f]] BY DEF BeginReload
<1>2. got' \in [{} -> Texts] BY <1>1
<1>3. got' \in Partial BY <1>2, PartialMaps
<1>4. Following' BY <1>1 DEF BeginReload, Following, Told
<1> QED BY <1>1, <1>3, <1>4 DEF BeginReload

LEMMA SaveKeeps ==
  ASSUME CrInv, NEW f \in Files, NEW t \in TextsOf[f], Save(f, t)
  PROVE  CrInv'
<1> USE DEF CrInv
<1>1. t \in Texts BY DEF Texts
<1>2. /\ disk' \in [Files -> Texts] /\ saves' \in 0 .. MaxSaves /\ raised' \subseteq Files
      /\ early' \subseteq Files
      /\ UNCHANGED <<session, pending, token, timer, reading, watches, unread>>
  BY <1>1, CrAssumption DEF Save, CrTypeOK
<1>3. CrTypeOK' BY <1>2 DEF CrTypeOK, session, timer, reading, watches
<1>4. NoChangeIsLost' BY <1>2 DEF NoChangeIsLost, timer
<1>5. ReadsMain' /\ Watching' /\ Rooted' /\ Heard'
  BY <1>2 DEF ReadsMain, Watching, Rooted, Heard, session, reading, watches
<1>6. f \in raised' \cup early' /\ raised \subseteq raised' /\ early \subseteq early' \cup {f}
  <2>1. f \in relevant => DirOf[f] \in dirs BY DEF Heard, Dirs
  <2> QED BY <2>1 DEF Save
<1>7. \A g \in Files : g # f => disk'[g] = disk[g]
  BY DEF Save, CrTypeOK
<1>8. ASSUME NEW r \in Partial, Told(r) PROVE \A g \in DOMAIN r : r[g] = disk'[g] \/ g \in raised' \cup unread' \cup early'
  <2>1. DOMAIN r \subseteq Files BY PartialDomain
  <2> QED BY <1>2, <1>6, <1>7, <1>8, <2>1 DEF Told
<1>9. Following'
  BY <1>2, <1>8 DEF Following, Told, CrTypeOK, session, reading
<1> QED BY <1>3, <1>4, <1>5, <1>9

LEMMA WatcherSeesKeeps ==
  ASSUME CrInv, NEW f \in Files, WatcherSees(f)
  PROVE  CrInv'
<1> USE DEF CrInv
<1>1. /\ raised' \subseteq Files /\ UNCHANGED <<editor, session, timer, reading, watches>>
      /\ \/ pending' = TRUE /\ token' = (token \/ ~pending) /\ unread' = unread \cup {f}
         \/ UNCHANGED <<pending, token, unread>>
      /\ early' \subseteq Files
  BY DEF WatcherSees, CrTypeOK
<1>2. pending' \in BOOLEAN /\ token' \in BOOLEAN /\ unread' \subseteq Files
  BY <1>1 DEF CrTypeOK
<1>3. CrTypeOK' BY <1>1, <1>2 DEF CrTypeOK, editor, session, timer, reading, watches
<1>4. NoChangeIsLost'
  <2>1. CASE pending' = TRUE /\ token' = (token \/ ~pending)
    <3>1. token' = TRUE
      <4>1. token \in BOOLEAN /\ pending \in BOOLEAN /\ (pending => token)
        BY DEF CrTypeOK, NoChangeIsLost
      <4> QED BY ONLY <2>1, <4>1, Zenon
    <3> QED BY <3>1, Zenon DEF NoChangeIsLost
  <2>2. CASE UNCHANGED <<pending, token, unread>>
    BY <1>1, <2>2 DEF NoChangeIsLost, timer
  <2> QED BY <1>1, <2>1, <2>2
<1>5. ReadsMain' /\ Watching' /\ Rooted' /\ Heard'
  BY <1>1 DEF ReadsMain, Watching, Rooted, Heard, session, reading, watches
<1>6. raised \cup unread \cup early \subseteq raised' \cup unread' \cup early'
  BY DEF WatcherSees
<1>7. Following' BY <1>1, <1>6 DEF Following, Told, editor, session, reading
<1> QED BY <1>3, <1>4, <1>5, <1>7

\* A reload that begins on the path in force leaves the watches to follow it.
LEMMA BeginsOnPath ==
  ASSUME CrInv, phase = "idle", BeginReload(path),
         UNCHANGED <<editor, session, watches>>, raised' \subseteq Files,
         {pending', token', armed', fresh'} \subseteq BOOLEAN, pending' => token'
  PROVE  CrInv'
<1> USE DEF CrInv
<1>1. path \in Files BY DEF CrTypeOK
<1>2. /\ got' \in Partial /\ todo' = {path} /\ phase' = "read" /\ unread' = {}
     /\ early' = early /\ Following'
  BY <1>1, BeginReloadKeeps
<1>3. CrTypeOK' BY <1>1, <1>2 DEF CrTypeOK, editor, session, watches
<1>4. NoChangeIsLost' BY <1>2 DEF NoChangeIsLost
<1>5. ReadsMain' BY <1>2 DEF ReadsMain, session
<1>6. Watching' /\ Rooted' /\ Heard' BY <1>2 DEF Watching, Rooted, Heard, session, watches
<1> QED BY <1>2, <1>3, <1>4, <1>5, <1>6

LEMMA NoteEventKeeps ==
  ASSUME CrInv, NoteEvent
  PROVE  CrInv'
<1>1. /\ phase = "idle" /\ token' = FALSE /\ pending' = FALSE
      /\ UNCHANGED <<editor, session, raised, watches>>
  BY DEF NoteEvent
<1>2. CASE armed' = TRUE /\ fresh' = armed /\ UNCHANGED <<reading, ghosts>>
  <2> USE DEF CrInv
  <2>1. {failed', pending', token', armed', fresh'} \subseteq BOOLEAN
    BY <1>1, <1>2 DEF CrTypeOK, session
  <2>2. CrTypeOK' BY <1>1, <1>2, <2>1 DEF CrTypeOK, editor, session, reading, watches, ghosts
  <2>3. NoChangeIsLost' BY <1>1, <1>2 DEF NoChangeIsLost
  <2>4. ReadsMain' /\ Watching' /\ Rooted' /\ Heard'
    BY <1>1, <1>2 DEF ReadsMain, Watching, Rooted, Heard, session, reading, watches
  <2>5. Following' BY <1>1, <1>2 DEF Following, Told, editor, session, reading, ghosts
  <2> QED BY <2>2, <2>3, <2>4, <2>5
<1>3. CASE BeginReload(path) /\ UNCHANGED timer
  <2>1. {pending', token', armed', fresh'} \subseteq BOOLEAN
    BY <1>1, <1>3 DEF CrInv, CrTypeOK, timer
  <2>2. raised' \subseteq Files BY <1>1 DEF CrInv, CrTypeOK
  <2> QED BY <1>1, <1>3, <2>1, <2>2, BeginsOnPath
<1> QED BY <1>2, <1>3 DEF NoteEvent

LEMMA QuietTimerKeeps ==
  ASSUME CrInv, QuietTimer \/ ReloadNow
  PROVE  CrInv'
<1>1. CASE fresh' = FALSE /\ UNCHANGED <<armed, reading, ghosts, editor, session, events, watches>>
  <2> USE DEF CrInv
  <2>1. CrTypeOK' BY <1>1 DEF CrTypeOK, editor, session, events, reading, watches, ghosts
  <2>2. NoChangeIsLost' BY <1>1 DEF NoChangeIsLost, events, ghosts
  <2>3. ReadsMain' /\ Watching' /\ Rooted' /\ Heard'
    BY <1>1 DEF ReadsMain, Watching, Rooted, Heard, session, reading, watches
  <2>4. Following' BY <1>1 DEF Following, Told, editor, session, events, reading, ghosts
  <2> QED BY <2>1, <2>2, <2>3, <2>4
<1>2. CASE /\ phase = "idle" /\ BeginReload(path) /\ UNCHANGED <<fresh, editor, session, events, watches>>
           /\ armed' \in {FALSE, armed}
  <2>1. {pending', token', armed', fresh'} \subseteq BOOLEAN
    BY <1>2 DEF CrInv, CrTypeOK, events
  <2>2. raised' \subseteq Files /\ (pending' => token')
    BY <1>2 DEF CrInv, CrTypeOK, NoChangeIsLost, events
  <2> QED BY <1>2, <2>1, <2>2, BeginsOnPath
<1> QED BY <1>1, <1>2 DEF QuietTimer, ReloadNow, timer

LEMMA LoadConfigFileKeeps ==
  ASSUME CrInv, NEW f \in Files, LoadConfigFile(f)
  PROVE  CrInv'
<1> USE DEF CrInv
<1>1. /\ phase = "idle" /\ fallback' = path /\ path' = f /\ target' = f /\ BeginReload(f)
      /\ UNCHANGED <<editor, running, root, failed, events, timer, watches>>
  BY DEF LoadConfigFile
<1>2. /\ got' \in Partial /\ todo' = {f} /\ phase' = "read" /\ unread' = {}
      /\ early' = early /\ Following'
  BY <1>1, BeginReloadKeeps
<1>3. CrTypeOK' BY <1>1, <1>2 DEF CrTypeOK, editor, events, timer, watches
<1>4. NoChangeIsLost' BY <1>1, <1>2 DEF NoChangeIsLost, events
<1>5. ReadsMain' BY <1>1, <1>2 DEF ReadsMain
<1>6. Watching' /\ Rooted' /\ Heard' BY <1>1, <1>2 DEF Watching, Rooted, Heard, watches
<1> QED BY <1>2, <1>3, <1>4, <1>5, <1>6

LEMMA ReadNextKeeps ==
  ASSUME CrInv, NEW f \in Files, ReadNext(f)
  PROVE  CrInv'
<1> USE DEF CrInv
<1>1. /\ phase = "read" /\ f \in todo
      /\ got' = [g \in DOMAIN got \cup {f} |-> IF g = f THEN disk[f] ELSE got[g]]
      /\ todo' = (todo \cup (IF disk[f].evaluates THEN disk[f].includes ELSE {})) \ (DOMAIN got \cup {f})
      /\ phase' = IF todo' # {} THEN "read" ELSE "watch"
      /\ early' = early \ {f}
      /\ UNCHANGED <<editor, session, events, timer, watches, unread>>
  BY DEF ReadNext, ReadFile
<1>2. disk[f] \in Texts /\ disk[f].includes \subseteq Files
  BY TextKnown DEF CrTypeOK
<1>3. got' \in Partial
  <2>1. DOMAIN got \subseteq Files /\ got \in [DOMAIN got -> Texts]
    BY PartialDomain DEF CrTypeOK
  <2>2. got' \in [DOMAIN got \cup {f} -> Texts] BY <1>1, <1>2, <2>1
  <2> QED BY <2>1, <2>2, PartialMaps
<1>4. DOMAIN got' = DOMAIN got \cup {f} BY <1>1
<1>5. todo' \subseteq Files BY <1>1, <1>2 DEF CrTypeOK
<1>6. CrTypeOK' BY <1>1, <1>3, <1>5 DEF CrTypeOK, editor, session, events, timer, watches
<1>7. NoChangeIsLost' BY <1>1 DEF NoChangeIsLost, events, timer
<1>8. path' \in DOMAIN got' \cup todo'
  BY <1>1, <1>4 DEF ReadsMain, session
<1>9. ReadsMain' BY <1>1, <1>8 DEF ReadsMain, session
<1>10. Watching' /\ Rooted' /\ Heard' BY <1>1 DEF Watching, Rooted, Heard, session, watches
<1>11. Told(got) BY <1>1 DEF Following
<1>12. Told(got)' BY <1>1, <1>4, <1>11 DEF Told, editor, events
<1>13. Following' BY <1>1, <1>12 DEF Following
<1> QED BY <1>6, <1>7, <1>9, <1>10, <1>13

LEMMA ReloadFailsKeeps ==
  ASSUME CrInv, ReloadFails
  PROVE  CrInv'
<1> USE DEF CrInv
<1>1. /\ phase = "watch" /\ phase' = "idle" /\ failed' = TRUE
      /\ path' = (IF target \in DOMAIN running THEN path ELSE fallback)
      /\ target' = path' /\ fallback' = path'
      /\ UNCHANGED <<editor, running, root, events, timer, todo, got, watches, ghosts>>
  BY DEF ReloadFails, SettlePath
<1>2. path' \in Files /\ path' \in DOMAIN running
  BY <1>1 DEF CrTypeOK, Watching, ReadsMain
<1>3. CrTypeOK' BY <1>1, <1>2 DEF CrTypeOK, editor, events, timer, watches, ghosts
<1>4. NoChangeIsLost' BY <1>1 DEF NoChangeIsLost, events, timer, ghosts
<1>5. ReadsMain' BY <1>1 DEF ReadsMain
<1>6. Watching' /\ Heard' BY <1>1, <1>2 DEF Watching, Heard, watches
<1>7. Rooted' BY <1>1 DEF Rooted
<1>8. Following' BY <1>1 DEF Following
<1> QED BY <1>3, <1>4, <1>5, <1>6, <1>7, <1>8

LEMMA ReloadLandsKeeps ==
  ASSUME CrInv, ReloadLands \/ SwapFilter
  PROVE  CrInv'
<1> USE DEF CrInv
<1>1. CASE ReloadLands
  <2>1. /\ phase = "watch" /\ phase' = "filter" /\ running' = got /\ root' = path /\ failed' = FALSE
        /\ dirs' = dirs \cup Dirs(DOMAIN got)
        /\ UNCHANGED <<editor, path, fallback, target, events, timer, todo, got, relevant, ghosts>>
    BY <1>1 DEF ReloadLands, Lands
  <2>2. DOMAIN got \subseteq Files BY PartialDomain DEF CrTypeOK
  <2>3. dirs' \subseteq Dirs(Files) BY <2>1, <2>2 DEF CrTypeOK, Dirs
  <2>4. CrTypeOK' BY <2>1, <2>3 DEF CrTypeOK, editor, events, timer, ghosts
  <2>5. NoChangeIsLost' BY <2>1 DEF NoChangeIsLost, events, timer, ghosts
  <2>6. ReadsMain' /\ Watching' /\ Rooted' BY <2>1 DEF ReadsMain, Watching, Rooted
  <2>7. Heard' BY <2>1 DEF Heard, Dirs
  <2>8. Following' BY <2>1 DEF Following, Told, editor, events, ghosts
  <2> QED BY <2>4, <2>5, <2>6, <2>7, <2>8
<1>2. CASE SwapFilter
  <2>1. /\ phase = "filter" /\ phase' = "unwatch" /\ relevant' = DOMAIN running
        /\ UNCHANGED <<editor, session, events, timer, todo, got, dirs, ghosts>>
    BY <1>2 DEF SwapFilter
  <2>2. DOMAIN running \subseteq Files BY PartialDomain DEF CrTypeOK
  <2>3. CrTypeOK' BY <2>1, <2>2 DEF CrTypeOK, editor, session, events, timer, ghosts
  <2>4. NoChangeIsLost' BY <2>1 DEF NoChangeIsLost, events, timer, ghosts
  <2>5. ReadsMain' /\ Watching' /\ Rooted' BY <2>1 DEF ReadsMain, Watching, Rooted, session
  <2>6. Heard' BY <2>1 DEF Heard, session
  <2>7. Following' BY <2>1 DEF Following, Told, editor, session, events, ghosts
  <2> QED BY <2>3, <2>4, <2>5, <2>6, <2>7
<1> QED BY <1>1, <1>2

LEMMA DropWatchesKeeps ==
  ASSUME CrInv, DropWatches
  PROVE  CrInv'
<1> USE DEF CrInv
<1>1. /\ phase = "unwatch" /\ phase' = "idle" /\ dirs' = Dirs(relevant)
      /\ path' = (IF target \in DOMAIN running THEN path ELSE fallback)
      /\ target' = path' /\ fallback' = path'
      /\ UNCHANGED <<editor, running, root, failed, events, timer, todo, got, relevant, ghosts>>
  BY DEF DropWatches, SettlePath
<1>2. path' \in Files /\ path' \in DOMAIN running
  BY <1>1 DEF CrTypeOK, Watching, ReadsMain
<1>3. dirs' \subseteq Dirs(Files) BY <1>1 DEF CrTypeOK, Dirs
<1>4. CrTypeOK' BY <1>1, <1>2, <1>3 DEF CrTypeOK, editor, events, timer, ghosts
<1>5. NoChangeIsLost' BY <1>1 DEF NoChangeIsLost, events, timer, ghosts
<1>6. ReadsMain' BY <1>1 DEF ReadsMain
<1>7. Watching' /\ Heard' BY <1>1, <1>2 DEF Watching, Heard
<1>8. Rooted' BY <1>1 DEF Rooted, Watching, ReadsMain
<1>9. Following' BY <1>1 DEF Following, Told, editor, events, ghosts
<1> QED BY <1>4, <1>5, <1>6, <1>7, <1>8, <1>9

LEMMA CrStep == CrInv /\ [CrNext]_crVars => CrInv'
<1> SUFFICES ASSUME CrInv, [CrNext]_crVars PROVE CrInv'
  OBVIOUS
<1>1. CASE UNCHANGED crVars
  <2> USE DEF crVars, editor, session, events, timer, reading, watches, ghosts
  <2>1. CrTypeOK' /\ NoChangeIsLost' BY <1>1 DEF CrInv, CrTypeOK, NoChangeIsLost
  <2>2. ReadsMain' /\ Watching' /\ Rooted' /\ Heard'
    BY <1>1 DEF CrInv, ReadsMain, Watching, Rooted, Heard
  <2>3. Following' BY <1>1 DEF CrInv, Following, Told
  <2> QED BY <2>1, <2>2, <2>3 DEF CrInv
<1> QED
  BY <1>1, SaveKeeps, WatcherSeesKeeps, NoteEventKeeps, QuietTimerKeeps, LoadConfigFileKeeps,
     ReadNextKeeps, ReloadFailsKeeps, ReloadLandsKeeps, DropWatchesKeeps DEF CrNext, CrLoop

(* Whatever is saved while a reload reads or hands over its watches: a      *)
(* change the watcher let through is read by a reload that began since, or  *)
(* one is still due; between reloads the watcher filters by the active      *)
(* graph, watches its directories and no other, and would read the main     *)
(* file that runs; and what runs is what is on disk, but for changes on     *)
(* their way and for files saved before the watcher filtered by them        *)
(* (config_reload.rs, files.rs, for any files, texts and includes).         *)
THEOREM ReloadsTrackTheDisk == CrSpec => []ReloadTracksDisk
<1>1. CrInit => CrInv BY CrInitInv
<1>2. CrInv /\ [CrNext]_crVars => CrInv' BY CrStep
<1>3. CrInv => ReloadTracksDisk BY CrInvTracks
<1> QED BY <1>1, <1>2, <1>3, PTL DEF CrSpec
=============================================================================
