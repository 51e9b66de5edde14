----------------------------- MODULE MCLayouts -----------------------------
(***************************************************************************)
(* The layout registry and the Scroll engine, which reads its columns off  *)
(* the registry's trees.  `part` picks the one that moves in a behaviour.  *)
(* The registry starts empty and is explored without end; the strips start *)
(* with three windows in the shapes that opening, consuming and one width  *)
(* command give them, and take StepBound steps from there.                 *)
(***************************************************************************)
EXTENDS Layouts, ScrollColumns, TLC

CONSTANTS Parts, StepBound
VARIABLES part, steps

Symmetry == Permutations(Window)

NoSlot == {}

\* Configs that only set default_layout.
DefaultsOnly == {[s \in Workspace |-> alg] : alg \in Algorithm}

-----------------------------------------------------------------------------
(* scroll { } sections: a strip that may outgrow the screen, sections      *)
(* centered, pages centered when they overflow, and the Classic engine.    *)
Tall == [on |-> TRUE, sections |-> FALSE, pages |-> FALSE, tall |-> TRUE, single |-> FALSE,
         center |-> "never", usual |-> 6]
Sections == [Tall EXCEPT !.sections = TRUE, !.center = "always"]
Pages == [Tall EXCEPT !.tall = FALSE, !.pages = TRUE, !.center = "overflow"]
Classic == [Tall EXCEPT !.tall = FALSE, !.single = TRUE, !.on = FALSE]
SomeModes == {Tall, Sections, Pages, Classic}

Opened == CHOOSE order \in [1 .. 3 -> Tile] : Cardinality({order[i] : i \in 1 .. 3}) = 3
First == CHOOSE p \in Screen : TRUE

\* Three windows on the first workspace of one output.
Shaped(s, below, width) ==
    Retile([s EXCEPT !.leaves[<<First, 1>>] = Opened, !.stacked = below, !.width[Opened[1]] = width])

\* Fingers of a swipe may already rest on the touchpad.
Swiped1(s) == [s EXCEPT !.swipe = [screen |-> First, desk |-> 1, from |-> s.offset[KeyFor(s, Seen(s, First))]]]

StripsInit ==
    \E mode \in SomeModes \ {Classic}, below \in SUBSET {Opened[2], Opened[3]}, width \in {0, Viewport} :
        /\ width = 0 \/ Opened[3] \notin below
        /\ LET s == Shaped([Empty EXCEPT !.mode = mode], below, width)
           IN  scroll = s \/ (below = {} /\ width = 0 /\ scroll = Swiped1(s))

LayoutsInit ==
    /\ Init /\ part \in Parts /\ steps = 0
    /\ IF part = "strips" THEN (\A s \in Workspace : inherited[s] = "bsp") /\ StripsInit
       ELSE scroll = [Empty EXCEPT !.mode = Classic]

LayoutsNext ==
    /\ UNCHANGED part
    /\ \/ part = "trees" /\ TreesNext /\ UNCHANGED <<scroll, steps>>
       \/ part = "strips" /\ steps < StepBound /\ steps' = steps + 1 /\ StNext /\ UNCHANGED vars

LayoutsSpec == LayoutsInit /\ [][LayoutsNext]_<<vars, scroll, part, steps>>
=============================================================================
