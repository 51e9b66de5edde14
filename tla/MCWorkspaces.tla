---------------------------- MODULE MCWorkspaces ----------------------------
(***************************************************************************)
(* Small desks of one to three monitors.  `world` picks how a behaviour is  *)
(* bounded: two windows at a time with everything Features and Rules allow, *)
(* or groups of up to three tabs that are moved about with a scratchpad.    *)
(***************************************************************************)
EXTENDS Workspaces, TLC

CONSTANT Worlds
VARIABLE world

MCNormal3 == 1 .. 3
MCNormal4 == 1 .. 4

Plain == [placed |-> "tile", maximize |-> FALSE, fullscreen |-> FALSE, pseudo |-> FALSE]
PlainRules == {Plain}
SomeRules == {Plain, [Plain EXCEPT !.placed = "float"], [Plain EXCEPT !.placed = "pin"],
              [Plain EXCEPT !.pseudo = TRUE], [Plain EXCEPT !.placed = "pin", !.fullscreen = TRUE],
              [Plain EXCEPT !.maximize = TRUE, !.fullscreen = TRUE]}

Tabs == INSTANCE Workspaces WITH Numbers <- Numbers \cup Scratch, Rules <- PlainRules,
                                 Features <- {"hotplug", "tabs"}

\* Bound: windows mapped at a time outside the world of tabs.
MaxOpen == 2

InRooms == world = "rooms" /\ Next /\ Cardinality(desk'.mapped) <= MaxOpen
InTabs == world = "tabs" /\ Tabs!Next
DeskInit == Init /\ world \in Worlds
DeskNext == (InRooms \/ InTabs) /\ world' = world
DeskSpec == DeskInit /\ [][DeskNext]_<<vars, world>>

Symmetry == Permutations(Window)
\* The only choice between monitors, the last resort of SyncFloating, is not
\* reached while HomesLive holds.
MonitorSymmetry == Permutations(Window) \cup Permutations(Output)
=============================================================================
