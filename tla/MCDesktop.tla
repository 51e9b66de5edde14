------------------------------ MODULE MCDesktop ------------------------------
(***************************************************************************)
(* The desktop's own components, checked side by side: `part` picks the    *)
(* one that moves in a behaviour, and the others keep their initial state. *)
(***************************************************************************)
EXTENDS Focus, EngineSwitch, Layouts, TLC

CONSTANTS Parts, a, b, m1, l1, v1, v2, v3, w1, w2, n1, n2, o1, o2
VARIABLE part

OneLayer == [l \in Layers |-> 1]
TwoWindows == {w1, w2}
ThreeWindows == {v1, v2, v3}
TwoMenus == {n1, n2}
TwoOutputs == {o1, o2}
Symmetry == Permutations(TwoWindows) \cup Permutations(ThreeWindows) \cup Permutations(TwoMenus) \cup Permutations(TwoOutputs)

OneMonitor == <<m1>>
ChildOfTheFirst == {<<b, a>>}
EverySlot == Key
\* Bound: slots with a master ratio of their own at a time.
MaxRatios == 1
\* A default layout, with a rule of its own for one workspace.
WithRules == {[s \in Workspace |-> "bsp"], [s \in Workspace |-> IF s = 1 THEN "bsp" ELSE "cascade"]}

desktopVars == <<foVars, esVars, vars, part>>

InFocus == part = "focus" /\ UNCHANGED <<esVars, vars, part>>
InEngines == part = "engines" /\ UNCHANGED <<foVars, vars, part>>
InSettings == part = "settings" /\ UNCHANGED <<foVars, esVars, part>>

DesktopInit ==
  /\ FoInit /\ EsInit /\ Init /\ part \in Parts
  /\ part # "focus" => desk = 1
  /\ part # "settings" => inherited = [s \in Workspace |-> "bsp"]

DesktopNext ==
  \/ InFocus /\ FoNext
  \/ InEngines /\ EsNext
  \/ InSettings /\ Next /\ Cardinality(master') <= MaxRatios

DesktopSpec == DesktopInit /\ [][DesktopNext]_desktopVars
=============================================================================
