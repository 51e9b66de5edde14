------------------------------ MODULE MCFrames ------------------------------
(***************************************************************************)
(* Model-checking instances of Frames.                                     *)
(***************************************************************************)
EXTENDS Frames, TLC

CONSTANTS o1, o2, g1, g2, g3
OneOutput == {o1}
TwoOutputs == {o1, o2}
TwoGenerations == {g1, g2}
ThreeGenerations == {g1, g2, g3}
Everything == {"animation", "failure", "hotplug", "lock", "power", "refuse", "vt"}
NoFaults == {"animation", "hotplug", "lock", "power", "vt"}
Still == {"hotplug", "lock", "power", "vt"}
Power == {"power"}
Symmetry == Permutations({o1, o2}) \cup Permutations({g1, g2, g3})
=============================================================================
