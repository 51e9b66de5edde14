------------------------------- MODULE Places -------------------------------
(***************************************************************************)
(* What the layout registry promises to the rest of the compositor: every  *)
(* window is tiled in at most one place, an (output, workspace) pair, and  *)
(* a call changes the places it names and no others.  The registry's two   *)
(* representations (trees and owner index) are hidden.                     *)
(***************************************************************************)
CONSTANTS Window, Place, Nowhere

VARIABLE place  \* [Window -> Place \cup {Nowhere}]

In(k) == {w \in Window : place[w] = k}

Init == place = [w \in Window |-> Nowhere]

Put(w, k) == /\ place[w] = Nowhere
             /\ place' = [place EXCEPT ![w] = k]

Take(w) == /\ place[w] # Nowhere
           /\ place' = [place EXCEPT ![w] = Nowhere]

\* A window leaves its place to another one.
Substitute(old, new) ==
    /\ place[old] # Nowhere /\ place[new] = Nowhere
    /\ place' = [place EXCEPT ![old] = Nowhere, ![new] = place[old]]

\* All of k goes to l and all of l to k; l may be empty.
Exchange(k, l) ==
    place' = [w \in Window |-> IF place[w] = k THEN l
                               ELSE IF place[w] = l THEN k ELSE place[w]]

\* The windows of some places leave together, for another engine.
Clear(P) == place' = [w \in Window |-> IF place[w] \in P THEN Nowhere ELSE place[w]]

\* Windows of another engine come back into some places, which are theirs
\* from then on: a window that was there has none.  Nobody changes places.
Refill(P) == \A w \in Window : \/ place[w] \notin P /\ place'[w] = place[w]
                               \/ place[w] \in P /\ place'[w] = Nowhere
                               \/ place[w] = Nowhere /\ place'[w] \in P

Next ==
    \/ \E w \in Window, k \in Place : Put(w, k)
    \/ \E w \in Window : Take(w)
    \/ \E old, new \in Window : Substitute(old, new)
    \/ \E k, l \in Place : Exchange(k, l)
    \/ \E P \in SUBSET Place : Clear(P)
    \/ \E P \in SUBSET Place : place' \in [Window -> Place \cup {Nowhere}] /\ Refill(P)

Spec == Init /\ [][Next]_place
=============================================================================
