------------------------------- MODULE Tables -------------------------------
(***************************************************************************)
(* Functions as the hash maps of the program: an entry is put, entries are *)
(* taken out, one map is laid over another.                                *)
(***************************************************************************)
EXTENDS Functions

\* f with k mapped to v, whether or not it was mapped before.
Entered(f, k, v) == [x \in DOMAIN f \cup {k} |-> IF x = k THEN v ELSE f[x]]

\* f where g has no entry, g where it has one.
Overlaid(f, g) == [x \in DOMAIN f \cup DOMAIN g |-> IF x \in DOMAIN g THEN g[x] ELSE f[x]]

\* f without the keys of S.
Without(f, S) == Restrict(f, DOMAIN f \ S)
=============================================================================
