--------------------------- MODULE MCThemeDrafts ---------------------------
(***************************************************************************)
(* Instances of ThemeDrafts small enough for TLC: a theme with two         *)
(* versions, the second with the narrower schema, and another theme.       *)
(***************************************************************************)
EXTENDS ThemeDrafts, TLC

CONSTANTS i1, i2, v1, v2, w1, old, both, other, theme, rival, s1, s2

Themes == v1 :> theme @@ v2 :> theme @@ w1 :> rival

Schemas == v1 :> {old, both} @@ v2 :> {both} @@ w1 :> {other}

Defaults == v1 :> old @@ v2 :> both @@ w1 :> other

Symmetry == Permutations({s1, s2}) \cup Permutations({i1, i2})
=============================================================================
