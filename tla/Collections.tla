----------------------------- MODULE Collections -----------------------------
(***************************************************************************)
(* Python's collections, as the HAND-FIM tasks use them: sorted(), a list  *)
(* comprehension with a condition, and dict.update.  Plain definitions     *)
(* over Cardinality and CHOOSE, which proofs can expand.                   *)
(***************************************************************************)
EXTENDS Integers, FiniteSets, Sequences

\* sorted(S): the one with n - 1 smaller ones is at place n.
Ascending(S) ==
    [n \in 1 .. Cardinality(S) |->
        CHOOSE x \in S : Cardinality({y \in S : y < x}) = n - 1]

\* [s[i] for i in places], in the order of s.
Kept(s, places) == [n \in 1 .. Cardinality(places) |-> s[Ascending(places)[n]]]

\* f.update(g)
Updated(f, g) ==
    [x \in DOMAIN f \cup DOMAIN g |-> IF x \in DOMAIN g THEN g[x] ELSE f[x]]

\* f[x] = v, and the same unless f has x.
With(f, x, v) == Updated(f, [y \in {x} |-> v])
WithDefault(f, x, v) == Updated([y \in {x} |-> v], f)

Without(f, S) == [x \in DOMAIN f \ S |-> f[x]]
=============================================================================
