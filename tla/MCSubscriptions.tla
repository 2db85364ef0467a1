-------------------------- MODULE MCSubscriptions --------------------------
(* Subscriptions on small instances.                                       *)
EXTENDS Subscriptions, TLC

CONSTANTS s1, s2, home

\* No name is another's prefix.
Distinct == {}

\* s2 is called "s1-b" and home "s1-home".
SharedPrefix == {<<s1, home>>} \cup {<<s1, <<s2, x>>>> : x \in Nodes}

Symmetry == Permutations(Workers) \cup Permutations(Nodes) \cup Permutations(Urls)
===========================================================================
