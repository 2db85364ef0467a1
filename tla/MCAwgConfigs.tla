--------------------------- MODULE MCAwgConfigs ---------------------------
(* AwgConfigs, with AwgText, on small instances.                           *)
EXTENDS AwgConfigs, TLC

Symmetry == Permutations(Workers) \cup Permutations(Viewers) \cup Permutations(Names)
            \cup Permutations(Contents)
===========================================================================
