---------------------------- MODULE MCAffiliations ----------------------------
(* Constants for model checking Affiliations: an administrator at the root *)
(* who manages affiliations and registers identities, and an identity that *)
(* only manages affiliations.                                              *)
EXTENDS Affiliations

CONSTANTS a, b, admin, clerk, r1, r2

Symmetry == Permutations(Handlers)

\* The configuration file.
TwoRoots == {<<a>>, <<b>>}
AdminOnly == admin :> Root

\* The names in requests.  Renamings also make others.
Requested == {<<a>>, <<b>>, <<a, b>>}
RequestedBoth == Requested \cup {<<b, b>>}

\* "a" in the role of a label with "_", which LIKE takes for any character.
Wildcard == {<<a, b>>}

\* "a" and "b" in the role of two labels that differ in the case of a letter.
CaseOnly == {<<a, b>>, <<b, a>>}
===============================================================================
