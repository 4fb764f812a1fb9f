------------------------- MODULE MCAffiliationListing -------------------------
EXTENDS AffiliationListing

CONSTANTS a, b

\* Everything at or below "a" in a tree of depth three, in every order; the
\* affiliation may also be gone by the time the query runs.
Below == {<<a, a>>, <<a, b>>, <<a, a, a>>, <<a, a, b>>, <<a, b, a>>, <<a, b, b>>}
TreeResults == {<< >>} \cup UNION {SetToSeqs({<<a>>} \cup S) : S \in SUBSET Below}
===============================================================================
