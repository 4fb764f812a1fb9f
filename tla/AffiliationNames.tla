-------------------------- MODULE AffiliationNames --------------------------
(***************************************************************************)
(* Affiliation names.  "a.b.c" is the path <<"a", "b", "c">>; the empty    *)
(* name, the root affiliation, is the empty path.                          *)
(***************************************************************************)
EXTENDS SequencesExt

Root == << >>

\* p is n or is below it.
Within(n, p) == IsPrefix(n, p)

\* p is below n as far as a comparison can tell that takes the pairs of
\* labels in folded for the same.
SeemsBelow(folded, n, p) ==
    /\ Len(n) < Len(p)
    /\ \A i \in 1..Len(n) : n[i] = p[i] \/ <<n[i], p[i]>> \in folded

\* strings.Replace(p, old, new, 1).
Rebase(p, old, new) == ReplaceFirstSubSeq(new, old, p)
=============================================================================
