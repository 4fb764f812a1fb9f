--------------------------- MODULE AffiliationTree ---------------------------
(***************************************************************************)
(* What the affiliation operations promise: a set of affiliations, each    *)
(* identity at one of them, and the identities that own valid              *)
(* certificates.  A removal takes everything at or below a name away, a    *)
(* renaming moves everything at or below a name, in one step each.  What   *)
(* is below a name is up to the comparison of labels.  A certificate goes  *)
(* to an identity that existed when it asked for it.                       *)
(***************************************************************************)
EXTENDS AffiliationNames

CONSTANTS
    IDs,     \* enrollment IDs
    Paths,   \* names of affiliations
    Folded   \* pairs of different labels that are taken for the same

VARIABLES
    tree,    \* the affiliations
    member,  \* the affiliation of every identity
    valid,   \* the identities with valid certificates
    asking   \* the identities that were found to exist and get a certificate next

vars == <<tree, member, valid, asking>>

Init == valid \cup asking \subseteq DOMAIN member

Below(n, p) == p = n \/ SeemsBelow(Folded, n, p)

\* Where a renaming of old to new puts p.
Moved(p, old, new) == IF Below(old, p) THEN Rebase(p, old, new) ELSE p

Extend(p) ==
    /\ UNCHANGED <<member, valid, asking>>
    /\ tree' = tree \cup {p}

Prune(n) ==
    LET out == {u \in DOMAIN member : Below(n, member[u])}
    IN  /\ n \in tree
        /\ tree' = {p \in tree : ~Below(n, p)}
        /\ member' = [u \in DOMAIN member \ out |-> member[u]]
        /\ valid' = valid \ out
        /\ UNCHANGED asking

\* No two affiliations become one.  An identity whose affiliation does not
\* exist is left where it is.
Rename(old, new) ==
    /\ UNCHANGED <<valid, asking>>
    /\ old \in tree
    /\ tree' = {Moved(p, old, new) : p \in tree}
    /\ \A p, q \in tree : Moved(p, old, new) = Moved(q, old, new) => p = q
    /\ member' = [u \in DOMAIN member |->
                    IF member[u] \in tree THEN Moved(member[u], old, new) ELSE member[u]]

\* A registration or a modification.
Place(u, p) ==
    /\ UNCHANGED <<tree, valid, asking>>
    /\ member' = [v \in DOMAIN member \cup {u} |-> IF v = u THEN p ELSE member[v]]

Ask(u) ==
    /\ UNCHANGED <<tree, member, valid>>
    /\ u \in DOMAIN member
    /\ asking' = asking \cup {u}

\* The identity may have been removed since it asked.
Certify(u) ==
    /\ UNCHANGED <<tree, member>>
    /\ u \in asking
    /\ valid' = valid \cup {u}
    /\ asking' \in {asking, asking \ {u}}

GiveUp ==
    /\ UNCHANGED <<tree, member, valid>>
    /\ asking' \subseteq asking

Next ==
    \/ \E p \in Paths : Extend(p)
    \/ \E u \in IDs : \/ Ask(u) \/ Certify(u)
                     \/ \E p \in Paths \cup {Root} : Place(u, p)
    \/ GiveUp
    \/ \E p \in Paths : Prune(p)
    \/ \E old, new \in Paths : Rename(old, new)

Spec == Init /\ [][Next]_vars
=============================================================================
