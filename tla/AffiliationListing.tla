-------------------------- MODULE AffiliationListing --------------------------
(***************************************************************************)
(* How a response to an affiliation request is built: the rows the query   *)
(* returned, in any order, become a tree.  fillAffiliationInfo looks for a *)
(* child of its affiliation in a slice, removes it with append from the    *)
(* slice, and calls itself for the child with what is left.  The slices of *)
(* all the calls share one array, and removing an element moves the        *)
(* elements after it: it also changes what the callers see.                *)
(*                                                                         *)
(* Its parts are named so that one module can extend both Affiliations and *)
(* this one.                                                               *)
(***************************************************************************)
EXTENDS AffiliationNames

CONSTANTS
    Results   \* sequences of affiliations a query can return

VARIABLES
    rows,    \* the rows of the query
    arr,     \* the array that all the slices share
    stack,   \* the calls of fillAffiliationInfo: name, and length of the slice
    listed,  \* the affiliations in the response, in the order they are found
    pc       \* "start", "fill", "done" or "error"

listingVars == <<rows, arr, stack, listed, pc>>

isChildAffiliation(name, child) ==
    Len(child) = Len(name) + 1 /\ IsPrefix(name, child)

\* The rows that are the child of no row.
getRootAffiliationNames(s) ==
    {p \in Range(s) : \A q \in Range(s) : ~isChildAffiliation(q, p)}

RemoveTwoByAppend(s, len, i) ==
    [j \in DOMAIN s |-> IF i <= j /\ j + 1 < len THEN s[j + 2] ELSE s[j]]

\* append(s[:i], s[i+1:]...) for a slice s of the given length: the elements
\* after i move down by one, the last one stays where it is as well.
RemoveByAppend(s, len, i) ==
    [j \in DOMAIN s |-> IF i <= j /\ j < len THEN s[j + 1] ELSE s[j]]

Top == Head(stack)

Children == {i \in 1..Top.len : isChildAffiliation(Top.name, arr[i])}

-----------------------------------------------------------------------------
ListingInit ==
    /\ rows \in Results
    /\ arr = rows
    /\ stack = << >>
    /\ listed = << >>
    /\ pc = "start"

\* getResponse: no rows make an empty response, several roots an error.
getResponse ==
    /\ pc = "start"
    /\ LET roots == getRootAffiliationNames(rows)
       IN  \/ roots = {} /\ pc' = "done" /\ UNCHANGED <<stack, listed>>
           \/ /\ \E p, q \in roots : p # q
              /\ pc' = "error" /\ UNCHANGED <<stack, listed>>
           \/ \E root \in roots :
                /\ roots = {root}
                /\ pc' = "fill"
                /\ stack' = <<[name |-> root, len |-> Len(rows)]>>
                /\ listed' = <<root>>
    /\ UNCHANGED <<rows, arr>>

\* The first child that the current call sees is removed and filled in.
FillChild ==
    /\ pc = "fill"
    /\ \E i \in Children :
        /\ \A j \in Children : i <= j
        /\ arr' = RemoveByAppend(arr, Top.len, i)
        /\ listed' = Append(listed, arr[i])
        /\ stack' = <<[name |-> arr[i], len |-> Top.len - 1],
                      [Top EXCEPT !.len = Top.len - 1]>> \o Tail(stack)
    /\ UNCHANGED <<rows, pc>>

FillReturnMissingBreak ==
    /\ pc = "fill"
    /\ Children = {}
    /\ UNCHANGED listingVars

\* A call that sees no more children returns.
FillReturn ==
    /\ pc = "fill"
    /\ Children = {}
    /\ stack' = Tail(stack)
    /\ pc' = IF Tail(stack) = << >> THEN "done" ELSE "fill"
    /\ UNCHANGED <<rows, arr, listed>>

ListingNext == getResponse \/ FillChild \/ FillReturn

\* The handler is one goroutine that waits for nobody.
ListingSpec == ListingInit /\ [][ListingNext]_listingVars /\ WF_listingVars(ListingNext)

-----------------------------------------------------------------------------
(* Properties.                                                             *)

\* Although a call changes the array under the slices of its callers, no
\* affiliation gets lost: a complete response lists all of the rows and
\* nothing else.
ListsEveryAffiliation == pc = "done" => Range(listed) = Range(rows)

\* The nested loops and calls come to an end.
ListingEnds == <>(pc \in {"done", "error"})

\* serveraffiliations.go: "Remove this child affiliation": it is not found
\* again, so that each affiliation is listed once.
ListsOnce == IsInjective(listed)
===============================================================================
