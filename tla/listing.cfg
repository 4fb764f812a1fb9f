\* Trees of up to seven affiliations, the rows in any order.
SPECIFICATION ListingSpec
CONSTANTS
    a = a
    b = b
    Results <- TreeResults
INVARIANT ListsEveryAffiliation
PROPERTY ListingEnds
CHECK_DEADLOCK FALSE
