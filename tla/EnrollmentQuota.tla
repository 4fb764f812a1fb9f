--------------------------- MODULE EnrollmentQuota ---------------------------
(***************************************************************************)
(* What limiting the enrollments of an identity promises (users-guide,     *)
(* "registry.maxenrollments"): an account is opened with a limit, which    *)
(* never changes; the secret of the account is used one enrollment at a    *)
(* time, and never more often than the limit allows; -1 is no limit.       *)
(***************************************************************************)
EXTENDS Integers

CONSTANT Accounts

VARIABLES
    limit,   \* the limit of every open account
    used     \* how often its secret was used

Init == limit \in [DOMAIN limit -> Int] /\ used = [a \in DOMAIN limit |-> 0]

Open(a) ==
    /\ a \in DOMAIN limit' \ DOMAIN limit
    /\ limit'[a] \in Int
    /\ limit' = [x \in DOMAIN limit \cup {a} |-> IF x = a THEN limit'[a] ELSE limit[x]]
    /\ used' = [x \in DOMAIN limit \cup {a} |-> IF x = a THEN 0 ELSE used[x]]

Use(a) ==
    /\ a \in DOMAIN limit
    /\ limit[a] = -1 \/ used[a] < limit[a]
    /\ used' = [used EXCEPT ![a] = @ + 1]
    /\ UNCHANGED limit

Next == \E a \in Accounts : Open(a) \/ Use(a)

Spec == Init /\ [][Next]_<<limit, used>>
=============================================================================
