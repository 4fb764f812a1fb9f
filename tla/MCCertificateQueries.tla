------------------------ MODULE MCCertificateQueries ------------------------
(* Certificates, requests and windows of the run queries.                  *)
EXTENDS CertificateQueries, TLC

CONSTANTS c1, c2, alice, bob

MCOwner == c1 :> alice @@ c2 :> bob
MCExpiry == c1 :> 1 @@ c2 :> 9
Org == <<"org">>
MCUserAff == alice :> <<"org", "dept">> @@ bob :> <<"other">>
MCUserType == alice :> "client" @@ bob :> "peer"

MCChunks == {Invalid, 0, 1, 2}

At(n) == [relative |-> FALSE, n |-> n]
FromNow(n) == [relative |-> TRUE, n |-> n]

All == [kind |-> "certs", aff |-> Root, id |-> None, notExpired |-> FALSE,
        notRevoked |-> FALSE, expStart |-> None, expEnd |-> None, revStart |-> None,
        revEnd |-> None, roles |-> {}]
IDList == [All EXCEPT !.kind = "ids", !.roles = {"client"}]

MCListRequests ==
    {All, [All EXCEPT !.notRevoked = TRUE, !.notExpired = TRUE],
     [All EXCEPT !.aff = Org], [All EXCEPT !.revEnd = FromNow(0), !.id = alice],
     [All EXCEPT !.expStart = At(2), !.notExpired = TRUE],
     [IDList EXCEPT !.roles = {"*"}], [IDList EXCEPT !.aff = Org, !.roles = {"*"}]}

MCCRLRequests ==
    {AllRevoked, [AllRevoked EXCEPT !.revAfter = 1, !.revBefore = 3],
     [AllRevoked EXCEPT !.expAfter = 2, !.expBefore = 1]}
=============================================================================
