------------------------ MODULE MCRegistrationPolicy ------------------------
(* Registrars of different authority and the requests of the run policy.   *)
EXTENDS RegistrationPolicy, TLC

CONSTANTS admin, orgReg, u1, u2

MCParts == STRING
Org1 == <<"org1">>
Dept == <<"org1", "dept">>
Org2 == <<"org2">>
MCAffiliations == {Org1, Dept, Org2}

Peer == <<"peer">>
AppAny == <<"app", "*">>
AppX == <<"app", "x">>

\* The administrator may do everything; the registrar of an organization has
\* hf.Revoker with the value false.
MCBootstrap ==
    admin :> [type |-> Client, aff |-> Root,
              attrs |-> <<Attr(Roles, {Star}), Attr(DelegateRoles, {Star}),
                          Attr(RegistrarAttr, {Star}), Attr(Revoker, True)>>]
    @@ orgReg :> [type |-> Client, aff |-> Org1,
                  attrs |-> <<Attr(Roles, {Client, Peer}), Attr(DelegateRoles, {Client}),
                              Attr(RegistrarAttr, {<<"hf", "*">>, AppAny}),
                              Attr(Revoker, False)>>]

Asks(by, id, attrs) ==
    [by |-> by, id |-> id, type |-> NoType, aff |-> NoAff, attrs |-> attrs]

\* A registrar for peers, a revoker, one who may pass everything on.
PeerRegistrar == <<Attr(Roles, {Client, Peer}), Attr(RegistrarAttr, {Roles, AppAny})>>
MayRevoke == <<Attr(Revoker, True), Attr(RegistrarAttr, {Revoker})>>
All == <<Attr(Roles, {Star}), Attr(RegistrarAttr, {Star})>>

\* The administrator makes registrars of all kinds, of u1 and of orgReg, and
\* takes their authority, or its own, back.
AdminRequests ==
    {Asks(admin, id, a) : id \in {u1, orgReg},
        a \in {All, MayRevoke, <<Attr(Roles, {}), Attr(Revoker, {})>>}}
    \cup {[Asks(admin, u1, <<>>) EXCEPT !.aff = a] : a \in {Dot, Org1, Dept}}
    \cup {Asks(admin, u1, <<Attr(Revoker, False), Attr(Revoker, True)>>),
          Asks(admin, admin, <<Attr(Roles, {Client}), Attr(Revoker, {})>>)}

\* orgReg acts on u1 and on itself, u1 on u2 and on itself, and may ask for more
\* than it has.
OrgRequests ==
    {Asks(orgReg, u1, a) :
        a \in {<<>>, PeerRegistrar, MayRevoke, <<Attr(Roles, {Star})>>,
               <<Attr(RegistrarAttr, {<<"hf", "*">>})>>,
               <<Attr(Roles, {Client}), Attr(DelegateRoles, {Client, Peer})>>,
               <<Attr(Roles, {Client}), Attr(DelegateRoles, {Client})>>,
               <<Attr(AppX, {<<"1">>}), Attr(AppX, {<<"2">>})>>, <<Attr(AppX, {})>>,
               <<Attr(Type, {Peer})>>, <<Attr(<<"hf", "Unknown">>, True)>>}}
    \cup {Asks(orgReg, orgReg, a) : a \in {All, MayRevoke}}
    \cup {[Asks(orgReg, u1, <<>>) EXCEPT !.type = Peer, !.aff = a] : a \in {Dept, Org2, Dot}}

U1Requests ==
    {Asks(u1, u2, a) : a \in {<<>>, PeerRegistrar, MayRevoke, All,
                              <<Attr(AppX, {<<"1">>}), Attr(AppX, {})>>}}
    \cup {Asks(u1, u1, All), Asks(u1, orgReg, <<Attr(Revoker, True)>>)}
    \cup {[Asks(u1, u2, <<>>) EXCEPT !.aff = Org2]}

MCRequests == AdminRequests \cup OrgRequests \cup U1Requests

Symmetry == Permutations(Handlers)
=============================================================================
