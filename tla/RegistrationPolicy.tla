------------------------- MODULE RegistrationPolicy -------------------------
(***************************************************************************)
(* Who may register, modify and remove whom.  A registrar is an identity   *)
(* with the attribute hf.Registrar.Roles; what it may give to others       *)
(* follows from its own type, affiliation and attributes, as they were     *)
(* when its request was authenticated.                                     *)
(*                                                                         *)
(* An attribute name is a path: "hf.Revoker" is <<"hf", "Revoker">>, the   *)
(* pattern "app.*" is <<"app", "*">>.  The value of an attribute is the    *)
(* set of the elements of the list, each one a path, {} being "".  Names   *)
(* are unique here: IdentityLifecycle treats tables without a key.         *)
(***************************************************************************)
EXTENDS Integers, AffiliationNames

CONSTANTS
    Parts,         \* what names are made of, with "." between them
    IDs,           \* names of identities
    Bootstrap,     \* the identities of the configuration file, with their rows
    Affiliations,  \* the affiliations that exist
    Requests,      \* the requests: [by, id, type, aff, attrs]
    Handlers,      \* requests that are processed at the same time
    MaxWrites      \* bound on the rows that are written

\* The parts of an affiliation are not empty and have no "." in them.
Path == Seq(Parts) \ {<< >>}
NoType == << >>
Dot == <<".">>
NoAff == <<"">>

Attribute == [name : Path, value : SUBSET Path]
Identity == [type : Path \cup {NoType}, aff : Affiliations \cup {Root}, attrs : Seq(Attribute)]
Request == [by : IDs, id : IDs, type : Path \cup {NoType}, aff : Path \cup {Dot, NoAff},
            attrs : Seq(Attribute)]

NoDuplicates(attrs) == \A i, j \in DOMAIN attrs : attrs[i].name = attrs[j].name => i = j

\* The attributes in the configuration file are a map: each one is there once.
ASSUME PolicyConstantsOK ==
    /\ DOMAIN Bootstrap \subseteq IDs
    /\ Bootstrap \in [DOMAIN Bootstrap -> Identity]
    /\ \A id \in DOMAIN Bootstrap : NoDuplicates(Bootstrap[id].attrs)
    /\ {"hf", "Type", "Affiliation"} \subseteq Parts
    /\ Affiliations \subseteq Path \ {Dot, NoAff}
    /\ Requests \subseteq Request
    /\ MaxWrites \in Nat

VARIABLES
    users,   \* the rows of the table, by name
    h,       \* the requests
    writes,  \* the writes so far
    power    \* history: the configured identities whose authority is in a row

vars == <<users, h, writes, power>>
-----------------------------------------------------------------------------
(* Attributes.                                                             *)

Roles == <<"hf", "Registrar", "Roles">>
DelegateRoles == <<"hf", "Registrar", "DelegateRoles">>
RegistrarAttr == <<"hf", "Registrar", "Attributes">>
Revoker == <<"hf", "Revoker">>
Type == <<"hf", "Type">>
Affiliation == <<"hf", "Affiliation">>

BooleanAttributes == {Revoker} \cup {<<"hf", a>> : a \in {"IntermediateCA", "GenCRL",
                                                          "AffiliationMgr"}}
ListAttributes == {Roles, DelegateRoles, RegistrarAttr}
FixedAttributes == {Type, Affiliation, <<"hf", "EnrollmentID">>}

IsReserved(n) == n[1] = "hf" /\ Len(n) > 1
IsCustom(n) == ~IsReserved(n)

Star == <<"*">>
True == {<<"true">>}
False == {<<"false">>}
Client == <<"client">>

Attr(n, v) == [name |-> n, value |-> v]

Positions(attrs, n) == {i \in DOMAIN attrs : attrs[i].name = n}

\* A row is read into a map from names to values: the last value counts.
HasAttribute(attrs, n) == Positions(attrs, n) # {}
GetAttribute(attrs, n) ==
    IF HasAttribute(attrs, n) THEN attrs[Max(Positions(attrs, n))].value ELSE {}

\* In a list of requested attributes the first value counts.
Exists(attrs, n) == HasAttribute(attrs, n)
GetAttrValue(attrs, n) ==
    IF Exists(attrs, n) THEN attrs[Min(Positions(attrs, n))].value ELSE {}

\* "app.*" matches the names that have more parts than "app".
Matches(p, n) == IF Last(p) = "*" THEN IsStrictPrefix(Front(p), n) ELSE p = n

canRegisterAttr(n, patterns) == \E p \in patterns : Matches(p, n)

\* The attributes and the columns of a row say the same.
Agree(row) ==
    /\ HasAttribute(row.attrs, Type) => GetAttribute(row.attrs, Type) = {row.type} \ {NoType}
    /\ HasAttribute(row.attrs, Affiliation)
         => GetAttribute(row.attrs, Affiliation) = {row.aff} \ {Root}

\* addIdentity stores the attributes of the configuration as they are.
ASSUME ConfigurationAgrees == \A id \in DOMAIN Bootstrap : Agree(Bootstrap[id])
-----------------------------------------------------------------------------
(* May a registrar give these attributes?                                  *)

\* Variant: whatever is asked for.
IsSubsetOfAnything(n, requested, callers) == TRUE

IsSubsetOf(n, requested, callers) ==
    \/ n \in {Roles, DelegateRoles} /\ Star \in callers
    \/ requested \subseteq callers

\* The values of hf.Registrar.Attributes: the registrar may register each one,
\* and the identity has the reserved ones or is given them.
checkHfRegistrarAttrValues(requested, reqAttrs, user, callers) ==
    \A v \in requested :
        /\ canRegisterAttr(v, callers)
        /\ IsReserved(v) => Exists(reqAttrs, v) \/ HasAttribute(user, v)

checkDelegateRoleValues(reqAttrs, user) ==
    LET asked == GetAttrValue(reqAttrs, Roles)
        roles == IF asked = {} THEN GetAttribute(user, Roles) ELSE asked
    IN  Star \in roles \/ GetAttrValue(reqAttrs, DelegateRoles) \subseteq roles

validateListAttribute(a, callers, reqAttrs, user) ==
    \/ a.value = {}
    \/ a.name = RegistrarAttr
       /\ checkHfRegistrarAttrValues(a.value, reqAttrs, user, callers)
    \/ /\ a.name # RegistrarAttr
       /\ IsSubsetOf(a.name, a.value, callers)
       /\ a.name = DelegateRoles => checkDelegateRoleValues(reqAttrs, user)

\* Variant: the registrar has the attribute, whatever its value.
OwnsBooleanAttribute(a, callers) == a.value \in {{}, True, False}

validateBooleanAttribute(a, callers) ==
    callers = True /\ a.value \in {{}, True, False}

\* user is <<>> for a new identity.
isRegistrarAuthorized(a, reqAttrs, user, registrar) ==
    LET callers == GetAttribute(registrar, a.name) IN
    \/ IsCustom(a.name)
    \/ /\ a.name \in BooleanAttributes /\ HasAttribute(registrar, a.name)
       /\ validateBooleanAttribute(a, callers)
    \/ /\ a.name \in ListAttributes /\ HasAttribute(registrar, a.name)
       /\ validateListAttribute(a, callers, reqAttrs, user)

CanRegisterAttribute(a, reqAttrs, user, registrar) ==
    /\ canRegisterAttr(a.name, GetAttribute(registrar, RegistrarAttr))
    /\ isRegistrarAuthorized(a, reqAttrs, user, registrar)

CanRegisterRequestedAttributes(reqAttrs, user, registrar) ==
    \A i \in DOMAIN reqAttrs : CanRegisterAttribute(reqAttrs[i], reqAttrs, user, registrar)
-----------------------------------------------------------------------------
(* May a registrar act on this identity?  caller is the row that was read  *)
(* when the request was authenticated.                                     *)

ContainsAffiliation(caller, aff) == Within(caller.aff, aff)

CanActOnType(caller, type) ==
    LET roles == GetAttribute(caller.attrs, Roles) IN
    /\ roles # {}
    /\ Star \in roles \/ (IF type = NoType THEN Client ELSE type) \in roles

CanManageUser(caller, row) ==
    ContainsAffiliation(caller, row.aff) /\ CanActOnType(caller, row.type)

\* What the affiliation of a request stands for: "." is the root, "" what it
\* would be otherwise.
RequestedAff(aff, default) == IF aff = Dot THEN Root ELSE IF aff = NoAff THEN default ELSE aff

\* canRegister, validateAffiliation
canRegister(caller, row, reqAttrs) ==
    /\ CanActOnType(caller, row.type)
    /\ ContainsAffiliation(caller, row.aff)
    /\ row.aff = Root \/ row.aff \in Affiliations
    /\ CanRegisterRequestedAttributes(reqAttrs, <<>>, caller.attrs)

\* The affiliation is compared as it is in the request, "." included.
CanModifyUser(caller, req, row) ==
    /\ req.aff \in Affiliations \cup {Dot, NoAff}
    /\ req.aff # NoAff => ContainsAffiliation(caller, req.aff)
    /\ req.type # NoType => CanActOnType(caller, req.type)
    /\ CanRegisterRequestedAttributes(req.attrs, row.attrs, caller.attrs)
-----------------------------------------------------------------------------
(* The rows that requests ask for.                                         *)

Fixed(type, aff) == <<Attr(Type, {type} \ {NoType}), Attr(Affiliation, {aff} \ {Root})>>

normalizeType(caller, req) == IF req.type = NoType THEN caller.type ELSE req.type

\* registerUserID adds the fixed attributes to those of the request.
RegisteredRow(caller, req) ==
    LET type == normalizeType(caller, req)
        aff == RequestedAff(req.aff, caller.aff)
    IN  [type |-> type, aff |-> aff, attrs |-> req.attrs \o Fixed(type, aff)]

\* Variant: an attribute is always added at the end.
AppendAttribute(attrs, a) == IF a.value = {} THEN attrs ELSE Append(attrs, a)

\* getNewAttributes, one attribute: the first one of the name is updated, or
\* removed if the value is empty.
UpdateAttribute(attrs, a) ==
    LET i == Min(Positions(attrs, a.name)) IN
    IF ~HasAttribute(attrs, a.name)
    THEN IF a.value = {} THEN attrs ELSE Append(attrs, a)
    ELSE IF a.value = {} THEN RemoveAt(attrs, i) ELSE [attrs EXCEPT ![i] = a]

getNewAttributes(attrs, new) ==
    LET updated[i \in 0..Len(new)] ==
          IF i = 0 THEN attrs ELSE UpdateAttribute(updated[i - 1], new[i])
    IN  updated[Len(new)]

\* Variant: the fixed attributes stay as they are.
KeepFixedAttributes(row, req) ==
    [type |-> IF req.type = NoType THEN row.type ELSE req.type,
     aff |-> RequestedAff(req.aff, row.aff),
     attrs |-> getNewAttributes(row.attrs, req.attrs)]

\* getModifyReq
ModifiedRow(row, req) ==
    LET type == IF req.type = NoType THEN row.type ELSE req.type
        aff == RequestedAff(req.aff, row.aff)
        fixed == (IF req.aff = NoAff THEN <<>> ELSE <<Attr(Affiliation, {aff} \ {Root})>>)
                 \o (IF req.type = NoType THEN <<>> ELSE <<Attr(Type, {type})>>)
    IN  [type |-> type, aff |-> aff, attrs |-> getNewAttributes(row.attrs, req.attrs \o fixed)]
-----------------------------------------------------------------------------
(* Requests.                                                               *)

Idle == [pc |-> "idle"]
RequestsBy(id) == {req \in Requests : req.by = id}
Removals(id) == {req.id : req \in {q \in RequestsBy(id) : q.attrs = <<>>}}
Put(f, k, v) == [x \in DOMAIN f \cup {k} |-> IF x = k THEN v ELSE f[x]]
Without(f, k) == [x \in DOMAIN f \ {k} |-> f[x]]

\* Authentication reads the caller's row; the handler keeps it.
TokenAuthentication(r) ==
    /\ h[r] = Idle /\ writes < MaxWrites
    /\ \E id \in DOMAIN users :
         h' = [h EXCEPT ![r] = [pc |-> "lookup", id |-> id, caller |-> users[id],
                                power |-> power[id]]]
    /\ UNCHANGED <<users, writes, power>>

\* registerUser up to GetUser, which has to fail.
RegisterLookup(r) ==
    /\ h[r].pc = "lookup"
    /\ \E req \in RequestsBy(h[r].id) :
         LET row == RegisteredRow(h[r].caller, req) IN
         /\ canRegister(h[r].caller, row, req.attrs)
         /\ req.id \notin DOMAIN users
         /\ h' = [h EXCEPT ![r] = [pc |-> "insert", id |-> req.id, row |-> row,
                                   power |-> h[r].power]]
    /\ UNCHANGED <<users, writes, power>>

InsertUser(r) ==
    /\ h[r].pc = "insert" /\ h[r].id \notin DOMAIN users
    /\ users' = Put(users, h[r].id, h[r].row)
    /\ power' = Put(power, h[r].id, h[r].power)
    /\ writes' = writes + 1
    /\ h' = [h EXCEPT ![r] = Idle]

\* processPutRequest: the row is read, checked and changed in memory.
ModifyLookup(r) ==
    /\ h[r].pc = "lookup"
    /\ \E req \in RequestsBy(h[r].id) :
         /\ req.id \in DOMAIN users
         /\ CanManageUser(h[r].caller, users[req.id])
         /\ CanModifyUser(h[r].caller, req, users[req.id])
         /\ h' = [h EXCEPT ![r] = [pc |-> "update", id |-> req.id, asked |-> req.attrs,
                                   old |-> users[req.id],
                                   row |-> ModifiedRow(users[req.id], req),
                                   power |-> h[r].power \cup power[req.id]]]
    /\ UNCHANGED <<users, writes, power>>

\* All columns are written, whatever is in the row by now.
UpdateUser(r) ==
    /\ h[r].pc = "update" /\ h[r].id \in DOMAIN users
    /\ users' = [users EXCEPT ![h[r].id] = h[r].row]
    /\ power' = [power EXCEPT ![h[r].id] = h[r].power]
    /\ writes' = writes + 1
    /\ h' = [h EXCEPT ![r] = Idle]

\* processDeleteRequest; a caller that removes itself gives "force".
DeleteLookup(r) ==
    /\ h[r].pc = "lookup"
    /\ \E id \in Removals(h[r].id) :
         /\ id \in DOMAIN users
         /\ CanManageUser(h[r].caller, users[id])
         /\ h' = [h EXCEPT ![r] = [pc |-> "delete", id |-> id]]
    /\ UNCHANGED <<users, writes, power>>

DeleteUser(r) ==
    /\ h[r].pc = "delete" /\ h[r].id \in DOMAIN users
    /\ users' = Without(users, h[r].id)
    /\ power' = Without(power, h[r].id)
    /\ writes' = writes + 1
    /\ h' = [h EXCEPT ![r] = Idle]

\* A request is refused, or a statement fails.
Fail(r) ==
    /\ h[r] # Idle
    /\ h' = [h EXCEPT ![r] = Idle]
    /\ UNCHANGED <<users, writes, power>>

Init ==
    /\ users = Bootstrap
    /\ h = [r \in Handlers |-> Idle]
    /\ writes = 0
    /\ power = [id \in DOMAIN Bootstrap |-> {id}]

Next == \E r \in Handlers :
    \/ TokenAuthentication(r)
    \/ RegisterLookup(r) \/ InsertUser(r)
    \/ ModifyLookup(r) \/ UpdateUser(r)
    \/ DeleteLookup(r) \/ DeleteUser(r)
    \/ Fail(r)

Spec == Init /\ [][Next]_vars
-----------------------------------------------------------------------------
(* Properties.                                                             *)

\* Type correctness: every identity has an affiliation that is the root or exists.
TypeOK ==
    /\ DOMAIN users \subseteq IDs /\ DOMAIN power = DOMAIN users
    /\ \A id \in DOMAIN users :
         /\ users[id].aff \in Affiliations \cup {Root}
         /\ power[id] \subseteq DOMAIN Bootstrap
    /\ \A r \in Handlers : h[r].pc \in {"idle", "lookup", "insert", "update", "delete"}
    /\ writes \in Nat

\* The authority in a row.
Holds(row, a) == GetAttribute(row.attrs, a) = True
MayAct(row, type) ==
    LET roles == GetAttribute(row.attrs, Roles) IN type \in roles \/ Star \in roles
MayRegister(row, n) == canRegisterAttr(n, GetAttribute(row.attrs, RegistrarAttr))

Rows == {users[id] : id \in DOMAIN users}
AllTypes == UNION {{row.type} \cup GetAttribute(row.attrs, Roles) : row \in Rows}
AllNames == UNION {{row.attrs[i].name : i \in DOMAIN row.attrs}
                      \cup GetAttribute(row.attrs, RegistrarAttr) : row \in Rows}

\* Nobody ends up with more than those had together from whom its authority
\* comes: along any chain of registrations and modifications, of requests in
\* progress at the same time and of names that are removed and registered
\* again, the types, roles, attributes and affiliation of an identity stay
\* within those that the configuration gave to the registrars at the start of
\* the chain.
NoEscalation ==
    \A id \in DOMAIN users :
        LET row == users[id]
            Some(P(_)) == \E b \in power[id] : P(Bootstrap[b])
        IN  /\ Some(LAMBDA b : MayAct(b, row.type) \/ b.type = row.type)
            /\ Some(LAMBDA b : Within(b.aff, row.aff))
            /\ \A t \in GetAttribute(row.attrs, Roles) : Some(LAMBDA b : MayAct(b, t))
            /\ \A a \in BooleanAttributes : Holds(row, a) => Some(LAMBDA b : Holds(b, a))
            /\ \A n \in AllNames : MayRegister(row, n) => Some(LAMBDA b : MayRegister(b, n))
            /\ \A i \in DOMAIN row.attrs :
                 row.attrs[i].name \in FixedAttributes
                    \/ Some(LAMBDA b : \/ MayRegister(b, row.attrs[i].name)
                                       \/ HasAttribute(b.attrs, row.attrs[i].name))

\* The rows a request in progress works with.
Kept(r) ==
    (IF h[r].pc = "lookup" THEN {h[r].caller} ELSE {})
        \cup (IF h[r].pc \in {"insert", "update"} THEN {h[r].row} ELSE {})

Extinct(P(_)) == ~\E row \in Rows \cup UNION {Kept(r) : r \in Handlers} : P(row)

\* Authority is not made from nothing: when nobody has a boolean attribute, the
\* role of a type or the right to register an attribute, in the table or in a
\* request that is in progress, nobody will ever have it again.
NoAuthorityFromNothing ==
    [][/\ \A a \in BooleanAttributes :
            Extinct(LAMBDA row : Holds(row, a)) => Extinct(LAMBDA row : Holds(row, a))'
       /\ \A t \in AllTypes' :
            Extinct(LAMBDA row : MayAct(row, t)) => Extinct(LAMBDA row : MayAct(row, t))'
       /\ \A n \in AllNames' :
            Extinct(LAMBDA row : MayRegister(row, n))
                => Extinct(LAMBDA row : MayRegister(row, n))']_vars

\* What an enrollment certificate will say of the type and the affiliation of
\* an identity, from its attributes, is what the row says.
FixedAttributesAgree == \A row \in Rows : Agree(row)

\* A modification that nothing overtook has for each attribute the last value
\* that was asked for, has removed those asked to be empty, and has left the
\* others alone: elements of the list are updated and removed in place.
ModifiesWhatIsAsked ==
    [][\A r \in Handlers :
         h[r].pc = "update" /\ h[r].id \in DOMAIN users /\ users[h[r].id] = h[r].old
         /\ NoDuplicates(h[r].old.attrs) /\ users' # users /\ h'[r] = Idle =>
            LET new == users'[h[r].id].attrs
                asked == h[r].asked
            IN  /\ NoDuplicates(new)
                /\ \A n \in {asked[i].name : i \in DOMAIN asked} :
                     /\ GetAttribute(new, n) = GetAttribute(asked, n)
                     /\ GetAttribute(asked, n) = {} => ~HasAttribute(new, n)
                /\ \A n \in {h[r].old.attrs[i].name : i \in DOMAIN h[r].old.attrs} :
                     HasAttribute(asked, n) \/ n \in FixedAttributes
                     \/ GetAttribute(new, n) = GetAttribute(h[r].old.attrs, n)]_vars
=============================================================================
