----------------------------- MODULE Affiliations -----------------------------
(***************************************************************************)
(* The affiliations of one CA and the identities below them, with requests *)
(* running concurrently against a SQLite database.  The server opens one   *)
(* connection and shares it, so a transaction keeps every other statement  *)
(* waiting; what a handler read outside a transaction may be out of date   *)
(* when the handler uses it.                                               *)
(*                                                                         *)
(* The removal of an affiliation is a transaction whose statements depend  *)
(* on nothing but the state it began in: one action.  A renaming updates   *)
(* one affiliation after the other in the order the database returns them, *)
(* and each of the updates can fail: one action for each.                  *)
(***************************************************************************)
EXTENDS AffiliationNames

CONSTANTS
    IDs,          \* enrollment IDs
    Labels,       \* the parts of affiliation names
    MaxDepth,     \* bound on the number of parts
    Names,        \* names that requests mention
    Handlers,     \* requests the server processes at a time
    Ops,          \* the kinds of request that clients send
    Managers,     \* IDs whose attribute hf.AffiliationMgr is true
    Registrars,   \* IDs with a value for hf.Registrar.Roles
    LoadedAffs,   \* the configured affiliations
    Configured,   \* ID -> affiliation of the configured identities
    Folded,       \* pairs of different labels that LIKE takes for the same
    NoAttr, Free, Lost

AllOps == {"add", "remove", "rename", "register", "modify", "enroll"}

\* The names of at most MaxDepth parts.
Paths == UNION {[1..n -> Labels] : n \in 1..MaxDepth}

ASSUME AffiliationConstantsOK ==
    /\ MaxDepth \in Nat \ {0}
    /\ Names \subseteq Paths
    /\ Ops \subseteq AllOps
    /\ Managers \subseteq IDs /\ Registrars \subseteq IDs
    /\ LoadedAffs \subseteq Paths
    /\ DOMAIN Configured \subseteq IDs
    /\ Configured \in [DOMAIN Configured -> Paths \cup {Root}]
    /\ Folded \subseteq Labels \X Labels
    /\ NoAttr \notin Paths \cup {Root}
    /\ Free \notin Handlers /\ Lost \notin Handlers \cup {Free}

VARIABLES
    affs,   \* the affiliations table
    users,  \* the users table: a partial function from IDs
    valid,  \* the IDs that own certificates that are not revoked
    conn,   \* the database connection: free, in a transaction, or lost
    saved,  \* the two tables as they were when the transaction began
    h       \* the request context of every handler

vars == <<affs, users, valid, conn, saved, h>>

-----------------------------------------------------------------------------
(* Records.                                                                *)

\* The affiliation column and the attribute hf.Affiliation.
UserRecord == [aff : Paths \cup {Root}, attr : Paths \cup {Root, NoAttr}]

PCs == AllOps \cup {"idle", "addParent", "insert", "delete", "renameCheck", "begin",
                    "loop", "commit", "insertUser", "modifyTarget", "updateUser", "sign"}

RequestContext ==
    [pc        : PCs,
     scope     : Paths \cup {Root},       \* the affiliation of ctx.caller
     registrar : BOOLEAN,                 \* ctx.isRegistrar()
     force     : BOOLEAN,
     name      : Paths \cup {Root},       \* the affiliation the request is about
     new       : Paths \cup {Root},       \* its new name
     todo      : SUBSET Paths,            \* what its loop still has to visit
     user      : IDs \cup {NoAttr},
     row       : UserRecord]              \* the row to write

NoRow == [aff |-> Root, attr |-> NoAttr]

Idle == [pc |-> "idle", scope |-> Root, registrar |-> FALSE, force |-> FALSE,
         name |-> Root, new |-> Root, todo |-> {}, user |-> NoAttr, row |-> NoRow]

NoUsers == [u \in {} |-> NoRow]
Unsaved == [affs |-> {}, users |-> NoUsers]

MembersOf(p) == {u \in DOMAIN users : users[u].aff = p}

\* name LIKE 'n.%'.  SQLite ignores the case of letters, and "_" in n stands
\* for any character: Folded has the labels that this takes for each other.
Like(n, p) == SeemsBelow(Folded, n, p)

Go(r, pc) == h' = [h EXCEPT ![r] = [@ EXCEPT !.pc = pc]]
Finish(r) == h' = [h EXCEPT ![r] = Idle]
Tables == <<affs, users, valid>>

-----------------------------------------------------------------------------
(* The caller.                                                             *)

\* A handler keeps in its context what it read, as long as it uses it.

\* Authentication with a certificate, then GetCaller: the handler keeps the
\* row of the caller it reads here.
Authenticate(r) ==
    /\ h[r].pc = "idle" /\ conn = Free
    /\ \E u \in DOMAIN users \cap valid, op \in Ops \ {"enroll"} :
        /\ op \in {"add", "remove", "rename"} => u \in Managers
        /\ op \in {"register", "modify"} => u \in Registrars
        /\ h' = [h EXCEPT ![r] = [Idle EXCEPT !.pc = op, !.scope = users[u].aff,
                                              !.registrar = u \in Registrars]]
    /\ UNCHANGED <<Tables, conn, saved>>

\* ContainsAffiliation: the caller is in the root affiliation, in p or above.
ContainsAffiliation(r, p) == Within(h[r].scope, p)

-----------------------------------------------------------------------------
(* Adding an affiliation.                                                  *)

\* With force the missing parents are added too, the topmost first; without
\* it a name with several parts needs its parent.
AddLookup(r) ==
    /\ h[r].pc = "add" /\ conn = Free
    /\ \E n \in Names \ affs, force \in BOOLEAN :
        /\ ContainsAffiliation(r, n)
        /\ h' = [h EXCEPT ![r] =
                   [Idle EXCEPT !.pc = IF force \/ Len(n) = 1 THEN "insert" ELSE "addParent",
                                !.name = n,
                                !.todo = IF force THEN Prefixes(n) \ {Root} ELSE {n}]]
    /\ UNCHANGED <<Tables, conn, saved>>

AddParent(r) ==
    /\ h[r].pc = "addParent" /\ conn = Free
    /\ Front(h[r].name) \in affs
    /\ Go(r, "insert")
    /\ UNCHANGED <<Tables, conn, saved>>

\* One INSERT; that the name is there already is not an error.
InsertAffiliation(r) ==
    /\ h[r].pc = "insert" /\ conn = Free
    /\ \E p \in h[r].todo :
        /\ \A q \in h[r].todo : Len(p) <= Len(q)
        /\ affs' = affs \cup {p}
        /\ h' = [h EXCEPT ![r] = IF h[r].todo = {p} THEN Idle
                                 ELSE [@ EXCEPT !.todo = h[r].todo \ {p}]]
    /\ UNCHANGED <<users, valid, conn, saved>>

-----------------------------------------------------------------------------
(* Removing an affiliation.                                                *)

RemoveLookup(r) ==
    /\ h[r].pc = "remove" /\ conn = Free
    /\ \E n \in Names \cap affs, force \in BOOLEAN :
        /\ n # h[r].scope
        /\ ContainsAffiliation(r, n)
        /\ h' = [h EXCEPT ![r] = [Idle EXCEPT !.pc = "delete", !.name = n, !.force = force,
                                              !.registrar = h[r].registrar]]
    /\ UNCHANGED <<Tables, conn, saved>>

DeleteAffiliationFlat(r) ==
    LET n == h[r].name
        ids == MembersOf(n)
        sub == {p \in affs : Like(n, p)}
    IN  /\ h[r].pc = "delete" /\ conn = Free
        /\ ids # {} => h[r].registrar /\ h[r].force
        /\ n \in affs
        /\ sub # {} => h[r].force
        /\ users' = [u \in DOMAIN users \ ids |-> users[u]]
        /\ valid' = valid \ ids
        /\ affs' = affs \ (sub \cup {n})
        /\ Finish(r)
        /\ UNCHANGED <<conn, saved>>

\* Identities at or below the affiliation go with it only for a registrar
\* that said force; so do the affiliations below it, for anybody with force.
DeleteAffiliation(r) ==
    LET n == h[r].name
        ids == {u \in DOMAIN users : users[u].aff = n \/ Like(n, users[u].aff)}
        sub == {p \in affs : Like(n, p)}
    IN  /\ h[r].pc = "delete" /\ conn = Free
        /\ ids # {} => h[r].registrar /\ h[r].force
        /\ n \in affs
        /\ sub # {} => h[r].force
        /\ users' = [u \in DOMAIN users \ ids |-> users[u]]
        /\ valid' = valid \ ids
        /\ affs' = affs \ (sub \cup {n})
        /\ Finish(r)
        /\ UNCHANGED <<conn, saved>>

-----------------------------------------------------------------------------
(* Renaming an affiliation.                                                *)

RenameLookup(r) ==
    /\ h[r].pc = "rename" /\ conn = Free
    /\ \E old \in Names \cap affs, new \in Names, force \in BOOLEAN :
        /\ ContainsAffiliation(r, old) /\ ContainsAffiliation(r, new)
        /\ h' = [h EXCEPT ![r] = [Idle EXCEPT !.pc = "renameCheck", !.name = old,
                                              !.new = new, !.force = force,
                                              !.registrar = h[r].registrar]]
    /\ UNCHANGED <<Tables, conn, saved>>

RenameCheck(r) ==
    /\ h[r].pc = "renameCheck" /\ conn = Free
    /\ h[r].new \notin affs
    /\ Go(r, "begin")
    /\ UNCHANGED <<Tables, conn, saved>>

BeginRenameUnchecked(r) ==
    LET moving == {h[r].name} \cup {p \in affs : Like(h[r].name, p)}
    IN  /\ h[r].pc = "begin" /\ conn = Free
        /\ \A p \in moving : Len(Rebase(p, h[r].name, h[r].new)) <= MaxDepth
        /\ conn' = r
        /\ saved' = [affs |-> affs, users |-> users]
        /\ h' = [h EXCEPT ![r] = [@ EXCEPT !.pc = "loop", !.todo = moving]]
        /\ UNCHANGED Tables

\* The transaction begins and selects the affiliations to rename.  (Requests
\* that would make a name longer than MaxDepth are not modelled.)
BeginRename(r) ==
    LET moving == {h[r].name} \cup {p \in affs : Like(h[r].name, p)}
    IN  /\ h[r].pc = "begin" /\ conn = Free
        /\ h[r].name \in affs
        /\ \A p \in moving : Len(Rebase(p, h[r].name, h[r].new)) <= MaxDepth
        /\ conn' = r
        /\ saved' = [affs |-> affs, users |-> users]
        /\ h' = [h EXCEPT ![r] = [@ EXCEPT !.pc = "loop", !.todo = moving]]
        /\ UNCHANGED Tables

NextToRenameUnforced(r, p) ==
    /\ h[r].pc = "loop" /\ conn = r
    /\ p \in h[r].todo
    /\ p = h[r].name => h[r].todo = {p}
    /\ MembersOf(p) # {} => h[r].registrar

\* The affiliation itself comes last; the others in any order.
NextToRename(r, p) ==
    /\ h[r].pc = "loop" /\ conn = r
    /\ p \in h[r].todo
    /\ p = h[r].name => h[r].todo = {p}
    /\ MembersOf(p) # {} => h[r].registrar /\ h[r].force

NewPath(r, p) == Rebase(p, h[r].name, h[r].new)

RenameOneColumnOnly(r, p) ==
    LET np == NewPath(r, p)
    IN  /\ NextToRename(r, p)
        /\ np \notin affs \ {p}
        /\ users' = [u \in DOMAIN users |->
                       IF u \in MembersOf(p) THEN [users[u] EXCEPT !.aff = np] ELSE users[u]]
        /\ affs' = (affs \ {p}) \cup {np}
        /\ h' = [h EXCEPT ![r] =
                   [@ EXCEPT !.pc = IF h[r].todo = {p} THEN "commit" ELSE "loop",
                             !.todo = h[r].todo \ {p}]]
        /\ UNCHANGED <<valid, conn, saved>>

\* Its identities get the new affiliation, as column and as attribute, then
\* the affiliation gets its new name.
RenameOne(r, p) ==
    LET np == NewPath(r, p)
    IN  /\ NextToRename(r, p)
        /\ np \notin affs \ {p}
        /\ users' = [u \in DOMAIN users |->
                       IF u \in MembersOf(p) THEN [aff |-> np, attr |-> np] ELSE users[u]]
        /\ affs' = (affs \ {p}) \cup {np}
        /\ h' = [h EXCEPT ![r] =
                   [@ EXCEPT !.pc = IF h[r].todo = {p} THEN "commit" ELSE "loop",
                             !.todo = h[r].todo \ {p}]]
        /\ UNCHANGED <<valid, conn, saved>>

\* The name is unique in the table.  MustExec panics when it is taken; the
\* HTTP server recovers from the panic and drops the request, but nobody
\* ends the transaction and the connection is not returned.
RenamePanics(r, p) ==
    /\ NextToRename(r, p)
    /\ NewPath(r, p) \in affs \ {p}
    /\ conn' = Lost
    /\ Finish(r)
    /\ UNCHANGED <<Tables, saved>>

CommitRename(r) ==
    /\ h[r].pc = "commit" /\ conn = r
    /\ conn' = Free
    /\ saved' = Unsaved
    /\ Finish(r)
    /\ UNCHANGED Tables

\* An error in the transaction: identities at the affiliation without force
\* or without a registrar, or a statement that fails.
Rollback(r) ==
    /\ conn = r
    /\ affs' = saved.affs
    /\ users' = saved.users
    /\ conn' = Free
    /\ saved' = Unsaved
    /\ Finish(r)
    /\ UNCHANGED valid

-----------------------------------------------------------------------------
(* Registering and modifying identities.  (Two registrations of one name   *)
(* are a matter of IdentityLifecycle.)                                     *)

\* The affiliation is looked up when the request is validated ...
RegisterLookup(r) ==
    /\ h[r].pc = "register" /\ conn = Free
    /\ \E u \in IDs, p \in Names \cup {Root} :
        /\ ContainsAffiliation(r, p)
        /\ p \in affs \cup {Root}
        /\ h' = [h EXCEPT ![r] = [Idle EXCEPT !.pc = "insertUser", !.user = u,
                                              !.row = [aff |-> p, attr |-> p]]]
    /\ UNCHANGED <<Tables, conn, saved>>

\* ... then registerUserID looks the identity up and inserts it.  Of what other
\* requests do in between, only another registration of the name would be
\* noticed.
InsertUser(r) ==
    /\ h[r].pc = "insertUser" /\ conn = Free
    /\ h[r].user \notin DOMAIN users
    /\ users' = [u \in DOMAIN users \cup {h[r].user} |->
                   IF u = h[r].user THEN h[r].row ELSE users[u]]
    /\ Finish(r)
    /\ UNCHANGED <<affs, valid, conn, saved>>

\* The handler copies the row of the identity ...
ModifyLookup(r) ==
    /\ h[r].pc = "modify" /\ conn = Free
    /\ \E u \in DOMAIN users :
        /\ ContainsAffiliation(r, users[u].aff)
        /\ h' = [h EXCEPT ![r] = [@ EXCEPT !.pc = "modifyTarget", !.user = u,
                                           !.row = users[u]]]
    /\ UNCHANGED <<Tables, conn, saved>>

\* ... changes its affiliation, to the root affiliation (the request says
\* "."), to one that exists, or not at all ...
ModifyTarget(r) ==
    /\ h[r].pc = "modifyTarget" /\ conn = Free
    /\ \E row \in {h[r].row, NoRow} \cup {[aff |-> p, attr |-> p] : p \in Names \cap affs} :
        /\ row # h[r].row => ContainsAffiliation(r, row.aff)
        /\ h' = [h EXCEPT ![r] = [Idle EXCEPT !.pc = "updateUser",
                                              !.user = h[r].user, !.row = row]]
    /\ UNCHANGED <<Tables, conn, saved>>

\* ... and writes all of it back.
UpdateUser(r) ==
    /\ h[r].pc = "updateUser" /\ conn = Free
    /\ h[r].user \in DOMAIN users
    /\ users' = [users EXCEPT ![h[r].user] = h[r].row]
    /\ Finish(r)
    /\ UNCHANGED <<affs, valid, conn, saved>>

-----------------------------------------------------------------------------
(* Enrolling.                                                              *)

\* An enrollment or re-enrollment.  The handler looks the identity up when it
\* authenticates and, at last, for its attributes ...
EnrollLookup(r) ==
    /\ h[r].pc = "idle" /\ conn = Free /\ "enroll" \in Ops
    /\ \E u \in DOMAIN users :
        h' = [h EXCEPT ![r] = [Idle EXCEPT !.pc = "sign", !.user = u]]
    /\ UNCHANGED <<Tables, conn, saved>>

\* ... then signs the certificate and stores it.
Sign(r) ==
    /\ h[r].pc = "sign" /\ conn = Free
    /\ valid' = valid \cup {h[r].user}
    /\ Finish(r)
    /\ UNCHANGED <<affs, users, conn, saved>>

-----------------------------------------------------------------------------
\* The handler returns an error outside a transaction.
Abort(r) ==
    /\ h[r].pc # "idle" /\ conn # r
    /\ Finish(r)
    /\ UNCHANGED <<Tables, conn, saved>>

\* The server goes down and comes up again; an open transaction is undone.
Restart ==
    /\ h' = [r \in Handlers |-> Idle]
    /\ conn' = Free
    /\ saved' = Unsaved
    /\ affs' = IF conn = Free THEN affs ELSE saved.affs
    /\ users' = IF conn = Free THEN users ELSE saved.users
    /\ UNCHANGED valid

\* The configured affiliations and identities.  Configured identities have
\* no attribute hf.Affiliation.
Init ==
    /\ affs = LoadedAffs
    /\ users = [u \in DOMAIN Configured |-> [aff |-> Configured[u], attr |-> NoAttr]]
    /\ valid = {}
    /\ conn = Free
    /\ saved = Unsaved
    /\ h = [r \in Handlers |-> Idle]

Next ==
    \/ \E r \in Handlers :
        \/ Authenticate(r)
        \/ AddLookup(r)
        \/ AddParent(r)
        \/ InsertAffiliation(r)
        \/ RemoveLookup(r)
        \/ DeleteAffiliation(r)
        \/ RenameLookup(r)
        \/ RenameCheck(r)
        \/ BeginRename(r)
        \/ \E p \in h[r].todo : RenameOne(r, p) \/ RenamePanics(r, p)
        \/ CommitRename(r)
        \/ Rollback(r)
        \/ RegisterLookup(r)
        \/ InsertUser(r)
        \/ ModifyLookup(r)
        \/ ModifyTarget(r)
        \/ UpdateUser(r)
        \/ EnrollLookup(r)
        \/ Sign(r)
        \/ Abort(r)
    \/ Restart

Spec == Init /\ [][Next]_vars

-----------------------------------------------------------------------------
(* Properties.                                                             *)

\* What is in the database once an open transaction is undone.
CommittedAffs == IF conn = Free THEN affs ELSE saved.affs
CommittedUsers == IF conn = Free THEN users ELSE saved.users

\* The identities that handlers have looked up to sign their certificates.
Asking == {h[r].user : r \in {q \in Handlers : h[q].pc = "sign"}}

Orphan(u) ==
    u \in DOMAIN CommittedUsers /\ CommittedUsers[u].aff \notin CommittedAffs \cup {Root}

\* Type correctness; the loop of a renaming visits only affiliations.
TypeOK ==
    /\ affs \subseteq Paths
    /\ DOMAIN users \subseteq IDs
    /\ users \in [DOMAIN users -> UserRecord]
    /\ valid \subseteq IDs
    /\ conn \in Handlers \cup {Free, Lost}
    /\ saved.affs \subseteq Paths
    /\ DOMAIN saved.users \subseteq IDs
    /\ saved.users \in [DOMAIN saved.users -> UserRecord]
    /\ h \in [Handlers -> RequestContext]
    /\ \A r \in Handlers : h[r].pc = "loop" => conn = r /\ h[r].todo \subseteq affs

\* The attribute hf.Affiliation that goes into certificates never contradicts
\* the affiliation column: registration, modification and renaming write the
\* two together.
AttributeAgrees == \A u \in DOMAIN users : users[u].attr \in {NoAttr, users[u].aff}

\* The statements of the handlers implement the abstract tree: a removal
\* takes exactly the affiliations and identities that LIKE finds at or below
\* the name and revokes their certificates, except those still to be signed
\* for an enrollment that found the identity before; a renaming, whatever
\* the order in which its loop visits the affiliations, moves all of them
\* and their identities or none; and the server may go down in between.
Tree == INSTANCE AffiliationTree WITH
    tree <- CommittedAffs,
    member <- [u \in DOMAIN CommittedUsers |-> CommittedUsers[u].aff],
    asking <- Asking
TreeSpec == Tree!Spec

StaleWriteOrphans ==
    \A u \in IDs :
        Orphan(u)' => \/ Orphan(u)
                      \/ \E r \in Handlers :
                           /\ h[r].pc \in {"insertUser", "updateUser"}
                           /\ h[r].user = u
                           /\ h[r].row.aff \notin affs

\* An identity gets an affiliation that does not exist only through a
\* registration or modification that read the affiliation, or the row,
\* before a removal or renaming and writes it afterwards: removals and
\* renamings leave no identity behind.
OnlyStaleWritesOrphan == [][StaleWriteOrphans]_vars

\* users-guide.rst: "If there are identities that are affected by the renaming
\* [removing] of an affiliation, it will result in an error unless the
\* '--force' option is used", and the caller must be a registrar.  Otherwise
\* no identity is moved or removed, whatever was registered since the
\* request arrived.
IdentitiesNeedForce ==
    [][\A r \in Handlers :
         /\ h[r].pc \in {"delete", "commit"}
         /\ h'[r].pc = "idle"
         /\ CommittedAffs' # CommittedAffs
         => \/ CommittedUsers' = CommittedUsers
            \/ h[r].force /\ h[r].registrar]_vars

\* users-guide.rst:1367: "affiliations are case sensitive": the removal of an
\* affiliation takes only affiliations away whose names begin with its name,
\* letter by letter.
RemovesOnlyBelow ==
    [][\A r \in Handlers :
         h[r].pc = "delete" /\ h'[r].pc = "idle"
           => \A p \in affs \ affs' : Within(h[r].name, p)]_vars

\* dbutil.go shares one connection "across multiple go routines": whoever
\* uses it gives it back.
ConnectionIsReturned == conn # Lost
=============================================================================
