-------------------------- MODULE ClientEnrollment --------------------------
(***************************************************************************)
(* The command line client: commands that run in one home directory, at    *)
(* the same time or one after the other, and the server they talk to.  The *)
(* client keeps its configuration, its certificate and credential, its     *)
(* keys and the certificates of the CA in files, which are written in two  *)
(* steps (truncate, then fill).  A command may be killed or lose its       *)
(* connection at any step; a request that was sent may still be handled.   *)
(*                                                                         *)
(* A key is the number of the command that generated it, a secret that of  *)
(* the command that registered the identity.  The server handles a request *)
(* at once, except that an enrollment with a secret issues first and       *)
(* completes the login afterwards; other modules look inside the handlers. *)
(***************************************************************************)
EXTENDS Integers, Sequences, FiniteSets

CONSTANTS
    Procs,            \* slots for the commands that run at the same time
    Names, Admin,     \* enrollment IDs and the one the server starts with
    Commands,         \* what the operator may run
    CAChain,          \* "root", and "int" for an intermediate CA
    MaxEnrollments,   \* logins per identity
    MaxCommands, MaxFaults,
    Absent, Empty, Mixed   \* a missing, a truncated and a garbled file

Ops == {"enroll", "reenroll", "register", "revoke", "gencrl", "getcainfo", "gencsr",
        "identity", "query"}

ASSUME ClientConstantsOK ==
    /\ Procs \subseteq Nat /\ Admin \in Names /\ CAChain \subseteq {"root", "int"}
    /\ MaxEnrollments \in Nat /\ MaxCommands \in Nat /\ MaxFaults \in Nat
    /\ Commands \subseteq [op : Ops, name : Names, type : {"x509", "idemix"},
                           profile : {"", "tls"}, secret : BOOLEAN, crl : BOOLEAN]

\* No file holds what stands for a missing, a truncated or a garbled one.
ASSUME MarksOK ==
    /\ Absent # Empty /\ Absent # Mixed /\ Empty # Mixed
    /\ \A mark \in {Absent, Empty, Mixed} :
         /\ mark \notin {"server", "default", "ipk", "crl", "csr", "chain"}
         /\ mark # 0 /\ mark \notin [name : Names, key : Nat]

VARIABLES
    disk,      \* the files
    keystore,  \* the private keys in the keystore of BCCSP
    procs,     \* the commands that run
    net,       \* requests on their way to the server
    srv,       \* the server's identities, certificates and credentials
    known,     \* per identity, the secrets the operator was told
    stored,    \* every certificate and credential that was ever written to its file
    commands,  \* commands so far
    faults,    \* faults so far
    refused    \* logins so far that were refused after the certificate was issued

vars == <<disk, keystore, procs, net, srv, known, stored, commands, faults, refused>>

\* The files of the home directory and of its MSP directory.
Files == {"cfg", "cert", "keypem", "cred", "ipk", "cacerts", "intcerts", "tlscacerts",
          "tlsintcerts", "crl", "csr"}

\* Keys and secrets that are older than the commands.
Outside == 0
FirstSecret == MaxCommands + 1

\* An identity: its secret, and its logins or -1 when it is revoked.
NoUser == [secret |-> 0, state |-> 0]

Running(p) == procs[p].pc # "idle"

Idle == [pc |-> "idle", n |-> 0, cmd |-> Absent, url |-> "", secret |-> 0, cert |-> Absent,
         key |-> Absent, cred |-> Absent, req |-> "", reply |-> Absent, plan |-> <<>>,
         next |-> "idle"]

\* The command p goes on as r, or ends.
Continues(p, r) == procs' = [procs EXCEPT ![p] = r]
Ends(p) == Continues(p, Idle)

local == <<disk, keystore, known, stored>>     \* what a sent message leaves alone
remote == <<net, srv>>
history == <<commands, faults, refused>>
-----------------------------------------------------------------------------
(* The start of a command: its configuration.                              *)

requiresEnrollment(c) == c.op \notin {"enroll", "getcainfo", "gencsr"}
shouldCreateDefaultConfig(c) == c.op \in {"enroll", "gencsr"}

\* The user and the secret have to be in the URL when the file is created.
GetUser(c) == c.op = "gencsr" \/ c.secret

\* The default file has the URL of the command line, or the default URL.
createDefaultConfigFile(c) ==
    <<[file |-> "cfg", value |-> IF c.op = "enroll" THEN "server" ELSE "default"]>>

\* The operator gives a secret only if he knows one.  A command takes the first free slot.
Begin(p, c) ==
    /\ ~Running(p) /\ (\A q \in Procs : q < p => Running(q)) /\ commands < MaxCommands
    /\ commands' = commands + 1
    /\ \E s \in IF c.secret THEN known[c.name] ELSE {0} :
          Continues(p, [Idle EXCEPT !.pc = "config", !.n = commands + 1, !.cmd = c,
                                    !.secret = s])
    /\ UNCHANGED <<local, remote, faults, refused>>

ConfigInit(p) ==
    LET r == procs[p]
    IN  /\ r.pc = "config"
        /\ IF ~(shouldCreateDefaultConfig(r.cmd) /\ disk["cfg"] = Absent)
             THEN Continues(p, [r EXCEPT !.pc = "read"])
             ELSE IF ~GetUser(r.cmd) THEN Ends(p)
             ELSE Continues(p, [r EXCEPT !.pc = "write", !.next = "read",
                                         !.plan = createDefaultConfigFile(r.cmd)])
        /\ UNCHANGED <<local, remote, history>>

\* What a command does after its configuration is read.  An Idemix enrollment without a
\* secret authenticates with the certificate.
AfterConfig(c) ==
    IF requiresEnrollment(c) THEN "check"
    ELSE IF c.op = "gencsr" \/ (c.op = "enroll" /\ c.type = "x509") THEN "csr"
    ELSE IF c.op = "enroll" /\ ~c.secret THEN "check"
    ELSE "send"

\* The URL is on the command line of enroll and of getcainfo.
ReadConfig(p) ==
    LET r == procs[p]
        url == IF r.cmd.op \in {"enroll", "getcainfo"} \/ disk["cfg"] = "server"
                 THEN "server" ELSE "default"
    IN  /\ r.pc = "read"
        /\ IF disk["cfg"] = Mixed
             THEN Ends(p)
             ELSE Continues(p, [r EXCEPT !.pc = AfterConfig(r.cmd), !.url = url,
                      !.req = IF r.cmd.op = "enroll" /\ r.cmd.type = "idemix" THEN "nonce"
                                                                        ELSE r.cmd.op])
        /\ UNCHANGED <<local, remote, history>>
-----------------------------------------------------------------------------
(* The identity of the client.                                             *)

Readable(f) == disk[f] \notin {Absent, Empty, Mixed}

checkX509Enrollment ==
    /\ disk["cert"] # Absent
    /\ disk["keypem"] # Absent \/ (Readable("cert") /\ disk["cert"].key \in keystore)

checkIdemixEnrollment == disk["ipk"] # Absent /\ Readable("cred")

CheckEnrollment(p) ==
    LET r == procs[p]
    IN  /\ r.pc = "check"
        /\ IF checkX509Enrollment \/ (requiresEnrollment(r.cmd) /\ checkIdemixEnrollment)
             THEN Continues(p, [r EXCEPT !.pc = "cert"])
             ELSE Ends(p)
        /\ UNCHANGED <<local, remote, history>>

\* The certificate file is read twice: for the certificate, and to find its key.
ReadCertificate(p) ==
    /\ procs[p].pc = "cert"
    /\ Continues(p, [procs[p] EXCEPT !.cert = disk["cert"],
                     !.pc = IF disk["cert"] = Absent THEN "cred" ELSE "key"])
    /\ UNCHANGED <<local, remote, history>>

\* The key is in the keystore or, if not there, in the file key.pem.
GetSignerFromCert ==
    IF Readable("cert") /\ disk["cert"].key \in keystore THEN disk["cert"].key
                                                         ELSE disk["keypem"]

FindKey(p) ==
    LET r == procs[p]
        key == GetSignerFromCert
        found == key # Absent /\ r.cert # Empty
    IN  /\ r.pc = "key"
        /\ Continues(p, [r EXCEPT !.pc = "cred",
                                  !.cert = IF found THEN @ ELSE Absent,
                                  !.key = IF found THEN key ELSE Absent])
        /\ UNCHANGED <<local, remote, history>>

\* The Idemix credential is loaded too; one of the two is enough.
LoadIdentity(p) ==
    LET r == procs[p]
        cred == IF Readable("cred") THEN disk["cred"] ELSE Absent
    IN  /\ r.pc = "cred"
        /\ IF r.cert = Absent /\ cred = Absent
             THEN Ends(p)
             ELSE Continues(p, [r EXCEPT !.cred = cred,
                                   !.pc = IF r.cmd.op = "reenroll" THEN "csr" ELSE "send"])
        /\ UNCHANGED <<local, remote, history>>
-----------------------------------------------------------------------------
(* Requests.                                                               *)

\* Variant: the key is kept in memory only.
GenCSRTemporaryKey(p) ==
    LET r == procs[p]
    IN  /\ r.pc = "csr"
        /\ Continues(p, IF r.cmd.op # "gencsr" THEN [r EXCEPT !.pc = "send"]
                        ELSE [r EXCEPT !.pc = "write",
                                       !.plan = <<[file |-> "csr", value |-> "csr"]>>])
        /\ UNCHANGED <<local, remote, history>>

\* The new key is in the keystore before the request is signed.
GenCSR(p) ==
    LET r == procs[p]
    IN  /\ r.pc = "csr"
        /\ keystore' = keystore \cup {r.n}
        /\ Continues(p, IF r.cmd.op # "gencsr" THEN [r EXCEPT !.pc = "send"]
                        ELSE [r EXCEPT !.pc = "write",
                                       !.plan = <<[file |-> "csr", value |-> "csr"]>>])
        /\ UNCHANGED <<disk, known, stored, remote, history>>

\* The token of the first credential.  A garbled file still begins with a certificate, but
\* the key that was found is not its key.
Token(r) == IF r.cert # Absent THEN [kind |-> "x509", cert |-> r.cert, key |-> r.key]
                               ELSE [kind |-> "idemix"]

Basic(r) == [kind |-> "basic", name |-> r.cmd.name, secret |-> r.secret]

addAuthHeader(r) ==
    IF r.cmd.op = "getcainfo" THEN [kind |-> "none"]
    ELSE IF r.cmd.op = "enroll" /\ (r.cmd.type = "x509" \/ r.cmd.secret) THEN Basic(r)
    ELSE Token(r)

SendReq(p) ==
    LET r == procs[p]
        auth == addAuthHeader(r)
    IN  /\ r.pc = "send"
        /\ IF r.url = "default" \/ (auth.kind = "idemix" /\ disk["ipk"] = Absent)
             THEN Ends(p) /\ UNCHANGED net
             ELSE /\ net' = net \cup {[proc |-> p, n |-> r.n, req |-> r.req, auth |-> auth,
                                       name |-> r.cmd.name, issued |-> FALSE]}
                  /\ Continues(p, [r EXCEPT !.pc = "await"])
        /\ UNCHANGED <<local, srv, history>>
-----------------------------------------------------------------------------
(* The server.                                                             *)

\* The login of an identity that has enrollments left.
BasicAuthentication(m) ==
    LET u == srv.users[m.name]
    IN  m.auth.kind = "basic" /\ u.secret = m.auth.secret /\ u.secret # 0
          /\ u.state \in 0..(MaxEnrollments - 1)

\* An Idemix token names no caller, and every handler asks for one.
TokenAuthentication(m) ==
    /\ m.auth.kind = "x509"
    /\ m.auth.cert \in srv.certs \ srv.revoked /\ m.auth.key = m.auth.cert.key
    /\ srv.users[m.auth.cert.name].secret # 0

Caller(m) == IF m.auth.kind = "basic" THEN m.name ELSE m.auth.cert.name

Certificate(m) == [name |-> Caller(m), key |-> m.n]

handleEnroll(m) == [srv EXCEPT !.certs = @ \cup {Certificate(m)}]

IssueCredential(m) == [srv EXCEPT !.creds = @ \cup {Certificate(m)}]

registerUser(m) == [srv EXCEPT !.users[m.name] = [NoUser EXCEPT !.secret = m.n]]

Certificates(name) == {c \in srv.certs : c.name = name}

revoke(m) == [srv EXCEPT !.users[m.name].state = -1,
                         !.revoked = @ \cup Certificates(m.name)]

\* The CRL comes with the answer only if a certificate was revoked.
RevocationCRL(m) == IF Certificates(m.name) \subseteq srv.revoked THEN Empty ELSE "crl"

DeleteUser(m) == [srv EXCEPT !.users[m.name] = NoUser,
                             !.revoked = @ \cup Certificates(m.name)]

\* The caller may register, revoke, remove and ask for the CRL.
IsRegistrar(m) == TokenAuthentication(m) /\ Caller(m) = Admin
Exists(m) == srv.users[m.name].secret # 0

\* The requests that are accepted.
Accepted(m) ==
    CASE m.req = "enroll" -> BasicAuthentication(m)
      [] m.req \in {"nonce", "credential"} -> BasicAuthentication(m) \/ TokenAuthentication(m)
      [] m.req \in {"reenroll", "query"} -> TokenAuthentication(m)
      [] m.req = "register" -> IsRegistrar(m) /\ ~Exists(m)
      [] m.req \in {"revoke", "identity"} -> IsRegistrar(m) /\ Exists(m)
      [] m.req = "gencrl" -> IsRegistrar(m)
      [] m.req = "getcainfo" -> TRUE

Effect(m) ==
    CASE m.req \in {"enroll", "reenroll"} -> handleEnroll(m)
      [] m.req = "credential" -> IssueCredential(m)
      [] m.req = "register" -> registerUser(m)
      [] m.req = "revoke" -> revoke(m)
      [] m.req = "identity" -> DeleteUser(m)
      [] OTHER -> srv

Result(m) ==
    CASE m.req \in {"enroll", "reenroll", "credential"} -> Certificate(m)
      [] m.req = "revoke" -> RevocationCRL(m)
      [] m.req = "gencrl" -> "crl"
      [] OTHER -> Absent

\* Only a command that still waits gets the answer.
Answers(m, ok) ==
    LET r == procs[m.proc]
        reply == [ok |-> ok,
                  value |-> IF ok THEN Result(m) ELSE Absent]
    IN  /\ net' = net \ {m}
        /\ IF r.pc = "await" /\ r.n = m.n
             THEN Continues(m.proc, [r EXCEPT !.pc = "reply", !.reply = reply])
             ELSE UNCHANGED procs

\* An enrollment with a secret: the certificate or the credential is in the database before
\* the login is counted.
LogsIn(m) == m.req \in {"enroll", "credential"} /\ m.auth.kind = "basic"

Issue(m) ==
    /\ ~m.issued /\ LogsIn(m) /\ Accepted(m)
    /\ srv' = Effect(m)
    /\ net' = (net \ {m}) \cup {[m EXCEPT !.issued = TRUE]}
    /\ UNCHANGED <<procs, local, history>>

\* The number of logins is incremented unless it is at its limit or the identity is gone: a
\* revoked identity, whose state is -1, is no longer revoked.
LoginComplete(m) ==
    LET u == srv.users[m.name]
        ok == u.secret # 0 /\ u.state < MaxEnrollments
    IN  /\ m.issued
        /\ srv' = [srv EXCEPT !.users[m.name].state = IF ok THEN @ + 1 ELSE @]
        /\ refused' = IF ok THEN refused ELSE refused + 1
        /\ Answers(m, ok)
        /\ UNCHANGED <<local, commands, faults>>

\* All other requests.
Handle(m) ==
    /\ ~m.issued /\ ~(LogsIn(m) /\ Accepted(m))
    /\ srv' = IF Accepted(m) THEN Effect(m) ELSE srv
    /\ Answers(m, Accepted(m))
    /\ UNCHANGED <<local, history>>

\* The server fails: before it did anything, before the login is counted, or while it puts
\* together the answer of an enrollment or of a revocation.
ServerFault(m) ==
    /\ faults < MaxFaults
    /\ faults' = faults + 1
    /\ \/ UNCHANGED srv
       \/ /\ ~m.issued /\ ~LogsIn(m) /\ Accepted(m)
          /\ m.req \in {"reenroll", "credential", "revoke"}
          /\ srv' = Effect(m)
    /\ Answers(m, FALSE)
    /\ UNCHANGED <<local, commands, refused>>
-----------------------------------------------------------------------------
(* Answers, and the files they are stored in.                              *)

Store(r) == <<[file |-> IF r.req = "credential" THEN "cred" ELSE "cert",
               value |-> r.reply.value]>>

\* Variant: the root certificate is stored only if it is all there is.
storeOneChainFile(r) ==
    IF "int" \in CAChain THEN <<[file |-> "intcerts", value |-> "chain"]>>
                         ELSE <<[file |-> "cacerts", value |-> "chain"]>>

\* The certificates of the CA; those for TLS have files of their own.
storeCAChain(r) ==
    LET tls == r.cmd.profile = "tls"
        root == [file |-> IF tls THEN "tlscacerts" ELSE "cacerts", value |-> "chain"]
        int == [file |-> IF tls THEN "tlsintcerts" ELSE "intcerts", value |-> "chain"]
    IN  (IF "root" \in CAChain THEN <<root>> ELSE <<>>) \o
        (IF "int" \in CAChain THEN <<int>> ELSE <<>>)

\* The CRL file is overwritten, also if the answer has no CRL.
storeCRL(r) == <<[file |-> "crl", value |-> r.reply.value]>>

Writes(p, plan) ==
    IF plan = <<>> THEN Ends(p)
                   ELSE Continues(p, [procs[p] EXCEPT !.pc = "write", !.plan = plan])

Answered(p, reqs) == procs[p].pc = "reply" /\ procs[p].reply.ok /\ procs[p].req \in reqs

ReceiveError(p) ==
    /\ procs[p].pc = "reply" /\ ~procs[p].reply.ok
    /\ Ends(p)
    /\ UNCHANGED <<local, remote, history>>

\* The credential request needs the issuer's public key, which only the operator can have
\* put in its file; the identity is looked up again.
ReceiveNonce(p) ==
    LET r == procs[p]
    IN  /\ Answered(p, {"nonce"})
        /\ IF disk["ipk"] = Absent
             THEN Ends(p)
             ELSE Continues(p, [r EXCEPT !.req = "credential", !.reply = Absent,
                                         !.pc = IF r.cmd.secret THEN "send" ELSE "check"])
        /\ UNCHANGED <<local, remote, history>>

\* Variant: a configuration that cannot be parsed is an error here too.
RewriteConfigChecked(p) ==
    LET r == procs[p]
    IN  /\ Answered(p, {"enroll", "credential"})
        /\ IF disk["cfg"] \in {Empty, Mixed}
             THEN Ends(p)
             ELSE Writes(p, <<[file |-> "cfg", value |-> disk["cfg"]]>> \o Store(r)
                              \o storeCAChain(r))
        /\ UNCHANGED <<local, remote, history>>

\* The configuration is read again, and written with the placeholder of the enrollment ID
\* replaced, before anything else is stored.
RewriteConfig(p) ==
    LET r == procs[p]
    IN  /\ Answered(p, {"enroll", "credential"})
        /\ Writes(p, <<[file |-> "cfg", value |-> disk["cfg"]]>> \o Store(r)
                       \o storeCAChain(r))
        /\ UNCHANGED <<local, remote, history>>

ReceiveReenroll(p) ==
    /\ Answered(p, {"reenroll"})
    /\ Writes(p, Store(procs[p]) \o storeCAChain(procs[p]))
    /\ UNCHANGED <<local, remote, history>>

\* The secret is printed.
ReceiveRegister(p) ==
    /\ Answered(p, {"register"})
    /\ known' = [known EXCEPT ![procs[p].cmd.name] = @ \cup {procs[p].n}]
    /\ Ends(p)
    /\ UNCHANGED <<disk, keystore, stored, remote, history>>

ReceiveRevoke(p) ==
    /\ Answered(p, {"revoke"})
    /\ Writes(p, IF procs[p].cmd.crl THEN storeCRL(procs[p]) ELSE <<>>)
    /\ UNCHANGED <<local, remote, history>>

ReceiveGenCRL(p) ==
    /\ Answered(p, {"gencrl"})
    /\ Writes(p, storeCRL(procs[p]))
    /\ UNCHANGED <<local, remote, history>>

ReceiveGetCAInfo(p) ==
    /\ Answered(p, {"getcainfo"})
    /\ Writes(p, storeCAChain(procs[p]))
    /\ UNCHANGED <<local, remote, history>>

\* Removals and lists are printed.
ReceiveAnswer(p) ==
    /\ Answered(p, {"identity", "query"})
    /\ Ends(p)
    /\ UNCHANGED <<local, remote, history>>
-----------------------------------------------------------------------------
(* Files are written in two steps.                                         *)

Truncate(p) ==
    LET r == procs[p]
    IN  /\ r.pc = "write"
        /\ disk' = [disk EXCEPT ![Head(r.plan).file] = Empty]
        /\ Continues(p, [r EXCEPT !.pc = "fill"])
        /\ UNCHANGED <<keystore, known, stored, remote, history>>

\* What another command has written since the file was truncated may be longer: its rest
\* follows, and the file is garbled.  The certificates of the CA are always the same.
ChainFiles == {"cacerts", "intcerts", "tlscacerts", "tlsintcerts"}
Contents(file, value) ==
    IF value = Empty THEN {disk[file]}
    ELSE {value} \cup IF file \notin ChainFiles /\ disk[file] # Empty THEN {Mixed} ELSE {}

Fill(p) ==
    LET r == procs[p]
        w == Head(r.plan)
    IN  /\ r.pc = "fill"
        /\ \E v \in Contents(w.file, w.value) : disk' = [disk EXCEPT ![w.file] = v]
        /\ stored' = IF w.file \in {"cert", "cred"} THEN stored \cup {w} ELSE stored
        /\ IF Len(r.plan) > 1 THEN Continues(p, [r EXCEPT !.pc = "write", !.plan = Tail(@)])
           ELSE IF r.next = "idle" THEN Ends(p)
           ELSE Continues(p, [r EXCEPT !.pc = r.next, !.plan = <<>>, !.next = "idle"])
        /\ UNCHANGED <<keystore, known, remote, history>>

\* The command is killed, or its connection fails; what was sent is still on its way.
Fault(p) ==
    /\ Running(p) /\ faults < MaxFaults
    /\ faults' = faults + 1
    /\ Ends(p)
    /\ UNCHANGED <<local, remote, commands, refused>>
-----------------------------------------------------------------------------
(* A home directory is new, or was set up with the certificate and the key *)
(* of the bootstrap identity and with the issuer's public key.  Other      *)
(* identities may have been registered before.                             *)

NewHome == [f \in Files |-> Absent]
AdminCert == [name |-> Admin, key |-> Outside]
AdminHome == [NewHome EXCEPT !["cfg"] = "server", !["cert"] = AdminCert,
                             !["keypem"] = Outside, !["ipk"] = "ipk", !["cacerts"] = "chain"]

Init ==
    /\ disk \in {NewHome, AdminHome}
    /\ keystore = {}
    /\ procs = [p \in Procs |-> Idle]
    /\ net = {}
    /\ \E registered \in {N \in SUBSET Names : Admin \in N} :
          /\ srv = [users |-> [u \in Names |-> IF u \in registered
                                                THEN [NoUser EXCEPT !.secret = FirstSecret]
                                                ELSE NoUser],
                    certs |-> {AdminCert}, revoked |-> {}, creds |-> {}]
          /\ known = [u \in Names |-> IF u \in registered THEN {FirstSecret} ELSE {}]
    /\ stored = {[file |-> "cert", value |-> AdminCert]}
    /\ commands = 0
    /\ faults = 0
    /\ refused = 0

Receive(p) ==
    \/ ReceiveError(p) \/ ReceiveNonce(p) \/ RewriteConfig(p) \/ ReceiveReenroll(p)
    \/ ReceiveRegister(p) \/ ReceiveRevoke(p) \/ ReceiveGenCRL(p) \/ ReceiveGetCAInfo(p)
    \/ ReceiveAnswer(p)

Step(p) ==
    \/ ConfigInit(p) \/ ReadConfig(p) \/ CheckEnrollment(p) \/ ReadCertificate(p) \/ FindKey(p)
    \/ LoadIdentity(p) \/ GenCSR(p) \/ SendReq(p) \/ Receive(p) \/ Truncate(p) \/ Fill(p)

Next ==
    \/ \E p \in Procs : Step(p) \/ Fault(p) \/ \E c \in Commands : Begin(p, c)
    \/ \E m \in net : Handle(m) \/ Issue(m) \/ LoginComplete(m) \/ ServerFault(m)

Spec == Init /\ [][Next]_vars
-----------------------------------------------------------------------------
(* Properties.                                                             *)

Pcs == {"idle", "config", "read", "check", "cert", "key", "cred", "csr", "send", "await",
        "reply", "write", "fill"}

\* The commands are where their code can be, and keys, secrets and files are of the kinds
\* the client and the server know.
TypeOK ==
    /\ DOMAIN disk = Files /\ disk["cfg"] \in {Absent, Empty, Mixed, "server", "default"}
    /\ keystore \subseteq 1..MaxCommands
    /\ \A p \in Procs : procs[p].pc \in Pcs /\ procs[p].n \in 0..commands
    /\ \A m \in net : m.proc \in Procs /\ m.n \in 1..commands
    /\ srv.revoked \subseteq srv.certs
    /\ \A u \in Names : srv.users[u].state \in -1..MaxEnrollments
    /\ commands \in 0..MaxCommands /\ faults \in 0..MaxFaults /\ refused \in Nat

\* client.go GenCSR, credential.go Store: the certificate in the file has its private key:
\* it is in the keystore or in key.pem, whichever commands were killed and whichever stored
\* their certificates in between.
CertificateHasKey ==
    Readable("cert") => disk["cert"].key \in keystore \cup {disk["keypem"]}

Issued == [file : {"cert"}, value : srv.certs] \cup [file : {"cred"}, value : srv.creds]
Unreachable == {u \in Names : srv.users[u].secret \notin {0} \cup known[u]}

\* enroll.go, reenroll.go, register.go, serverenroll.go enrollHandler: a certificate or a
\* credential that was issued but not stored, or an identity that was registered with a
\* secret nobody was told, is due to a command that is still at work, to a failure of the
\* command or of the server, or to a login that was refused after the certificate was
\* issued; each of those loses one at most.
LossesAreFaults ==
    Cardinality(Issued \ stored) + Cardinality(Unreachable)
        <= faults + refused + Cardinality({p \in Procs : Running(p)})

\* getcainfo.go storeCAChain, identity.go Store: when all commands have ended and none
\* failed, none of the files they wrote at the same time is left cut off, and next to a
\* certificate, which may be garbled, there are the certificates of its CA.  (The
\* configuration and the CRL are excepted: see the README.)
DirectoryIsComplete ==
    (faults = 0 /\ \A p \in Procs : ~Running(p)) =>
        /\ \A f \in Files \ {"cfg", "crl"} : disk[f] # Empty
        /\ disk["cert"] # Absent => \/ disk["cacerts"] = "chain"
                                   \/ disk["tlscacerts"] = "chain"
=============================================================================
