----------------------- MODULE ClientEnrollmentProofs -----------------------
(***************************************************************************)
(* The files of the client for any number of commands, of slots that run   *)
(* them at the same time, of identities and of faults.  Every command has  *)
(* its number to itself: one message at most is on its way for it, and the *)
(* server does something once at most for it.  So a certificate that is    *)
(* stored was issued for the key of the command that stores it, and what   *)
(* the server did is lost only together with a command.                    *)
(***************************************************************************)
EXTENDS ClientEnrollment, FiniteSetTheorems, TLAPS

Certs == [name : Names, key : 0..MaxCommands]
Marks == {Absent, Empty, Mixed}
Issuing == {"enroll", "reenroll", "credential"}
Reqs == {"", "nonce", "credential"} \cup Ops
Roots == {"cacerts", "tlscacerts"}
Planned == Files \ {"keypem", "ipk"}

(* What a file holds unless it is missing, cut off or garbled.             *)
Written(f) ==
    CASE f \in {"cert", "cred"} -> Certs
      [] f = "cfg" -> Marks \cup {"server", "default"}
      [] f = "crl" -> {"crl", Empty}
      [] f = "csr" -> {"csr"}
      [] f = "ipk" -> {"ipk"}
      [] f = "keypem" -> {Outside}
      [] OTHER -> {"chain"}

Holds(f) ==
    Written(f) \cup {Absent, Empty}
      \cup IF f \notin ChainFiles \cup {"keypem", "ipk"} THEN {Mixed} ELSE {}

Values == Certs \cup Marks \cup {"server", "default", "crl", "csr", "chain"}
Entries == [file : Planned, value : Values]

Proc == [pc : Pcs, n : 0..MaxCommands, cmd : Commands \cup {Absent},
         url : {"", "server", "default"}, secret : Nat, cert : Marks \cup Certs,
         key : Marks \cup (0..MaxCommands), cred : {Absent} \cup Certs, req : Reqs,
         reply : {Absent} \cup [ok : BOOLEAN, value : Values], plan : Seq(Entries),
         next : {"idle", "read"}]

User == [secret : 0..FirstSecret, state : -1..MaxEnrollments]

(* The commands that authenticate with the certificate or the credential.  *)
UsesToken(c) ==
    /\ c.op \notin {"gencsr", "getcainfo"}
    /\ ~(c.op = "enroll" /\ (c.type = "x509" \/ c.secret))

(* The requests that a command makes.                                      *)
RequestsOf(c) ==
    IF c.op = "enroll" /\ c.type = "idemix" THEN {"nonce", "credential"} ELSE {c.op}

ReplyFits(r) ==
    r.reply.ok =>
    /\ r.req \in Issuing => r.reply.value \in Certs /\ r.reply.value.key = r.n
    /\ r.req \in {"revoke", "gencrl"} => r.reply.value \in {"crl", Empty}

PlanFits(plan, keys) ==
    \A i \in DOMAIN plan :
        /\ plan[i].value \in Written(plan[i].file)
        /\ plan[i].file = "cert" => plan[i].value.key \in keys

(* The certificates of the CA are stored after the certificate.            *)
RootFollows(plan) ==
    "root" \in CAChain =>
        \A i \in DOMAIN plan :
            plan[i].file = "cert" => \E j \in DOMAIN plan : j > i /\ plan[j].file \in Roots

(* A command at the points of its code, with the keys of the keystore.     *)
CommandFits(r, keys) ==
    /\ r.pc = "idle" => r = Idle
    /\ r.pc # "idle" => r.cmd \in Commands /\ r.n # 0
    /\ r.pc \in {"check", "cert", "key", "cred"} => UsesToken(r.cmd)
    /\ r.pc \in {"check", "cert", "key", "cred", "csr", "send", "await", "reply"} =>
         r.req \in RequestsOf(r.cmd)
    /\ r.pc = "csr" => \/ r.cmd.op \in {"gencsr", "reenroll"}
                       \/ r.cmd.op = "enroll" /\ r.cmd.type = "x509"
    /\ r.pc \in {"send", "await", "reply"} =>
         r.cmd.op # "gencsr" /\ (r.req \in {"enroll", "reenroll"} => r.n \in keys)
    /\ r.pc = "reply" => ReplyFits(r)
    /\ r.pc \in {"write", "fill"} => r.plan # <<>>
    /\ r.next = "read" => r.pc \in {"write", "fill"} /\ r.req = ""
    /\ r.pc \in {"config", "read"} => r.req = ""
    /\ PlanFits(r.plan, keys) /\ RootFollows(r.plan)

DiskInv ==
    /\ DOMAIN disk = Files
    /\ \A f \in Files : disk[f] \in Holds(f)
    /\ CertificateHasKey

ProcsInv ==
    /\ procs \in [Procs -> Proc]
    /\ \A p \in Procs : CommandFits(procs[p], keystore) /\ procs[p].n <= commands
    /\ \A p, q \in Procs : Running(p) /\ procs[q].n = procs[p].n => p = q

(* A message belongs to a command that waits for it or is dead.            *)
MessageFits(m) ==
    /\ m.proc \in Procs /\ m.n \in 1..commands /\ m.name \in Names
    /\ m.req \in Reqs \ {"", "gencsr"}
    /\ m.req = "enroll" => m.auth.kind = "basic"
    /\ m.issued \in BOOLEAN /\ (m.issued => LogsIn(m))
    /\ m = [proc |-> m.proc, n |-> m.n, req |-> m.req, auth |-> m.auth, name |-> m.name,
            issued |-> m.issued]

Awaits(q, m) ==
    /\ q = m.proc /\ procs[q].pc = "await" /\ procs[q].req = m.req
    /\ m.name = procs[q].cmd.name

NetInv ==
    /\ \A m \in net : MessageFits(m)
    /\ \A m \in net, q \in Procs : Running(q) /\ procs[q].n = m.n => Awaits(q, m)
    /\ \A m, l \in net : m.n = l.n => m = l

Server == [users : [Names -> User], certs : SUBSET Certs, revoked : SUBSET Certs,
           creds : SUBSET Certs]

SrvInv ==
    /\ srv \in Server
    /\ srv.revoked \subseteq srv.certs
    /\ known \in [Names -> SUBSET Nat]
    /\ commands \in 0..MaxCommands /\ faults \in 0..MaxFaults /\ refused \in Nat
    /\ keystore \subseteq 1..MaxCommands

ClientInv == DiskInv /\ ProcsInv /\ NetInv /\ SrvInv
-----------------------------------------------------------------------------
(* What is lost.                                                           *)

Lost == Issued \ stored

(* The server has not done anything for the command n.                     *)
Fresh(n) == (\A e \in Issued : e.value.key # n) /\ (\A u \in Names : srv.users[u].secret # n)

(* Nothing that it did for the command n is lost.                          *)
Kept(n) ==
    (\A e \in Lost : e.value.key # n) /\ (\A u \in Unreachable : srv.users[u].secret # n)

(* The command got what it asked for; a command that got an error ends.    *)
Told(r) == r.pc = "reply" /\ r.reply.ok
Working(p) == Running(p) /\ (procs[p].pc = "reply" => procs[p].reply.ok)

NotServed(r) ==
    \/ r.pc \notin {"await", "reply", "write", "fill"}
    \/ Told(r) /\ r.req \notin Issuing \cup {"register"}
    \/ r.pc \in {"write", "fill"} /\ r.req \notin Issuing

(* What is issued for a message, and what is known before it is answered.  *)
IssuedFor(m) == [file |-> IF m.req = "credential" THEN "cred" ELSE "cert",
                 value |-> Certificate(m)]

Pending(m) ==
    /\ \A e \in Issued : e.value.key = m.n => e = IssuedFor(m)
    /\ \A u \in Names : srv.users[u].secret # m.n

FreshInv ==
    /\ \A n \in 1..MaxCommands : n > commands => Fresh(n)
    /\ \A m \in net : IF m.issued THEN Pending(m) ELSE Fresh(m.n)
    /\ \A p \in Procs : Running(p) /\ NotServed(procs[p]) => Fresh(procs[p].n)

(* The number of a command is the key of one certificate or credential, or *)
(* the secret of one identity.                                             *)
OneEffectInv ==
    /\ \A e, d \in Issued : e.value.key = d.value.key => e = d
    /\ \A u, v \in Names :
         srv.users[u].secret = srv.users[v].secret =>
            u = v \/ srv.users[u].secret \in {0, FirstSecret}
    /\ \A e \in Issued, u \in Names : e.value.key = srv.users[u].secret => e.value.key = 0
    /\ \A u \in Names : srv.users[u].secret = FirstSecret => FirstSecret \in known[u]

(* What the server did for a command that runs is still to be stored.      *)
Owes(r) ==
    /\ Told(r) /\ r.req \in Issuing =>
         \A e \in Lost : e.value.key = r.n =>
            e = [file |-> IF r.req = "credential" THEN "cred" ELSE "cert",
                 value |-> r.reply.value]
    /\ r.pc \in {"write", "fill"} /\ r.req \in Issuing =>
         \A e \in Lost : e.value.key = r.n => \E i \in DOMAIN r.plan : r.plan[i] = e
    /\ (Told(r) \/ r.pc \in {"write", "fill"}) /\ r.req \in Issuing =>
         \A u \in Names : srv.users[u].secret # r.n
    /\ Told(r) /\ r.req = "register" =>
         /\ \A e \in Issued : e.value.key # r.n
         /\ \A u \in Names : srv.users[u].secret = r.n => u = r.cmd.name

OwedInv == \A p \in Procs : Running(p) => Owes(procs[p])

WorkingNumbers == {procs[p].n : p \in {q \in Procs : Working(q)}}

(* The losses belong to commands that work, or to one dead command at most *)
(* for each fault and for each login that was refused late.                *)
Covers(numbers) ==
    /\ \A e \in Lost : e.value.key \in numbers
    /\ \A u \in Unreachable : srv.users[u].secret \in numbers
    /\ \A m \in net : m.n \in numbers

LossInv ==
    \E dead \in SUBSET (1..commands) :
        Cardinality(dead) <= faults + refused /\ Covers(dead \cup WorkingNumbers)

AccountInv == FreshInv /\ OneEffectInv /\ OwedInv /\ LossInv
-----------------------------------------------------------------------------
(* The files after commands that were not killed.                          *)

Writing(p) == procs[p].pc \in {"write", "fill"}

(* A file that is cut off is being written, and so are the certificates of *)
(* the CA if they are missing.                                             *)
Filling(f) == \E p \in Procs : procs[p].pc = "fill" /\ procs[p].plan[1].file = f

RootPlanned(p) ==
    Writing(p) /\ \E i \in DOMAIN procs[p].plan : procs[p].plan[i].file \in Roots

HasRoot == (\E f \in Roots : disk[f] = "chain") \/ (\E p \in Procs : RootPlanned(p))

DirectoryInv ==
    faults = 0 =>
        /\ \A f \in Files \ {"cfg", "crl"} : disk[f] = Empty => Filling(f)
        /\ disk["cert"] # Absent => HasRoot
-----------------------------------------------------------------------------
(* Commands.                                                               *)
LEMMA Constants ==
    /\ MaxCommands \in Nat /\ MaxEnrollments \in Nat /\ MaxFaults \in Nat
    /\ Admin \in Names /\ 0 \in 0..MaxCommands /\ FirstSecret = MaxCommands + 1
<1>1. MaxCommands \in Nat /\ MaxEnrollments \in Nat /\ MaxFaults \in Nat /\ Admin \in Names
  BY ClientConstantsOK, Zenon DEF ClientConstantsOK
<1>2. QED
  BY <1>1 DEF FirstSecret

LEMMA IdleFits ==
    /\ Idle \in Proc /\ Idle.pc = "idle" /\ Idle.n = 0 /\ Idle.plan = <<>>
    /\ \A keys : CommandFits(Idle, keys)
<1>1. Idle \in Proc
  <2>1. 0 \in 0..MaxCommands /\ <<>> \in Seq(Entries)
    BY Constants
  <2>2. QED
    BY <2>1 DEF Idle, Proc, Pcs, Marks, Reqs
<1>2. \A keys : PlanFits(<<>>, keys) /\ RootFollows(<<>>)
  BY DEF PlanFits, RootFollows
<1>3. QED
  BY <1>1, <1>2 DEF Idle, CommandFits

LEMMA FitsMonotone ==
    ASSUME NEW r, NEW K, NEW L, K \subseteq L, CommandFits(r, K)
    PROVE  CommandFits(r, L)
<1>1. PlanFits(r.plan, K) => PlanFits(r.plan, L)
  BY DEF PlanFits
<1>2. QED
  BY <1>1 DEF CommandFits

(* A command that goes on keeps its number; one that ends gives it back.   *)
GoesOn(p, x) ==
    /\ procs' = [procs EXCEPT ![p] = x]
    /\ \/ x = Idle
       \/ /\ Running(p) /\ procs[p].pc # "await" /\ x.pc \notin {"idle", "reply"}
          /\ x.n = procs[p].n /\ CommandFits(x, keystore')

LEMMA CommandGoesOn ==
    ASSUME ClientInv, NEW p \in Procs, NEW x \in Proc, GoesOn(p, x),
           UNCHANGED <<net, commands>>, keystore \subseteq keystore'
    PROVE  ProcsInv' /\ NetInv'
<1>0. /\ procs' = [procs EXCEPT ![p] = x]
      /\ \/ x = Idle
         \/ /\ Running(p) /\ procs[p].pc # "await" /\ x.pc \notin {"idle", "reply"}
            /\ x.n = procs[p].n /\ CommandFits(x, keystore')
  BY DEF GoesOn
<1> USE DEF ClientInv
<1>1. procs \in [Procs -> Proc] /\ procs' \in [Procs -> Proc]
  BY <1>0 DEF ProcsInv
<1>2. /\ procs'[p] = x /\ \A q \in Procs \ {p} : procs'[q] = procs[q]
      /\ \A q \in Procs : procs[q].n \in 0..MaxCommands
      /\ commands \in 0..MaxCommands
  BY <1>0, <1>1 DEF Proc, SrvInv
<1>3. \A q \in Procs : CommandFits(procs'[q], keystore')
  BY <1>0, <1>2, FitsMonotone, IdleFits DEF ProcsInv
<1>4. \A q \in Procs : Running(q)' => Running(q) /\ procs'[q].n = procs[q].n
  BY <1>0, <1>2, IdleFits DEF Running
<1>5. \A q \in Procs : procs'[q].n \in {0, procs[q].n} /\ (Running(q) => procs[q].n # 0)
  BY <1>0, <1>2, IdleFits DEF Running, ProcsInv, CommandFits
<1>6. ProcsInv'
  <2>1. \A q \in Procs : procs'[q].n <= commands'
    BY <1>2, <1>5 DEF ProcsInv
  <2>2. ASSUME NEW q \in Procs, NEW s \in Procs, Running(q)', procs'[s].n = procs'[q].n
        PROVE  q = s
    BY <1>4, <1>5, <2>2 DEF ProcsInv
  <2>3. QED
    BY <1>1, <1>3, <2>1, <2>2 DEF ProcsInv
<1>7. NetInv'
  <2>1. SUFFICES ASSUME NEW m \in net, NEW q \in Procs, Running(q)', procs'[q].n = m.n
                 PROVE  Awaits(q, m)'
    BY DEF NetInv, MessageFits
  <2>2. Awaits(q, m)
    BY <1>4, <2>1 DEF NetInv
  <2>3. q # p
    BY <1>0, <1>2, <2>1, <2>2, IdleFits DEF Running, Awaits
  <2>4. QED
    BY <1>2, <2>2, <2>3 DEF Awaits
<1>8. QED
  BY <1>6, <1>7

LEMMA EndsGoesOn ==
    ASSUME NEW p \in Procs, Ends(p)
    PROVE  \E x \in Proc : GoesOn(p, x)
  BY IdleFits DEF Ends, Continues, GoesOn

(* What the fields of the records are.                                     *)
LEMMA ProcFields ==
    ASSUME ClientInv, NEW p \in Procs
    PROVE  /\ procs[p] \in Proc /\ CommandFits(procs[p], keystore)
           /\ Running(p) =>
                /\ procs[p].cmd.op \in Ops /\ procs[p].cmd.name \in Names
                /\ procs[p].cmd.type \in {"x509", "idemix"}
                /\ procs[p].cmd.secret \in BOOLEAN
<1>1. procs[p] \in Proc /\ CommandFits(procs[p], keystore)
  BY DEF ClientInv, ProcsInv
<1>2. Running(p) => procs[p].cmd \in Commands
  BY <1>1 DEF CommandFits, Running
<1>3. QED
  BY <1>1, <1>2, ClientConstantsOK DEF ClientConstantsOK

LEMMA ConfigInitGoesOn ==
    ASSUME ClientInv, NEW p \in Procs, ConfigInit(p)
    PROVE  \E x \in Proc : GoesOn(p, x)
<1> DEFINE r == procs[p]
<1>1. r \in Proc /\ CommandFits(r, keystore) /\ r.pc = "config" /\ keystore' = keystore
  BY ProcFields DEF ConfigInit, local
<1>2. CASE procs' = [procs EXCEPT ![p] = [r EXCEPT !.pc = "read"]]
  <2> DEFINE x == [r EXCEPT !.pc = "read"]
  <2>1. x \in Proc /\ x.pc = "read" /\ x.n = r.n
    BY <1>1 DEF Proc, Pcs
  <2>2. CommandFits(x, keystore)
    BY <1>1 DEF CommandFits, Proc
  <2>3. QED
    BY <1>1, <1>2, <2>1, <2>2 DEF GoesOn, Running
<1>3. CASE procs' = [procs EXCEPT ![p] = [r EXCEPT !.pc = "write", !.next = "read",
                                       !.plan = createDefaultConfigFile(r.cmd)]]
  <2> DEFINE x == [r EXCEPT !.pc = "write", !.next = "read",
                            !.plan = createDefaultConfigFile(r.cmd)]
  <2>1. /\ createDefaultConfigFile(r.cmd) \in Seq(Entries)
        /\ createDefaultConfigFile(r.cmd) # <<>>
        /\ PlanFits(createDefaultConfigFile(r.cmd), keystore)
        /\ RootFollows(createDefaultConfigFile(r.cmd))
    BY DEF createDefaultConfigFile, Entries, Values, Planned, Files, PlanFits, Written,
           RootFollows
  <2>2. x \in Proc /\ x.pc = "write" /\ x.n = r.n
    BY <1>1, <2>1 DEF Proc, Pcs
  <2>3. CommandFits(x, keystore)
    BY <1>1, <2>1 DEF CommandFits, Proc
  <2>4. QED
    BY <1>1, <1>3, <2>2, <2>3 DEF GoesOn, Running
<1>4. QED
  BY <1>2, <1>3, EndsGoesOn DEF ConfigInit, Continues

LEMMA ReadConfigGoesOn ==
    ASSUME ClientInv, NEW p \in Procs, ReadConfig(p)
    PROVE  \E x \in Proc : GoesOn(p, x)
<1> DEFINE r == procs[p]
           url == IF r.cmd.op \in {"enroll", "getcainfo"} \/ disk["cfg"] = "server"
                    THEN "server" ELSE "default"
           req == IF r.cmd.op = "enroll" /\ r.cmd.type = "idemix" THEN "nonce" ELSE r.cmd.op
           pc == AfterConfig(r.cmd)
           x == [r EXCEPT !.pc = pc, !.url = url, !.req = req]
<1>1. /\ r \in Proc /\ CommandFits(r, keystore) /\ r.pc = "read" /\ keystore' = keystore
      /\ r.cmd.op \in Ops /\ r.cmd.type \in {"x509", "idemix"} /\ r.cmd.secret \in BOOLEAN
  BY ProcFields DEF ReadConfig, local, Running
<1>2. Ends(p) \/ procs' = [procs EXCEPT ![p] = x]
  BY DEF ReadConfig, Continues
<1>3. /\ pc \in {"check", "csr", "send"} /\ url \in {"", "server", "default"}
      /\ req \in Reqs /\ req \in RequestsOf(r.cmd)
  BY <1>1 DEF AfterConfig, Reqs, RequestsOf
<1>4. /\ pc = "check" => UsesToken(r.cmd)
      /\ pc = "csr" => r.cmd.op = "gencsr" \/ (r.cmd.op = "enroll" /\ r.cmd.type = "x509")
      /\ pc = "send" => r.cmd.op # "gencsr" /\ req \notin {"enroll", "reenroll"}
  BY <1>1 DEF AfterConfig, requiresEnrollment, UsesToken, Ops
<1> HIDE DEF pc, url, req
<1>5. x \in Proc
  BY <1>1, <1>3 DEF Proc, Pcs
<1>6. x.pc = pc /\ x.n = r.n
  BY <1>1 DEF Proc
<1>7. CommandFits(x, keystore)
  BY <1>1, <1>3, <1>4 DEF CommandFits, Proc
<1> HIDE DEF x
<1>8. QED
  BY <1>1, <1>2, <1>3, <1>5, <1>6, <1>7, EndsGoesOn DEF GoesOn, Running

LEMMA CheckEnrollmentGoesOn ==
    ASSUME ClientInv, NEW p \in Procs, CheckEnrollment(p)
    PROVE  \E x \in Proc : GoesOn(p, x)
<1> DEFINE r == procs[p]
           x == [r EXCEPT !.pc = "cert"]
<1>1. /\ r \in Proc /\ CommandFits(r, keystore) /\ r.pc = "check" /\ keystore' = keystore
  BY ProcFields DEF CheckEnrollment, local
<1>2. x \in Proc /\ x.pc = "cert" /\ x.n = r.n
  BY <1>1 DEF Proc, Pcs
<1>3. CommandFits(x, keystore)
  BY <1>1 DEF CommandFits, Proc
<1>4. Ends(p) \/ procs' = [procs EXCEPT ![p] = x]
  BY DEF CheckEnrollment, Continues
<1>5. QED
  BY <1>1, <1>2, <1>3, <1>4, EndsGoesOn DEF GoesOn, Running

LEMMA ReadCertificateGoesOn ==
    ASSUME ClientInv, NEW p \in Procs, ReadCertificate(p)
    PROVE  \E x \in Proc : GoesOn(p, x)
<1> DEFINE r == procs[p]
           x == [r EXCEPT !.cert = disk["cert"],
                     !.pc = IF disk["cert"] = Absent THEN "cred" ELSE "key"]
<1>1. /\ r \in Proc /\ CommandFits(r, keystore) /\ r.pc = "cert" /\ keystore' = keystore
  BY ProcFields DEF ReadCertificate, local
<1>2. disk["cert"] \in Marks \cup Certs
  BY DEF ClientInv, DiskInv, Holds, Written, Files, Marks
<1>3. x \in Proc /\ x.pc \in {"cred", "key"} /\ x.n = r.n
  BY <1>1, <1>2 DEF Proc, Pcs
<1>4. CommandFits(x, keystore)
  BY <1>1 DEF CommandFits, Proc
<1>5. procs' = [procs EXCEPT ![p] = x]
  BY DEF ReadCertificate, Continues
<1> HIDE DEF x
<1>6. QED
  BY <1>1, <1>3, <1>4, <1>5 DEF GoesOn, Running

LEMMA FindKeyGoesOn ==
    ASSUME ClientInv, NEW p \in Procs, FindKey(p)
    PROVE  \E x \in Proc : GoesOn(p, x)
<1> DEFINE r == procs[p]
           key == GetSignerFromCert
           found == key # Absent /\ r.cert # Empty
           cert == IF found THEN r.cert ELSE Absent
           signer == IF found THEN key ELSE Absent
           x == [r EXCEPT !.pc = "cred", !.cert = cert, !.key = signer]
<1>1. /\ r \in Proc /\ CommandFits(r, keystore) /\ r.pc = "key" /\ keystore' = keystore
  BY ProcFields DEF FindKey, local
<1>2. key \in Marks \cup (0..MaxCommands)
  <2>1. /\ disk["cert"] \in {Absent, Empty, Mixed} \cup Certs
        /\ disk["keypem"] \in {Absent, Empty, 0}
    BY DEF ClientInv, DiskInv, Holds, Written, Files, Outside
  <2>2. Readable("cert") => disk["cert"].key \in 0..MaxCommands
    BY <2>1 DEF Readable, Certs
  <2>3. QED
    BY <2>1, <2>2, Constants DEF GetSignerFromCert, Marks
<1>3. procs' = [procs EXCEPT ![p] = x]
  BY DEF FindKey, Continues
<1> HIDE DEF key
<1>4. cert \in Marks \cup Certs /\ signer \in Marks \cup (0..MaxCommands)
  BY <1>1, <1>2 DEF Proc, Marks
<1> HIDE DEF cert, signer
<1>5. x \in Proc /\ x.pc = "cred" /\ x.n = r.n
  BY <1>1, <1>4 DEF Proc, Pcs
<1>6. CommandFits(x, keystore)
  BY <1>1, <1>4 DEF CommandFits, Proc
<1> HIDE DEF x
<1>7. QED
  BY <1>1, <1>3, <1>5, <1>6 DEF GoesOn, Running

LEMMA LoadIdentityGoesOn ==
    ASSUME ClientInv, NEW p \in Procs, LoadIdentity(p)
    PROVE  \E x \in Proc : GoesOn(p, x)
<1> DEFINE r == procs[p]
           cred == IF Readable("cred") THEN disk["cred"] ELSE Absent
           pc == IF r.cmd.op = "reenroll" THEN "csr" ELSE "send"
           x == [r EXCEPT !.cred = cred, !.pc = pc]
<1>1. /\ r \in Proc /\ CommandFits(r, keystore) /\ r.pc = "cred" /\ keystore' = keystore
      /\ r.cmd.op \in Ops /\ r.cmd.type \in {"x509", "idemix"}
  BY ProcFields DEF LoadIdentity, local, Running
<1>2. cred \in {Absent} \cup Certs
  BY DEF ClientInv, DiskInv, Holds, Written, Files, Readable
<1>3. Ends(p) \/ (procs' = [procs EXCEPT ![p] = x] /\ ~(r.cert = Absent /\ cred = Absent))
  BY DEF LoadIdentity, Continues
<1>4. /\ pc \in {"csr", "send"}
      /\ pc = "csr" => r.cmd.op = "reenroll"
      /\ pc = "send" => r.cmd.op # "gencsr" /\ r.req \notin {"enroll", "reenroll"}
  BY <1>1 DEF CommandFits, UsesToken, RequestsOf
<1> HIDE DEF cred, pc
<1>5. x \in Proc /\ x.pc = pc /\ x.n = r.n
  BY <1>1, <1>2, <1>4 DEF Proc, Pcs
<1>6. ~(r.cert = Absent /\ cred = Absent) => CommandFits(x, keystore)
  BY <1>1, <1>2, <1>4 DEF CommandFits, Proc
<1> HIDE DEF x
<1>7. QED
  BY <1>1, <1>3, <1>4, <1>5, <1>6, EndsGoesOn DEF GoesOn, Running

LEMMA GenCSRGoesOn ==
    ASSUME ClientInv, NEW p \in Procs, GenCSR(p)
    PROVE  (\E x \in Proc : GoesOn(p, x)) /\ keystore' = keystore \cup {procs[p].n}
<1> DEFINE r == procs[p]
           plan == <<[file |-> "csr", value |-> "csr"]>>
           x == [r EXCEPT !.pc = "send"]
           y == [r EXCEPT !.pc = "write", !.plan = plan]
<1>1. /\ r \in Proc /\ CommandFits(r, keystore) /\ r.pc = "csr"
      /\ keystore' = keystore \cup {r.n}
      /\ r.cmd.op \in Ops /\ r.cmd.type \in {"x509", "idemix"}
  BY ProcFields DEF GenCSR, Running
<1>2. \/ r.cmd.op # "gencsr" /\ procs' = [procs EXCEPT ![p] = x]
      \/ r.cmd.op = "gencsr" /\ procs' = [procs EXCEPT ![p] = y]
  BY DEF GenCSR, Continues
<1>3. CommandFits(r, keystore')
  BY <1>1, FitsMonotone
<1>4. /\ plan \in Seq(Entries) /\ plan # <<>> /\ PlanFits(plan, keystore')
      /\ RootFollows(plan)
  BY DEF Entries, Values, Planned, Files, PlanFits, Written, RootFollows
<1> HIDE DEF plan
<1>5. x \in Proc /\ x.pc = "send" /\ x.n = r.n
  BY <1>1 DEF Proc, Pcs
<1>6. y \in Proc /\ y.pc = "write" /\ y.n = r.n
  BY <1>1, <1>4 DEF Proc, Pcs
<1>7. r.cmd.op # "gencsr" => CommandFits(x, keystore')
  BY <1>1, <1>3 DEF CommandFits, Proc
<1>8. CommandFits(y, keystore')
  BY <1>1, <1>3, <1>4 DEF CommandFits, Proc
<1> HIDE DEF x, y
<1>9. QED
  BY <1>1, <1>2, <1>5, <1>6, <1>7, <1>8 DEF GoesOn, Running

LEMMA ReceiveNonceGoesOn ==
    ASSUME ClientInv, NEW p \in Procs, ReceiveNonce(p)
    PROVE  \E x \in Proc : GoesOn(p, x)
<1> DEFINE r == procs[p]
           pc == IF r.cmd.secret THEN "send" ELSE "check"
           x == [r EXCEPT !.req = "credential", !.reply = Absent, !.pc = pc]
<1>1. /\ r \in Proc /\ CommandFits(r, keystore) /\ r.pc = "reply" /\ r.req = "nonce"
      /\ keystore' = keystore
      /\ r.cmd.op \in Ops /\ r.cmd.type \in {"x509", "idemix"} /\ r.cmd.secret \in BOOLEAN
  BY ProcFields DEF ReceiveNonce, Answered, local, Running
<1>2. Ends(p) \/ procs' = [procs EXCEPT ![p] = x]
  BY DEF ReceiveNonce, Continues
<1>3. r.cmd.op = "enroll" /\ r.cmd.type = "idemix"
  BY <1>1 DEF CommandFits, RequestsOf, Ops
<1>4. pc \in {"send", "check"} /\ (pc = "check" => UsesToken(r.cmd))
  BY <1>1, <1>3 DEF UsesToken
<1> HIDE DEF pc
<1>5. x \in Proc
  BY <1>1, <1>4 DEF Proc, Pcs, Reqs
<1>6. x.pc = pc /\ x.n = r.n
  BY <1>1 DEF Proc
<1>7. CommandFits(x, keystore)
  BY <1>1, <1>3, <1>4 DEF CommandFits, Proc, RequestsOf
<1> HIDE DEF x
<1>8. QED
  BY <1>1, <1>2, <1>4, <1>5, <1>6, <1>7, EndsGoesOn DEF GoesOn, Running

(* The files that are to be written.                                       *)
LEMMA Concatenation ==
    ASSUME NEW s \in Seq(Entries), NEW t \in Seq(Entries)
    PROVE  /\ s \o t \in Seq(Entries) /\ Len(s \o t) = Len(s) + Len(t)
           /\ \A i \in DOMAIN s : i \in DOMAIN (s \o t) /\ (s \o t)[i] = s[i]
           /\ \A i \in DOMAIN t : Len(s) + i \in DOMAIN (s \o t) /\ (s \o t)[Len(s) + i] = t[i]
           /\ \A i \in DOMAIN (s \o t) :
                \/ i \in DOMAIN s /\ (s \o t)[i] = s[i]
                \/ /\ i > Len(s) /\ i - Len(s) \in DOMAIN t
                   /\ (s \o t)[i] = t[i - Len(s)]
  OBVIOUS

LEMMA PlansFit ==
    ASSUME NEW s \in Seq(Entries), NEW t \in Seq(Entries), NEW keys,
           PlanFits(s, keys), PlanFits(t, keys)
    PROVE  s \o t \in Seq(Entries) /\ PlanFits(s \o t, keys)
<1>1. s \o t \in Seq(Entries)
  BY Concatenation
<1>2. ASSUME NEW i \in DOMAIN (s \o t)
      PROVE  (\E j \in DOMAIN s : (s \o t)[i] = s[j]) \/ (\E j \in DOMAIN t : (s \o t)[i] = t[j])
  BY Concatenation
<1>3. QED
  BY <1>1, <1>2 DEF PlanFits

LEMMA ChainPlan ==
    ASSUME NEW r, NEW keys
    PROVE  /\ storeCAChain(r) \in Seq(Entries) /\ PlanFits(storeCAChain(r), keys)
           /\ \A i \in DOMAIN storeCAChain(r) : storeCAChain(r)[i].file \notin {"cert", "cred"}
           /\ "root" \in CAChain => /\ 1 \in DOMAIN storeCAChain(r)
                                    /\ storeCAChain(r)[1].file \in Roots
           /\ RootFollows(storeCAChain(r))
<1> DEFINE tls == r.cmd.profile = "tls"
           root == [file |-> IF tls THEN "tlscacerts" ELSE "cacerts", value |-> "chain"]
           int == [file |-> IF tls THEN "tlsintcerts" ELSE "intcerts", value |-> "chain"]
<1>1. /\ root \in Entries /\ root.file \in Roots /\ root.value = "chain"
      /\ int \in Entries /\ int.file \in {"tlsintcerts", "intcerts"} /\ int.value = "chain"
  BY DEF Entries, Planned, Files, Values, Roots
<1>2. storeCAChain(r) = (IF "root" \in CAChain THEN <<root>> ELSE <<>>) \o
                        (IF "int" \in CAChain THEN <<int>> ELSE <<>>)
  BY DEF storeCAChain
<1> HIDE DEF root, int
<1>3. /\ <<root>> \in Seq(Entries) /\ <<int>> \in Seq(Entries) /\ <<>> \in Seq(Entries)
      /\ Len(<<root>>) = 1 /\ Len(<<int>>) = 1 /\ <<root>>[1] = root /\ <<int>>[1] = int
      /\ Len(<<>>) = 0 /\ DOMAIN <<>> = {} /\ DOMAIN <<root>> = {1} /\ DOMAIN <<int>> = {1}
  BY <1>1
<1>4. /\ storeCAChain(r) \in Seq(Entries)
      /\ \A i \in DOMAIN storeCAChain(r) : storeCAChain(r)[i] \in {root, int}
      /\ "root" \in CAChain => 1 \in DOMAIN storeCAChain(r) /\ storeCAChain(r)[1] = root
  <2> DEFINE s == IF "root" \in CAChain THEN <<root>> ELSE <<>>
             t == IF "int" \in CAChain THEN <<int>> ELSE <<>>
  <2>1. /\ s \in Seq(Entries) /\ t \in Seq(Entries) /\ storeCAChain(r) = s \o t
        /\ \A i \in DOMAIN s : s[i] = root
        /\ \A i \in DOMAIN t : t[i] = int
        /\ "root" \in CAChain => 1 \in DOMAIN s
    BY <1>2, <1>3
  <2> HIDE DEF s, t
  <2>2. s \o t \in Seq(Entries)
    BY <2>1, Concatenation
  <2>3. \A i \in DOMAIN (s \o t) : (s \o t)[i] \in {root, int}
    BY <2>1, Concatenation
  <2>4. "root" \in CAChain => 1 \in DOMAIN (s \o t) /\ (s \o t)[1] = root
    BY <2>1, Concatenation
  <2>5. QED
    BY <2>1, <2>2, <2>3, <2>4
<1>5. /\ root.value \in Written(root.file) /\ int.value \in Written(int.file)
      /\ {root.file, int.file} \cap {"cert", "cred"} = {}
  BY <1>1 DEF Written, Roots
<1>6. \A i \in DOMAIN storeCAChain(r) : storeCAChain(r)[i].file \notin {"cert", "cred"}
  BY <1>4, <1>5
<1>7. QED
  BY <1>1, <1>4, <1>5, <1>6 DEF PlanFits, RootFollows

(* The chain makes up for any certificate before it.                       *)
LEMMA ChainFollows ==
    ASSUME NEW s \in Seq(Entries), NEW r
    PROVE  RootFollows(s \o storeCAChain(r))
<1> DEFINE t == storeCAChain(r)
<1>1. /\ t \in Seq(Entries)
      /\ \A i \in DOMAIN t : t[i].file \notin {"cert", "cred"}
      /\ "root" \in CAChain => 1 \in DOMAIN t /\ t[1].file \in Roots
  BY ChainPlan
<1> HIDE DEF t
<1>2. SUFFICES ASSUME "root" \in CAChain, NEW i \in DOMAIN (s \o t), (s \o t)[i].file = "cert"
               PROVE  \E j \in DOMAIN (s \o t) : j > i /\ (s \o t)[j].file \in Roots
  BY DEF RootFollows, t
<1>3. i \in DOMAIN s
  <2>1. \/ i \in DOMAIN s
        \/ i - Len(s) \in DOMAIN t /\ (s \o t)[i] = t[i - Len(s)]
    BY <1>1, Concatenation
  <2>2. QED
    BY <1>1, <1>2, <2>1
<1>4. Len(s) + 1 > i
  BY <1>3
<1>5. Len(s) + 1 \in DOMAIN (s \o t) /\ (s \o t)[Len(s) + 1].file \in Roots
  <2>1. 1 \in DOMAIN t /\ t[1].file \in Roots
    BY <1>1, <1>2
  <2>2. Len(s) + 1 \in DOMAIN (s \o t) /\ (s \o t)[Len(s) + 1] = t[1]
    BY <1>1, <2>1, Concatenation
  <2>3. QED
    BY <2>1, <2>2
<1>6. QED
  BY <1>4, <1>5

LEMMA WritesGoesOn ==
    ASSUME ClientInv, NEW p \in Procs, NEW plan \in Seq(Entries), PlanFits(plan, keystore),
           RootFollows(plan), procs[p].pc = "reply", Writes(p, plan), keystore' = keystore
    PROVE  \E x \in Proc : GoesOn(p, x)
<1> DEFINE r == procs[p]
           x == [r EXCEPT !.pc = "write", !.plan = plan]
<1>1. r \in Proc /\ CommandFits(r, keystore)
  BY ProcFields
<1>2. x \in Proc /\ x.pc = "write" /\ x.n = r.n
  BY <1>1 DEF Proc, Pcs
<1>3. plan # <<>> => CommandFits(x, keystore)
  BY <1>1 DEF CommandFits, Proc
<1>4. Ends(p) \/ (plan # <<>> /\ procs' = [procs EXCEPT ![p] = x])
  BY DEF Writes, Continues
<1> HIDE DEF x
<1>5. QED
  BY <1>1, <1>2, <1>3, <1>4, EndsGoesOn DEF GoesOn, Running

(* The answer to an enrollment, as it will be stored.                      *)
LEMMA StorePlan ==
    ASSUME ClientInv, NEW p \in Procs, Answered(p, Issuing)
    PROVE  /\ Store(procs[p]) \in Seq(Entries) /\ PlanFits(Store(procs[p]), keystore)
           /\ Len(Store(procs[p])) = 1 /\ DOMAIN Store(procs[p]) = {1}
           /\ Store(procs[p])[1] =
                [file |-> IF procs[p].req = "credential" THEN "cred" ELSE "cert",
                 value |-> procs[p].reply.value]
<1> DEFINE r == procs[p]
           w == [file |-> IF r.req = "credential" THEN "cred" ELSE "cert",
                 value |-> r.reply.value]
<1>1. /\ r.pc = "reply" /\ r.req \in Issuing /\ CommandFits(r, keystore)
      /\ r.reply.value \in Certs /\ r.reply.value.key = r.n
  BY ProcFields DEF Answered, CommandFits, ReplyFits
<1>2. r.req \in {"enroll", "reenroll"} => r.n \in keystore
  BY <1>1 DEF CommandFits
<1>3. /\ w \in Entries /\ w.value \in Written(w.file)
      /\ w.file = "cert" => w.value.key \in keystore
  BY <1>1, <1>2 DEF Entries, Values, Planned, Files, Written, Issuing
<1>4. Store(r) = <<w>>
  BY DEF Store
<1> HIDE DEF w
<1>5. /\ <<w>> \in Seq(Entries) /\ Len(<<w>>) = 1 /\ DOMAIN <<w>> = {1} /\ <<w>>[1] = w
  BY <1>3
<1>6. QED
  BY <1>3, <1>4, <1>5 DEF PlanFits, w

LEMMA RewriteConfigGoesOn ==
    ASSUME ClientInv, NEW p \in Procs, RewriteConfig(p)
    PROVE  \E x \in Proc : GoesOn(p, x)
<1> DEFINE cfg == <<[file |-> "cfg", value |-> disk["cfg"]]>>
           str == Store(procs[p])
           chain == storeCAChain(procs[p])
<1>1. cfg \in Seq(Entries) /\ PlanFits(cfg, keystore)
  <2>1. disk["cfg"] \in Marks \cup {"server", "default"}
    BY DEF ClientInv, DiskInv, Holds, Written, Files, Marks
  <2>2. QED
    BY <2>1 DEF Entries, Values, Planned, Files, PlanFits, Written
<1>2. str \in Seq(Entries) /\ PlanFits(str, keystore) /\ procs[p].pc = "reply"
  BY StorePlan DEF RewriteConfig, Answered, Issuing
<1>3. chain \in Seq(Entries) /\ PlanFits(chain, keystore)
  BY ChainPlan
<1>4. Writes(p, (cfg \o str) \o chain) /\ keystore' = keystore
  BY DEF RewriteConfig, local
<1> HIDE DEF cfg, str, chain
<1>5. cfg \o str \in Seq(Entries) /\ PlanFits(cfg \o str, keystore)
  BY <1>1, <1>2, PlansFit
<1>6. (cfg \o str) \o chain \in Seq(Entries) /\ PlanFits((cfg \o str) \o chain, keystore)
  BY <1>3, <1>5, PlansFit
<1>7. RootFollows((cfg \o str) \o chain)
  BY <1>5, ChainFollows DEF chain
<1>8. QED
  BY <1>2, <1>4, <1>6, <1>7, WritesGoesOn

LEMMA ReceiveReenrollGoesOn ==
    ASSUME ClientInv, NEW p \in Procs, ReceiveReenroll(p)
    PROVE  \E x \in Proc : GoesOn(p, x)
<1> DEFINE str == Store(procs[p])
           chain == storeCAChain(procs[p])
<1>2. str \in Seq(Entries) /\ PlanFits(str, keystore) /\ procs[p].pc = "reply"
  BY StorePlan DEF ReceiveReenroll, Answered, Issuing
<1>3. chain \in Seq(Entries) /\ PlanFits(chain, keystore)
  BY ChainPlan
<1>4. Writes(p, str \o chain) /\ keystore' = keystore
  BY DEF ReceiveReenroll, local
<1> HIDE DEF str, chain
<1>5. str \o chain \in Seq(Entries) /\ PlanFits(str \o chain, keystore)
  BY <1>2, <1>3, PlansFit
<1>6. RootFollows(str \o chain)
  BY <1>2, ChainFollows DEF chain
<1>7. QED
  BY <1>2, <1>4, <1>5, <1>6, WritesGoesOn

LEMMA CRLPlan ==
    ASSUME ClientInv, NEW p \in Procs, Answered(p, {"revoke", "gencrl"})
    PROVE  /\ storeCRL(procs[p]) \in Seq(Entries) /\ PlanFits(storeCRL(procs[p]), keystore)
           /\ RootFollows(storeCRL(procs[p]))
<1>1. procs[p].reply.value \in {"crl", Empty}
  BY ProcFields DEF Answered, CommandFits, ReplyFits
<1>2. QED
  BY <1>1 DEF storeCRL, Entries, Values, Marks, Planned, Files, PlanFits, Written, RootFollows

(* All the answers; the configuration is the same, nothing is sent.        *)
LEMMA ReceiveGoesOn ==
    ASSUME ClientInv, NEW p \in Procs, Receive(p)
    PROVE  /\ \E x \in Proc : GoesOn(p, x)
           /\ procs[p].pc = "reply"
           /\ UNCHANGED <<disk, keystore, stored, remote, history>>
<1>1. CASE ReceiveError(p) \/ ReceiveRegister(p) \/ ReceiveAnswer(p)
  BY <1>1, EndsGoesOn DEF ReceiveError, ReceiveRegister, ReceiveAnswer, Answered, local
<1>2. CASE ReceiveNonce(p)
  BY <1>2, ReceiveNonceGoesOn DEF ReceiveNonce, Answered, local
<1>3. CASE RewriteConfig(p)
  BY <1>3, RewriteConfigGoesOn DEF RewriteConfig, Answered, local
<1>4. CASE ReceiveReenroll(p)
  BY <1>4, ReceiveReenrollGoesOn DEF ReceiveReenroll, Answered, local
<1>5. CASE ReceiveRevoke(p)
  <2>1. Answered(p, {"revoke", "gencrl"}) /\ procs[p].pc = "reply"
    BY <1>5 DEF ReceiveRevoke, Answered
  <2>2. <<>> \in Seq(Entries) /\ PlanFits(<<>>, keystore) /\ RootFollows(<<>>)
    BY DEF PlanFits, RootFollows
  <2>3. /\ Writes(p, storeCRL(procs[p])) \/ Writes(p, <<>>)
        /\ UNCHANGED <<local, remote, history>>
    BY <1>5 DEF ReceiveRevoke
  <2>4. QED
    BY <2>1, <2>2, <2>3, CRLPlan, WritesGoesOn DEF local
<1>6. CASE ReceiveGenCRL(p)
  <2>1. /\ Answered(p, {"revoke", "gencrl"}) /\ procs[p].pc = "reply"
        /\ Writes(p, storeCRL(procs[p])) /\ UNCHANGED <<local, remote, history>>
    BY <1>6 DEF ReceiveGenCRL, Answered
  <2>2. QED
    BY <2>1, CRLPlan, WritesGoesOn DEF local
<1>7. CASE ReceiveGetCAInfo(p)
  <2>1. /\ procs[p].pc = "reply"
        /\ Writes(p, storeCAChain(procs[p])) /\ UNCHANGED <<local, remote, history>>
    BY <1>7 DEF ReceiveGetCAInfo, Answered
  <2>2. QED
    BY <2>1, ChainPlan, WritesGoesOn DEF local
<1>8. QED
  BY <1>1, <1>2, <1>3, <1>4, <1>5, <1>6, <1>7 DEF Receive

(* The file that is being written.                                         *)
LEMMA HeadOfPlan ==
    ASSUME ClientInv, NEW p \in Procs, Writing(p)
    PROVE  LET r == procs[p] IN
           /\ r \in Proc /\ CommandFits(r, keystore) /\ r.plan \in Seq(Entries) /\ r.plan # <<>>
           /\ 1 \in DOMAIN r.plan /\ Head(r.plan) = r.plan[1] /\ Head(r.plan) \in Entries
           /\ Head(r.plan).file \in Planned /\ Head(r.plan).value \in Written(Head(r.plan).file)
           /\ Head(r.plan).file = "cert" => Head(r.plan).value.key \in keystore
<1> DEFINE r == procs[p]
<1>1. r \in Proc /\ CommandFits(r, keystore)
  BY ProcFields
<1>2. r.plan \in Seq(Entries) /\ r.plan # <<>> /\ PlanFits(r.plan, keystore)
  BY <1>1 DEF Writing, Proc, CommandFits
<1>3. 1 \in DOMAIN r.plan /\ Head(r.plan) = r.plan[1] /\ Head(r.plan) \in Entries
  BY <1>2
<1>4. Head(r.plan).file \in Planned
  BY <1>3 DEF Entries
<1>5. QED
  BY <1>1, <1>2, <1>3, <1>4 DEF PlanFits

LEMMA DiskStays ==
    ASSUME DiskInv, disk' = disk, keystore \subseteq keystore'
    PROVE  DiskInv'
  BY DEF DiskInv, CertificateHasKey, Readable, Holds

LEMMA DiskChanges ==
    ASSUME DiskInv, NEW f \in Planned, NEW v \in Holds(f), disk' = [disk EXCEPT ![f] = v],
           keystore' = keystore,
           f = "cert" => v \in Marks \/ v.key \in keystore \/ v = disk["cert"]
    PROVE  DiskInv'
<1>1. /\ disk'[f] = v /\ f \in Files /\ f # "keypem" /\ "keypem" \in Files /\ "cert" \in Files
      /\ \A g \in Files \ {f} : disk'[g] = disk[g]
      /\ DOMAIN disk' = Files
  BY DEF DiskInv, Planned, Files
<1>2. disk'["keypem"] = disk["keypem"]
  BY <1>1
<1>3. CertificateHasKey'
  BY <1>1, <1>2 DEF DiskInv, CertificateHasKey, Readable, Marks
<1>4. QED
  BY <1>1, <1>3 DEF DiskInv, Holds

LEMMA TruncateGoesOn ==
    ASSUME ClientInv, NEW p \in Procs, Truncate(p)
    PROVE  (\E x \in Proc : GoesOn(p, x)) /\ DiskInv'
<1> DEFINE r == procs[p]
           x == [r EXCEPT !.pc = "fill"]
           f == Head(r.plan).file
<1>1. /\ r.pc = "write" /\ procs' = [procs EXCEPT ![p] = x] /\ keystore' = keystore
      /\ disk' = [disk EXCEPT ![f] = Empty]
  BY DEF Truncate, Continues
<1>2. r \in Proc /\ CommandFits(r, keystore) /\ f \in Planned
  BY <1>1, HeadOfPlan DEF Writing
<1>3. x \in Proc /\ x.pc = "fill" /\ x.n = r.n
  BY <1>2 DEF Proc, Pcs
<1>4. CommandFits(x, keystore)
  BY <1>1, <1>2 DEF CommandFits, Proc
<1>5. \E y \in Proc : GoesOn(p, y)
  <2> HIDE DEF x
  <2>1. QED
    BY <1>1, <1>3, <1>4 DEF GoesOn, Running
<1>6. DiskInv'
  <2> HIDE DEF f
  <2>1. Empty \in Holds(f) /\ Empty \in Marks
    BY DEF Holds, Marks
  <2>2. QED
    BY <1>1, <1>2, <2>1, DiskChanges DEF ClientInv
<1>7. QED
  BY <1>5, <1>6

LEMMA RestOfPlan ==
    ASSUME NEW s \in Seq(Entries), Len(s) > 1
    PROVE  /\ Tail(s) \in Seq(Entries) /\ Tail(s) # <<>> /\ Len(Tail(s)) = Len(s) - 1
           /\ \A i \in DOMAIN Tail(s) : i + 1 \in DOMAIN s /\ Tail(s)[i] = s[i + 1]
           /\ \A i \in DOMAIN s : i > 1 => i - 1 \in DOMAIN Tail(s) /\ Tail(s)[i - 1] = s[i]
<1>1. Tail(s) \in Seq(Entries) /\ Len(Tail(s)) = Len(s) - 1
  OBVIOUS
<1>2. Tail(s) # <<>>
  <2>1. Len(s) \in Nat /\ Len(<<>>) = 0
    OBVIOUS
  <2>2. Len(Tail(s)) # 0
    BY <1>1, <2>1
  <2>3. QED
    BY <2>1, <2>2
<1>3. \A i \in 1..(Len(s) - 1) : Tail(s)[i] = s[i + 1]
  OBVIOUS
<1>4. QED
  BY <1>1, <1>2, <1>3

LEMMA TailFollows ==
    ASSUME NEW s \in Seq(Entries), Len(s) > 1, RootFollows(s)
    PROVE  RootFollows(Tail(s))
<1> DEFINE t == Tail(s)
<1>1. /\ \A i \in DOMAIN t : i + 1 \in DOMAIN s /\ t[i] = s[i + 1] /\ i \in Nat
      /\ \A i \in DOMAIN s : i > 1 => i - 1 \in DOMAIN t /\ t[i - 1] = s[i]
      /\ \A i \in DOMAIN s : i \in Nat
  BY RestOfPlan
<1> HIDE DEF t
<1>2. SUFFICES ASSUME "root" \in CAChain, NEW i \in DOMAIN t, t[i].file = "cert"
               PROVE  \E j \in DOMAIN t : j > i /\ t[j].file \in Roots
  BY DEF RootFollows, t
<1>3. i \in Nat /\ i + 1 \in DOMAIN s /\ s[i + 1].file = "cert"
  BY <1>1, <1>2
<1>4. PICK j \in DOMAIN s : j > i + 1 /\ s[j].file \in Roots
  BY <1>2, <1>3 DEF RootFollows
<1>5. j \in Nat /\ j > 1 /\ j - 1 > i
  BY <1>1, <1>3, <1>4
<1>6. j - 1 \in DOMAIN t /\ t[j - 1] = s[j]
  BY <1>1, <1>5
<1>7. QED
  BY <1>4, <1>5, <1>6

LEMMA FillGoesOn ==
    ASSUME ClientInv, NEW p \in Procs, Fill(p)
    PROVE  (\E x \in Proc : GoesOn(p, x)) /\ DiskInv'
<1> DEFINE r == procs[p]
           w == Head(r.plan)
           x == [r EXCEPT !.pc = "write", !.plan = Tail(@)]
           y == [r EXCEPT !.pc = r.next, !.plan = <<>>, !.next = "idle"]
<1>1. /\ r.pc = "fill" /\ keystore' = keystore
      /\ \/ Len(r.plan) > 1 /\ procs' = [procs EXCEPT ![p] = x]
         \/ Ends(p)
         \/ r.next # "idle" /\ procs' = [procs EXCEPT ![p] = y]
  BY DEF Fill, Continues
<1>2. /\ r \in Proc /\ CommandFits(r, keystore) /\ r.plan \in Seq(Entries) /\ r.plan # <<>>
      /\ w.file \in Planned /\ w.value \in Written(w.file)
      /\ w.file = "cert" => w.value.key \in keystore
  BY <1>1, HeadOfPlan DEF Writing
<1>3. Len(r.plan) > 1 =>
        /\ Tail(r.plan) \in Seq(Entries) /\ Tail(r.plan) # <<>>
        /\ PlanFits(Tail(r.plan), keystore) /\ RootFollows(Tail(r.plan))
  <2>1. PlanFits(r.plan, keystore) /\ RootFollows(r.plan)
    BY <1>2 DEF CommandFits
  <2>2. SUFFICES ASSUME Len(r.plan) > 1
                 PROVE  /\ Tail(r.plan) \in Seq(Entries) /\ Tail(r.plan) # <<>>
                        /\ PlanFits(Tail(r.plan), keystore) /\ RootFollows(Tail(r.plan))
    OBVIOUS
  <2>3. /\ Tail(r.plan) \in Seq(Entries) /\ Tail(r.plan) # <<>>
        /\ \A i \in DOMAIN Tail(r.plan) :
             i + 1 \in DOMAIN r.plan /\ Tail(r.plan)[i] = r.plan[i + 1]
    BY <1>2, <2>2, RestOfPlan
  <2>4. PlanFits(Tail(r.plan), keystore)
    BY <2>1, <2>3 DEF PlanFits
  <2>5. QED
    BY <1>2, <2>1, <2>2, <2>3, <2>4, TailFollows
<1>4. Len(r.plan) > 1 => x \in Proc /\ x.pc = "write" /\ x.n = r.n /\ CommandFits(x, keystore)
  <2> DEFINE t == Tail(r.plan)
  <2> HIDE DEF t
  <2>1. x = [r EXCEPT !.pc = "write", !.plan = t]
    BY DEF t
  <2>2. t \in Seq(Entries) => x \in Proc /\ x.pc = "write" /\ x.n = r.n
    BY <1>2, <2>1 DEF Proc, Pcs
  <2>3. t # <<>> /\ PlanFits(t, keystore) /\ RootFollows(t) => CommandFits(x, keystore)
    BY <1>1, <1>2, <2>1 DEF CommandFits, Proc
  <2>4. QED
    BY <1>3, <2>2, <2>3 DEF t
<1>5. r.next # "idle" => y \in Proc /\ y.pc = "read" /\ y.n = r.n /\ CommandFits(y, keystore)
  <2>1. r.next # "idle" => r.next = "read" /\ r.req = ""
    BY <1>2 DEF Proc, CommandFits
  <2>2. <<>> \in Seq(Entries) /\ PlanFits(<<>>, keystore) /\ RootFollows(<<>>)
    BY DEF PlanFits, RootFollows
  <2>3. r.next # "idle" => y \in Proc /\ y.pc = "read" /\ y.n = r.n
    BY <1>2, <2>1, <2>2 DEF Proc, Pcs
  <2>4. r.next # "idle" => CommandFits(y, keystore)
    BY <1>1, <1>2, <2>1, <2>2 DEF CommandFits, Proc
  <2>5. QED
    BY <2>3, <2>4
<1>6. \E z \in Proc : GoesOn(p, z)
  <2> HIDE DEF x, y
  <2>1. QED
    BY <1>1, <1>4, <1>5, EndsGoesOn DEF GoesOn, Running
<1>7. DiskInv'
  <2> HIDE DEF w
  <2>1. PICK v \in Contents(w.file, w.value) : disk' = [disk EXCEPT ![w.file] = v]
    BY DEF Fill, w
  <2>2. disk[w.file] \in Holds(w.file)
    BY <1>2 DEF ClientInv, DiskInv, Planned
  <2>3. v \in {disk[w.file], w.value} \/ (v = Mixed /\ w.file \notin ChainFiles)
    BY DEF Contents
  <2>4. v \in Holds(w.file)
    BY <1>2, <2>2, <2>3 DEF Holds, Planned
  <2>5. w.file = "cert" => v \in Marks \/ v.key \in keystore \/ v = disk["cert"]
    BY <1>2, <2>3 DEF Marks
  <2>6. QED
    BY <1>1, <1>2, <2>1, <2>4, <2>5, DiskChanges DEF ClientInv
<1>8. QED
  BY <1>6, <1>7

-----------------------------------------------------------------------------
(* Messages.                                                               *)
LEMMA SendReqKeepsInv ==
    ASSUME ClientInv, NEW p \in Procs, SendReq(p)
    PROVE  ProcsInv' /\ NetInv'
<1> DEFINE r == procs[p]
           auth == addAuthHeader(r)
           m == [proc |-> p, n |-> r.n, req |-> r.req, auth |-> auth, name |-> r.cmd.name,
                 issued |-> FALSE]
           x == [r EXCEPT !.pc = "await"]
<1>1. /\ r \in Proc /\ CommandFits(r, keystore) /\ r.pc = "send" /\ Running(p)
      /\ r.cmd.op \in Ops /\ r.cmd.name \in Names /\ r.cmd.type \in {"x509", "idemix"}
      /\ r.cmd.secret \in BOOLEAN
  BY ProcFields DEF SendReq, Running
<1>2. UNCHANGED <<keystore, commands>>
  BY DEF SendReq, local, history
<1>3. CASE Ends(p) /\ UNCHANGED net
  BY <1>2, <1>3, EndsGoesOn, CommandGoesOn
<1>4. CASE net' = net \cup {m} /\ procs' = [procs EXCEPT ![p] = x]
  <2>1. x \in Proc /\ x.pc = "await" /\ x.n = r.n /\ x.req = r.req /\ x.cmd = r.cmd
    BY <1>1 DEF Proc, Pcs
  <2>2. CommandFits(x, keystore)
    BY <1>1 DEF CommandFits, Proc
  <2>3. /\ procs \in [Procs -> Proc] /\ procs' \in [Procs -> Proc] /\ procs'[p] = x
        /\ \A q \in Procs \ {p} : procs'[q] = procs[q]
        /\ \A q \in Procs : procs[q].n \in 0..MaxCommands /\ procs[q].n <= commands
        /\ commands \in 0..MaxCommands
    <3>1. procs \in [Procs -> Proc]
      BY DEF ClientInv, ProcsInv
    <3>2. \A q \in Procs : procs[q].n \in 0..MaxCommands
      BY <3>1 DEF Proc
    <3>3. QED
      BY <1>4, <2>1, <3>1, <3>2 DEF ClientInv, ProcsInv, SrvInv
  <2> HIDE DEF x
  <2>4. \A q \in Procs : /\ Running(q)' <=> Running(q)
                         /\ procs'[q].n = procs[q].n
    BY <1>1, <2>1, <2>3 DEF Running
  <2>5. ProcsInv'
    BY <1>2, <2>2, <2>3, <2>4 DEF ProcsInv, ClientInv
  <2>6. MessageFits(m)
    <3>1. r.req \in RequestsOf(r.cmd) /\ r.cmd.op # "gencsr" /\ r.n # 0
      BY <1>1 DEF CommandFits
    <3>2. /\ r.req \in Reqs \ {"", "gencsr"}
          /\ r.req = "enroll" => r.cmd.op = "enroll" /\ r.cmd.type = "x509"
      BY <1>1, <3>1 DEF RequestsOf, Reqs, Ops
    <3>4. r.req = "enroll" => auth.kind = "basic"
      BY <3>2 DEF addAuthHeader, Basic
    <3>6. r.n \in 1..commands
      BY <2>3, <3>1
    <3> HIDE DEF auth
    <3>7. QED
      BY <1>1, <3>2, <3>4, <3>6 DEF MessageFits
  <2>7. m.n = r.n /\ m.proc = p /\ m.req = r.req /\ m.name = r.cmd.name
    OBVIOUS
  <2> HIDE DEF m, auth
  <2>8. \A l \in net : l.n # r.n
    BY <1>1 DEF ClientInv, NetInv, Awaits
  <2>9. NetInv'
    <3>1. \A l \in net' : MessageFits(l)'
      BY <1>2, <1>4, <2>6 DEF ClientInv, NetInv, MessageFits
    <3>2. \A l, k \in net' : l.n = k.n => l = k
      BY <1>4, <2>7, <2>8 DEF ClientInv, NetInv
    <3>3. ASSUME NEW l \in net', NEW q \in Procs, Running(q)', procs'[q].n = l.n
          PROVE  Awaits(q, l)'
      <4>1. CASE l = m
        <5>1. q = p
          BY <1>1, <2>4, <2>7, <3>3, <4>1 DEF ClientInv, ProcsInv
        <5>2. QED
          BY <2>1, <2>3, <2>7, <4>1, <5>1 DEF Awaits
      <4>2. CASE l \in net
        <5>1. Awaits(q, l)
          BY <2>4, <3>3, <4>2 DEF ClientInv, NetInv
        <5>2. q # p
          BY <1>1, <5>1 DEF Awaits
        <5>3. QED
          BY <2>3, <5>1, <5>2 DEF Awaits
      <4>3. QED
        BY <1>4, <4>1, <4>2
    <3>4. QED
      BY <3>1, <3>2, <3>3 DEF NetInv
  <2>10. QED
    BY <2>5, <2>9
<1>5. QED
  BY <1>3, <1>4 DEF SendReq, Continues

LEMMA BeginKeepsInv ==
    ASSUME ClientInv, NEW p \in Procs, NEW c \in Commands, Begin(p, c)
    PROVE  ProcsInv' /\ NetInv'
<1>1. /\ ~Running(p) /\ commands < MaxCommands /\ commands' = commands + 1
      /\ UNCHANGED <<keystore, net>> /\ commands \in 0..MaxCommands
  BY DEF Begin, local, remote, ClientInv, SrvInv
<1>2. PICK s \in Nat : procs' = [procs EXCEPT ![p] =
                          [Idle EXCEPT !.pc = "config", !.n = commands + 1, !.cmd = c,
                                       !.secret = s]]
  <2>1. known[c.name] \subseteq Nat
    <3>1. c.name \in Names
      BY ClientConstantsOK DEF ClientConstantsOK
    <3>2. QED
      BY <3>1 DEF ClientInv, SrvInv
  <2>2. QED
    BY <2>1 DEF Begin, Continues
<1> DEFINE x == [Idle EXCEPT !.pc = "config", !.n = commands + 1, !.cmd = c, !.secret = s]
<1>3. /\ x \in Proc /\ x.pc = "config" /\ x.n = commands + 1 /\ x.cmd = c /\ x.req = ""
      /\ x.plan = <<>> /\ x.next = "idle"
  <2>1. commands + 1 \in 0..MaxCommands
    BY <1>1, Constants
  <2>2. Idle \in Proc /\ Idle.req = "" /\ Idle.plan = <<>> /\ Idle.next = "idle"
    BY IdleFits DEF Idle
  <2>3. QED
    BY <2>1, <2>2 DEF Proc, Pcs
<1>4. PlanFits(<<>>, keystore) /\ RootFollows(<<>>) /\ commands + 1 # 0
  BY <1>1 DEF PlanFits, RootFollows
<1> HIDE DEF x
<1>5. CommandFits(x, keystore)
  BY <1>3, <1>4 DEF CommandFits
<1>6. /\ procs \in [Procs -> Proc] /\ procs' \in [Procs -> Proc] /\ procs'[p] = x
      /\ \A q \in Procs \ {p} : procs'[q] = procs[q]
  BY <1>2, <1>3 DEF x, ClientInv, ProcsInv
<1>7. \A q \in Procs : procs[q].n \in Nat /\ procs[q].n <= commands
  <2>1. \A q \in Procs : procs[q].n \in 0..MaxCommands
    BY <1>6 DEF Proc
  <2>2. QED
    BY <2>1 DEF ClientInv, ProcsInv
<1>8. /\ \A q \in Procs : procs'[q].n <= commands'
      /\ \A q \in Procs \ {p} : procs'[q].n # procs'[p].n
  <2>1. \A q \in Procs : procs[q].n <= commands + 1 /\ procs[q].n # commands + 1
    BY <1>1, <1>7
  <2>2. procs'[p].n = commands + 1
    BY <1>3, <1>6, Zenon
  <2>3. commands + 1 <= commands + 1
    BY <1>1
  <2>4. \A q \in Procs \ {p} : procs'[q].n <= commands + 1 /\ procs'[q].n # commands + 1
    BY <1>6, <2>1
  <2>5. QED
    BY <1>1, <2>2, <2>3, <2>4
<1>9. \A q \in Procs \ {p} : Running(q)' <=> Running(q)
  BY <1>6 DEF Running
<1>10. ProcsInv'
  <2>1. ASSUME NEW q \in Procs, NEW t \in Procs, Running(q)', procs'[t].n = procs'[q].n
        PROVE  q = t
    BY <1>6, <1>8, <1>9, <2>1 DEF ClientInv, ProcsInv
  <2>2. \A q \in Procs : CommandFits(procs'[q], keystore')
    BY <1>1, <1>5, <1>6 DEF ClientInv, ProcsInv
  <2>3. QED
    BY <1>6, <1>8, <2>1, <2>2 DEF ProcsInv
<1>11. NetInv'
  <2>1. \A m \in net : m.n \in 1..commands
    BY DEF ClientInv, NetInv, MessageFits
  <2>2. \A m \in net : m.n \in 1..commands' /\ m.n # commands + 1
    BY <1>1, <2>1
  <2>3. \A m \in net : MessageFits(m)'
    BY <2>2 DEF ClientInv, NetInv, MessageFits
  <2>4. ASSUME NEW m \in net, NEW q \in Procs, Running(q)', procs'[q].n = m.n
        PROVE  Awaits(q, m)'
    <3>1. q # p
      BY <1>3, <1>6, <2>2, <2>4
    <3>2. Awaits(q, m)
      BY <1>6, <1>9, <2>4, <3>1 DEF ClientInv, NetInv
    <3>3. QED
      BY <1>6, <3>1, <3>2 DEF Awaits
  <2>5. QED
    BY <1>1, <2>3, <2>4 DEF ClientInv, NetInv
<1>12. QED
  BY <1>10, <1>11

(* What the server does for a message, and what of it can be lost.         *)
Nothing == Issued' = Issued /\ \A u \in Names : srv'.users[u].secret \in {0, srv.users[u].secret}

Does(m) ==
    \/ /\ m.req \in Issuing /\ Issued' = Issued \cup {IssuedFor(m)}
       /\ \A u \in Names : srv'.users[u].secret = srv.users[u].secret
    \/ /\ m.req = "register" /\ Issued' = Issued
       /\ \A u \in Names : srv'.users[u].secret =
                              IF u = m.name THEN m.n ELSE srv.users[u].secret
    \/ Nothing

LEMMA CertificateFits ==
    ASSUME ClientInv, NEW m \in net, m.req \in Issuing, Accepted(m) \/ m.issued
    PROVE  Certificate(m) \in Certs /\ Certificate(m).key = m.n
<1>1. /\ m.n \in 1..commands /\ m.name \in Names /\ commands \in 0..MaxCommands
      /\ m.issued => m.auth.kind = "basic"
      /\ srv.certs \subseteq Certs
  BY DEF ClientInv, NetInv, MessageFits, LogsIn, SrvInv, Server
<1>2. m.n \in 0..MaxCommands
  BY <1>1, Constants
<1>3. Caller(m) \in Names
  <2>1. CASE m.auth.kind = "basic"
    BY <1>1, <2>1 DEF Caller
  <2>2. CASE m.auth.kind # "basic"
    <3>1. TokenAuthentication(m)
      BY <1>1, <2>2 DEF Accepted, BasicAuthentication, Issuing
    <3>2. m.auth.cert \in Certs
      BY <1>1, <3>1 DEF TokenAuthentication
    <3>3. QED
      BY <2>2, <3>2 DEF Caller, Certs
  <2>3. QED
    BY <2>1, <2>2
<1>4. QED
  BY <1>2, <1>3 DEF Certificate, Certs

LEMMA EffectDoes ==
    ASSUME ClientInv, NEW m \in net, Accepted(m), srv' = Effect(m)
    PROVE  srv' \in Server /\ srv'.revoked \subseteq srv'.certs /\ Does(m)
<1>1. /\ m.n \in 1..commands /\ m.name \in Names /\ m.req \in Reqs \ {"", "gencsr"}
      /\ srv \in Server /\ srv.revoked \subseteq srv.certs
      /\ commands \in 0..MaxCommands
  BY DEF ClientInv, NetInv, MessageFits, SrvInv
<1>2. /\ srv.users \in [Names -> User] /\ srv.certs \in SUBSET Certs
      /\ srv.revoked \in SUBSET Certs /\ srv.creds \in SUBSET Certs
      /\ \A u \in Names : srv.users[u] \in User
      /\ m.n \in 0..MaxCommands /\ m.n \in 0..FirstSecret /\ m.n # 0 /\ 0 \in 0..FirstSecret
  <2>1. m.n \in 0..MaxCommands /\ m.n \in 0..FirstSecret /\ m.n # 0 /\ 0 \in 0..FirstSecret
    <3>1. m.n \in 1..commands /\ commands \in 0..MaxCommands
      BY <1>1
    <3>2. QED
      BY <3>1, Constants
  <2>2. QED
    BY <1>1, <2>1 DEF Server
<1>3. srv' = Effect(m)
  OBVIOUS
<1>4. m.req \in Issuing => Certificate(m) \in Certs /\ Certificate(m).key = m.n
  BY CertificateFits
<1>6. CASE m.req \in Issuing
  <2>3. CASE m.req = "credential"
    <3>1. srv' = [srv EXCEPT !.creds = @ \cup {Certificate(m)}]
      BY <1>3, <1>6, <2>3 DEF Effect, IssueCredential, Issuing
    <3>2. /\ srv' \in Server /\ srv'.users = srv.users /\ srv'.certs = srv.certs
          /\ srv'.revoked = srv.revoked /\ srv'.creds = srv.creds \cup {Certificate(m)}
      BY <1>1, <1>2, <1>4, <1>6, <3>1 DEF Server
    <3>3. Issued' = Issued \cup {IssuedFor(m)}
      BY <2>3, <3>2 DEF Issued, IssuedFor
    <3>4. QED
      BY <1>1, <1>6, <3>2, <3>3 DEF Does
  <2>4. CASE m.req # "credential"
    <3>1. srv' = [srv EXCEPT !.certs = @ \cup {Certificate(m)}]
      BY <1>3, <1>6, <2>4 DEF Effect, handleEnroll, Issuing
    <3>2. /\ srv' \in Server /\ srv'.users = srv.users /\ srv'.creds = srv.creds
          /\ srv'.revoked = srv.revoked /\ srv'.certs = srv.certs \cup {Certificate(m)}
      BY <1>1, <1>2, <1>4, <1>6, <3>1 DEF Server
    <3>3. Issued' = Issued \cup {IssuedFor(m)}
      BY <2>4, <3>2 DEF Issued, IssuedFor
    <3>4. QED
      BY <1>1, <1>6, <3>2, <3>3 DEF Does
  <2>5. QED
    BY <2>3, <2>4
<1>7. CASE m.req = "register"
  <2> DEFINE user == [NoUser EXCEPT !.secret = m.n]
  <2>1. user \in User /\ user.secret = m.n
    <3>1. 0 \in -1..MaxEnrollments /\ -1 \in -1..MaxEnrollments
      BY Constants
    <3>2. QED
      BY <1>2, <3>1 DEF User, NoUser
  <2>2. srv' = [srv EXCEPT !.users[m.name] = user]
    BY <1>3, <1>7 DEF Effect, registerUser
  <2> HIDE DEF user
  <2>3. /\ srv' \in Server /\ srv'.users = [srv.users EXCEPT ![m.name] = user]
        /\ srv'.certs = srv.certs /\ srv'.revoked = srv.revoked /\ srv'.creds = srv.creds
    BY <1>1, <1>2, <2>1, <2>2 DEF Server
  <2>4. \A u \in Names : srv'.users[u].secret = IF u = m.name THEN m.n ELSE srv.users[u].secret
    BY <1>2, <2>1, <2>3
  <2>5. Issued' = Issued
    BY <2>3 DEF Issued
  <2>6. QED
    BY <1>1, <1>7, <2>3, <2>4, <2>5 DEF Does
<1>8. CASE m.req = "revoke"
  <2>1. srv' = [srv EXCEPT !.users[m.name].state = -1,
                           !.revoked = @ \cup Certificates(m.name)]
    BY <1>3, <1>8 DEF Effect, revoke
  <2>2. Certificates(m.name) \subseteq srv.certs
    BY DEF Certificates
  <2> DEFINE v == [srv.users[m.name] EXCEPT !.state = -1]
  <2>3. v \in User /\ v.secret = srv.users[m.name].secret
    <3>1. -1 \in -1..MaxEnrollments
      BY Constants
    <3>2. QED
      BY <1>1, <1>2, <3>1 DEF User
  <2>4. srv' = [srv EXCEPT !.users[m.name] = v, !.revoked = @ \cup Certificates(m.name)]
    BY <2>1
  <2> HIDE DEF v
  <2>5. /\ srv' \in Server /\ srv'.users = [srv.users EXCEPT ![m.name] = v]
        /\ srv'.certs = srv.certs /\ srv'.revoked = srv.revoked \cup Certificates(m.name)
        /\ srv'.creds = srv.creds
    BY <1>1, <1>2, <2>2, <2>3, <2>4 DEF Server
  <2>6. \A u \in Names : srv'.users[u].secret = srv.users[u].secret
    BY <1>1, <1>2, <2>3, <2>5
  <2>7. Issued' = Issued
    BY <2>5 DEF Issued
  <2>8. QED
    BY <1>1, <1>8, <2>2, <2>5, <2>6, <2>7 DEF Does, Nothing
<1>9. CASE m.req = "identity"
  <2>1. srv' = [srv EXCEPT !.users[m.name] = NoUser,
                           !.revoked = @ \cup Certificates(m.name)]
    BY <1>3, <1>9 DEF Effect, DeleteUser
  <2>2. Certificates(m.name) \subseteq srv.certs
    BY DEF Certificates
  <2>3. NoUser \in User /\ NoUser.secret = 0
    <3>1. 0 \in -1..MaxEnrollments /\ -1 \in -1..MaxEnrollments
      BY Constants
    <3>2. QED
      BY <1>2, <3>1 DEF User, NoUser
  <2>4. /\ srv' \in Server /\ srv'.users = [srv.users EXCEPT ![m.name] = NoUser]
        /\ srv'.certs = srv.certs /\ srv'.revoked = srv.revoked \cup Certificates(m.name)
        /\ srv'.creds = srv.creds
    BY <1>1, <1>2, <2>1, <2>2, <2>3 DEF Server
  <2>5. \A u \in Names : srv'.users[u].secret \in {0, srv.users[u].secret}
    BY <1>2, <2>3, <2>4
  <2>6. Issued' = Issued
    BY <2>4 DEF Issued
  <2>7. QED
    BY <1>1, <1>9, <2>2, <2>4, <2>5, <2>6 DEF Does, Nothing
<1>10. CASE m.req \notin Issuing \cup {"register", "revoke", "identity"}
  <2>1. srv' = srv
    BY <1>3, <1>10 DEF Effect, Issuing
  <2>2. QED
    BY <1>1, <1>10, <2>1 DEF Does, Nothing, Issued
<1>11. QED
  BY <1>6, <1>7, <1>8, <1>9, <1>10

(* The login is counted; an identity that is gone is not touched.          *)
LEMMA LoginCompleteDoes ==
    ASSUME ClientInv, NEW m \in net, LoginComplete(m)
    PROVE  srv' \in Server /\ srv'.revoked \subseteq srv'.certs /\ Nothing
<1> DEFINE u == srv.users[m.name]
           state == IF u.secret # 0 /\ u.state < MaxEnrollments THEN u.state + 1 ELSE u.state
           v == [u EXCEPT !.state = state]
<1>1. /\ m.name \in Names /\ srv \in Server /\ srv.revoked \subseteq srv.certs
  BY DEF ClientInv, NetInv, MessageFits, SrvInv
<1>2. srv.users \in [Names -> User] /\ u \in User /\ u.state \in -1..MaxEnrollments
  BY <1>1 DEF Server, User
<1>3. state \in -1..MaxEnrollments
  BY <1>2, Constants
<1>4. srv' = [srv EXCEPT !.users[m.name] = v]
  BY DEF LoginComplete
<1> HIDE DEF state
<1>5. v \in User /\ v.secret = u.secret
  BY <1>2, <1>3 DEF User
<1> HIDE DEF v
<1>6. /\ srv' \in Server /\ srv'.users = [srv.users EXCEPT ![m.name] = v]
      /\ srv'.certs = srv.certs /\ srv'.revoked = srv.revoked /\ srv'.creds = srv.creds
  BY <1>1, <1>2, <1>4, <1>5 DEF Server
<1>7. \A w \in Names : srv'.users[w].secret = srv.users[w].secret
  BY <1>1, <1>2, <1>5, <1>6
<1>8. QED
  BY <1>1, <1>6, <1>7 DEF Nothing, Issued

(* What the steps of the server have in common.                            *)
LEMMA ServerDoes ==
    ASSUME ClientInv, NEW m \in net, Handle(m) \/ LoginComplete(m) \/ ServerFault(m)
    PROVE  /\ srv' \in Server /\ srv'.revoked \subseteq srv'.certs /\ Does(m)
           /\ m.issued => Nothing
           /\ \E ok \in BOOLEAN :
                 /\ Answers(m, ok) /\ (ok => Accepted(m) \/ m.issued)
                 /\ \/ ok /\ UNCHANGED <<faults, refused>>
                    \/ ~ok /\ ~m.issued /\ Nothing /\ UNCHANGED <<faults, refused>>
                    \/ ~ok /\ faults' = faults + 1 /\ refused' = refused
                    \/ ~ok /\ faults' = faults /\ refused' = refused + 1
           /\ UNCHANGED <<disk, keystore, known, stored, commands>>
           /\ faults' \in 0..MaxFaults /\ refused' \in Nat
<1>1. /\ srv \in Server /\ srv.revoked \subseteq srv.certs /\ m.req \in Reqs \ {"", "gencsr"}
      /\ faults \in 0..MaxFaults /\ refused \in Nat /\ m.issued \in BOOLEAN
  BY DEF ClientInv, SrvInv, NetInv, MessageFits
<1>2. srv' = srv => Nothing
  BY DEF Nothing, Issued
<1>3. Accepted(m) \in BOOLEAN
  BY <1>1 DEF Accepted, Reqs, Ops, BasicAuthentication, TokenAuthentication, IsRegistrar, Exists
<1>4. CASE Handle(m)
  <2>1. /\ ~m.issued /\ srv' = (IF Accepted(m) THEN Effect(m) ELSE srv)
        /\ Answers(m, Accepted(m))
        /\ UNCHANGED <<disk, keystore, known, stored, commands, faults, refused>>
    BY <1>4 DEF Handle, local, history
  <2>2. CASE Accepted(m)
    <3>1. srv' \in Server /\ srv'.revoked \subseteq srv'.certs /\ Does(m)
      BY <2>1, <2>2, EffectDoes
    <3>2. Answers(m, TRUE)
      BY <1>3, <2>1, <2>2
    <3>3. QED
      BY <1>1, <2>1, <2>2, <3>1, <3>2
  <2>3. CASE ~Accepted(m)
    <3>1. srv' = srv /\ Nothing
      BY <1>2, <2>1, <2>3
    <3>2. Answers(m, FALSE)
      BY <1>3, <2>1, <2>3
    <3>3. QED
      BY <1>1, <2>1, <3>1, <3>2 DEF Does
  <2>4. QED
    BY <2>2, <2>3
<1>5. CASE LoginComplete(m)
  <2> DEFINE ok == srv.users[m.name].secret # 0 /\ srv.users[m.name].state < MaxEnrollments
  <2>1. /\ m.issued /\ Answers(m, ok) /\ refused' = (IF ok THEN refused ELSE refused + 1)
        /\ UNCHANGED <<disk, keystore, known, stored, commands, faults>>
    BY <1>5 DEF LoginComplete, local
  <2>2. srv' \in Server /\ srv'.revoked \subseteq srv'.certs /\ Nothing
    BY <1>5, LoginCompleteDoes
  <2>3. ok \in BOOLEAN
    OBVIOUS
  <2> HIDE DEF ok
  <2>4. refused + 1 \in Nat
    <3>1. \A n \in Nat : n + 1 \in Nat
      OBVIOUS
    <3>2. QED
      BY <1>1, <3>1, Zenon
  <2>5. CASE ok
    <3>1. refused' = refused /\ Answers(m, TRUE)
      BY <2>1, <2>3, <2>5, Zenon
    <3>2. QED
      BY <1>1, <2>1, <2>2, <3>1 DEF Does
  <2>6. CASE ~ok
    <3>1. refused' = refused + 1 /\ Answers(m, FALSE)
      BY <2>1, <2>3, <2>6, Zenon
    <3>2. QED
      BY <1>1, <2>1, <2>2, <2>4, <3>1 DEF Does
  <2>7. QED
    BY <2>5, <2>6
<1>6. CASE ServerFault(m)
  <2>1. /\ faults' = faults + 1 /\ faults < MaxFaults /\ Answers(m, FALSE)
        /\ srv' = srv \/ (~m.issued /\ Accepted(m) /\ srv' = Effect(m))
        /\ UNCHANGED <<disk, keystore, known, stored, commands, refused>>
    BY <1>6 DEF ServerFault, local
  <2>2. faults' \in 0..MaxFaults
    <3>1. MaxFaults \in Nat /\ faults \in 0..MaxFaults /\ faults < MaxFaults
      BY <1>1, <2>1, Constants
    <3>2. faults + 1 \in 0..MaxFaults
      BY <3>1
    <3>3. QED
      BY <2>1, <3>2, Zenon
  <2>3. CASE srv' = srv
    BY <1>1, <1>2, <2>1, <2>2, <2>3 DEF Does
  <2>4. CASE ~m.issued /\ Accepted(m) /\ srv' = Effect(m)
    <3>1. srv' \in Server /\ srv'.revoked \subseteq srv'.certs /\ Does(m)
      BY <2>4, EffectDoes
    <3>2. QED
      BY <1>1, <2>1, <2>2, <2>4, <3>1
  <2>5. QED
    BY <2>1, <2>3, <2>4
<1>7. QED
  BY <1>4, <1>5, <1>6

(* The command that waits gets the answer to its request.                  *)
LEMMA AnswersKeepsInv ==
    ASSUME ClientInv, NEW m \in net, NEW ok \in BOOLEAN, Answers(m, ok),
           ok => Accepted(m) \/ m.issued, UNCHANGED <<keystore, commands>>
    PROVE  ProcsInv' /\ NetInv'
<1> DEFINE p == m.proc
           r == procs[p]
           value == IF ok THEN Result(m) ELSE Absent
           reply == [ok |-> ok, value |-> value]
           x == [r EXCEPT !.pc = "reply", !.reply = reply]
<1>1. /\ p \in Procs /\ MessageFits(m) /\ net' = net \ {m} /\ UNCHANGED <<keystore, commands>>
      /\ IF r.pc = "await" /\ r.n = m.n THEN procs' = [procs EXCEPT ![p] = x]
                                        ELSE procs' = procs
  BY DEF ClientInv, NetInv, MessageFits, Answers, Continues
<1>2. \A l \in net' : l \in net /\ l.n # m.n
  BY <1>1 DEF ClientInv, NetInv
<1>3. \A l \in net' : MessageFits(l)'
  BY <1>1, <1>2 DEF ClientInv, NetInv, MessageFits
<1>4. \A l, k \in net' : l.n = k.n => l = k
  BY <1>2 DEF ClientInv, NetInv
<1>5. CASE ~(r.pc = "await" /\ r.n = m.n)
  <2>1. procs' = procs
    BY <1>1, <1>5
  <2>2. ProcsInv'
    BY <1>1, <2>1 DEF ClientInv, ProcsInv, Running
  <2>3. NetInv'
    BY <1>2, <1>3, <1>4, <2>1 DEF ClientInv, NetInv, Awaits, Running
  <2>4. QED
    BY <2>2, <2>3
<1>6. CASE r.pc = "await" /\ r.n = m.n
  <2>1. /\ r \in Proc /\ CommandFits(r, keystore) /\ Running(p) /\ r.req = m.req
    BY <1>1, <1>6, ProcFields DEF Running, ClientInv, NetInv, Awaits
  <2>2. /\ value \in Values
        /\ ok /\ m.req \in Issuing => value \in Certs /\ value.key = r.n
        /\ ok /\ m.req \in {"revoke", "gencrl"} => value \in {"crl", Empty}
    <3>1. ok /\ m.req \in Issuing => Certificate(m) \in Certs /\ Certificate(m).key = r.n
      BY <1>6, CertificateFits
    <3>2. QED
      BY <3>1 DEF Values, Marks, Issuing, Result, RevocationCRL
  <2> HIDE DEF value
  <2>4. reply \in [ok : BOOLEAN, value : Values] /\ reply.value = value /\ reply.ok = ok
    BY <2>2
  <2> HIDE DEF reply
  <2>6. x \in Proc
    BY <2>1, <2>4 DEF Proc, Pcs
  <2>7. x.pc = "reply" /\ x.n = r.n /\ x.reply = reply /\ x.req = r.req /\ x.cmd = r.cmd
    BY <2>1 DEF Proc
  <2>8. CommandFits(x, keystore)
    BY <1>6, <2>1, <2>2, <2>4, <2>7 DEF CommandFits, Proc, ReplyFits
  <2>9. /\ procs \in [Procs -> Proc] /\ procs' \in [Procs -> Proc] /\ procs'[p] = x
        /\ \A q \in Procs \ {p} : procs'[q] = procs[q]
    BY <1>1, <1>6, <2>6 DEF ClientInv, ProcsInv
  <2> HIDE DEF x
  <2>10. \A q \in Procs : (Running(q)' <=> Running(q)) /\ procs'[q].n = procs[q].n
    BY <1>1, <2>1, <2>7, <2>9 DEF Running
  <2>11. ProcsInv'
    BY <1>1, <2>8, <2>9, <2>10 DEF ClientInv, ProcsInv
  <2>12. ASSUME NEW l \in net', NEW q \in Procs, Running(q)', procs'[q].n = l.n
         PROVE  Awaits(q, l)'
    <3>1. Awaits(q, l)
      BY <1>2, <2>10, <2>12 DEF ClientInv, NetInv
    <3>2. q # p
      BY <1>2, <1>6, <2>10, <2>12
    <3>3. QED
      BY <2>9, <3>1, <3>2 DEF Awaits
  <2>13. QED
    BY <1>3, <1>4, <2>11, <2>12 DEF NetInv
<1>7. QED
  BY <1>5, <1>6
(* The certificate is issued: the message goes on as another.              *)
LEMMA IssueKeepsInv ==
    ASSUME ClientInv, NEW m \in net, Issue(m)
    PROVE  /\ ProcsInv' /\ NetInv'
           /\ srv' \in Server /\ srv'.revoked \subseteq srv'.certs /\ Does(m)
<1> DEFINE l == [m EXCEPT !.issued = TRUE]
<1>1. /\ ~m.issued /\ LogsIn(m) /\ Accepted(m) /\ srv' = Effect(m)
      /\ net' = (net \ {m}) \cup {l} /\ UNCHANGED <<procs, keystore, commands>>
  BY DEF Issue, local, history
<1>2. /\ l = [proc |-> m.proc, n |-> m.n, req |-> m.req, auth |-> m.auth, name |-> m.name,
                issued |-> TRUE]
      /\ MessageFits(m)
  <2>1. MessageFits(m)
    BY DEF ClientInv, NetInv
  <2>2. PICK k : k = m
    OBVIOUS
  <2>3. k = [proc |-> m.proc, n |-> m.n, req |-> m.req, auth |-> m.auth, name |-> m.name,
             issued |-> m.issued]
    BY <2>1, <2>2 DEF MessageFits
  <2>4. [k EXCEPT !.issued = TRUE] =
          [proc |-> m.proc, n |-> m.n, req |-> m.req, auth |-> m.auth, name |-> m.name,
           issued |-> TRUE]
    <3>1. PICK yes : yes = TRUE
      OBVIOUS
    <3>2. [k EXCEPT !.issued = yes] =
            [proc |-> m.proc, n |-> m.n, req |-> m.req, auth |-> m.auth, name |-> m.name,
             issued |-> yes]
      BY <2>3
    <3>3. QED
      BY <3>1, <3>2, Zenon
  <2>5. QED
    BY <2>1, <2>2, <2>4
<1>3. /\ l.proc = m.proc /\ l.n = m.n /\ l.req = m.req /\ l.auth = m.auth
      /\ l.name = m.name /\ l.issued = TRUE
      /\ l = [proc |-> l.proc, n |-> l.n, req |-> l.req, auth |-> l.auth, name |-> l.name,
              issued |-> l.issued]
  BY <1>2
<1> HIDE DEF l
<1>4. \A k \in net' : k = l \/ (k \in net /\ k.n # m.n)
  BY <1>1 DEF ClientInv, NetInv
<1>5. ProcsInv'
  BY <1>1 DEF ClientInv, ProcsInv, Running
<1>6. \A k \in net' : MessageFits(k)'
  <2>1. MessageFits(l)
    BY <1>1, <1>2, <1>3 DEF MessageFits, LogsIn
  <2>2. QED
    BY <1>1, <1>4, <2>1 DEF ClientInv, NetInv, MessageFits
<1>7. \A k, j \in net' : k.n = j.n => k = j
  BY <1>3, <1>4 DEF ClientInv, NetInv
<1>8. ASSUME NEW k \in net', NEW q \in Procs, Running(q)', procs'[q].n = k.n
      PROVE  Awaits(q, k)'
  <2>1. Running(q) /\ procs[q].n = k.n
    BY <1>1, <1>8 DEF Running
  <2>2. CASE k = l
    <3>1. Awaits(q, m)
      BY <1>3, <2>1, <2>2 DEF ClientInv, NetInv
    <3>2. QED
      BY <1>1, <1>3, <2>2, <3>1 DEF Awaits
  <2>3. CASE k \in net
    <3>1. Awaits(q, k)
      BY <2>1, <2>3 DEF ClientInv, NetInv
    <3>2. QED
      BY <1>1, <3>1 DEF Awaits
  <2>4. QED
    BY <1>4, <2>2, <2>3
<1>9. NetInv'
  BY <1>6, <1>7, <1>8 DEF NetInv
<1>10. QED
  BY <1>1, <1>5, <1>9, EffectDoes
-----------------------------------------------------------------------------
(* The specification.                                                      *)
LEMMA InitDisk ==
    ASSUME Init
    PROVE  DiskInv
<1>1. AdminCert \in Certs /\ AdminCert.key = 0
  BY Constants DEF AdminCert, Certs, Outside
<1>2. CASE disk = NewHome
  <2>1. DOMAIN disk = Files /\ \A f \in Files : disk[f] = Absent
    BY <1>2 DEF NewHome
  <2>2. "cert" \in Files
    BY DEF Files
  <2>3. QED
    BY <2>1, <2>2 DEF DiskInv, Holds, CertificateHasKey, Readable
<1>3. CASE disk = AdminHome
  <2>1. /\ DOMAIN disk = Files /\ disk["cfg"] = "server" /\ disk["cert"] = AdminCert
        /\ disk["keypem"] = Outside /\ disk["ipk"] = "ipk" /\ disk["cacerts"] = "chain"
        /\ \A f \in Files \ {"cfg", "cert", "keypem", "ipk", "cacerts"} : disk[f] = Absent
    BY <1>3 DEF AdminHome, NewHome, Files
  <2>2. CertificateHasKey
    BY <1>1, <2>1 DEF CertificateHasKey, Outside
  <2>3. /\ "server" \in Holds("cfg") /\ AdminCert \in Holds("cert") /\ Outside \in Holds("keypem")
        /\ "ipk" \in Holds("ipk") /\ "chain" \in Holds("cacerts")
        /\ \A f \in Files : Absent \in Holds(f)
    BY <1>1 DEF Holds, Written
  <2>4. QED
    BY <2>1, <2>2, <2>3 DEF DiskInv
<1>4. QED
  BY <1>2, <1>3 DEF Init

LEMMA InitClient ==
    ASSUME Init
    PROVE  ClientInv
<1>1. DiskInv
  BY InitDisk
<1>2. ProcsInv
  <2>1. procs = [p \in Procs |-> Idle] /\ commands = 0
    BY DEF Init
  <2>2. QED
    BY <2>1, IdleFits DEF ProcsInv, Running
<1>3. NetInv
  BY DEF Init, NetInv
<1>4. SrvInv
  <2>1. PICK registered \in SUBSET Names :
          /\ srv = [users |-> [u \in Names |-> IF u \in registered
                                                 THEN [NoUser EXCEPT !.secret = FirstSecret]
                                                 ELSE NoUser],
                    certs |-> {AdminCert}, revoked |-> {}, creds |-> {}]
          /\ known = [u \in Names |-> IF u \in registered THEN {FirstSecret} ELSE {}]
    BY DEF Init
  <2>2. /\ 0 \in -1..MaxEnrollments /\ 0 \in 0..MaxFaults /\ 0 \in 0..FirstSecret
        /\ FirstSecret \in 0..FirstSecret /\ FirstSecret \in Nat
    BY Constants
  <2>3. NoUser \in User /\ [NoUser EXCEPT !.secret = FirstSecret] \in User
    BY <2>2 DEF NoUser, User
  <2>4. AdminCert \in Certs
    BY Constants DEF AdminCert, Certs, Outside
  <2>5. srv \in Server /\ srv.revoked = {}
    BY <2>1, <2>3, <2>4 DEF Server
  <2>6. known \in [Names -> SUBSET Nat]
    BY <2>1, <2>2
  <2>7. QED
    BY <2>2, <2>5, <2>6, Constants DEF Init, SrvInv
<1>5. QED
  BY <1>1, <1>2, <1>3, <1>4 DEF ClientInv

(* The parts of the invariant that are about the server and the counters.  *)
LEMMA SrvStays ==
    ASSUME SrvInv, UNCHANGED <<srv, commands, faults, refused>>, known' \in [Names -> SUBSET Nat],
           keystore' \subseteq 1..MaxCommands
    PROVE  SrvInv'
  BY DEF SrvInv

LEMMA NextKeepsClient ==
    ASSUME ClientInv, [Next]_vars
    PROVE  ClientInv'
<1>0. /\ DiskInv /\ SrvInv /\ known \in [Names -> SUBSET Nat]
      /\ keystore \subseteq 1..MaxCommands /\ commands \in 0..MaxCommands
      /\ faults \in 0..MaxFaults
  BY DEF ClientInv, SrvInv
<1>1. ASSUME NEW p \in Procs,
             \/ ConfigInit(p) \/ ReadConfig(p) \/ CheckEnrollment(p) \/ ReadCertificate(p)
             \/ FindKey(p) \/ LoadIdentity(p)
      PROVE  ClientInv'
  <2>1. UNCHANGED <<local, remote, history>>
    BY <1>1 DEF ConfigInit, ReadConfig, CheckEnrollment, ReadCertificate, FindKey, LoadIdentity
  <2>2. \E x \in Proc : GoesOn(p, x)
    BY <1>1, ConfigInitGoesOn, ReadConfigGoesOn, CheckEnrollmentGoesOn, ReadCertificateGoesOn,
       FindKeyGoesOn, LoadIdentityGoesOn
  <2>3. ProcsInv' /\ NetInv'
    BY <2>1, <2>2, CommandGoesOn DEF local, remote, history
  <2>4. QED
    BY <1>0, <2>1, <2>3, DiskStays, SrvStays DEF ClientInv, local, remote, history
<1>2. ASSUME NEW p \in Procs, GenCSR(p)
      PROVE  ClientInv'
  <2>1. UNCHANGED <<disk, known, stored, remote, history>>
    BY <1>2 DEF GenCSR
  <2>2. (\E x \in Proc : GoesOn(p, x)) /\ keystore' = keystore \cup {procs[p].n}
    BY <1>2, GenCSRGoesOn
  <2>3. procs[p].n \in 1..MaxCommands
    <3>1. procs[p].n \in 0..MaxCommands
      BY ProcFields DEF Proc
    <3>2. procs[p].n # 0
      BY <1>2, ProcFields DEF GenCSR, CommandFits
    <3>3. QED
      BY <3>1, <3>2
  <2>4. ProcsInv' /\ NetInv'
    BY <2>1, <2>2, CommandGoesOn DEF remote, history
  <2>5. QED
    BY <1>0, <2>1, <2>2, <2>3, <2>4, DiskStays, SrvStays DEF ClientInv, remote, history
<1>3. ASSUME NEW p \in Procs, SendReq(p)
      PROVE  ClientInv'
  <2>1. UNCHANGED <<local, srv, history>>
    BY <1>3 DEF SendReq
  <2>2. QED
    BY <1>0, <1>3, <2>1, SendReqKeepsInv, DiskStays, SrvStays DEF ClientInv, local, history
<1>4. ASSUME NEW p \in Procs, Receive(p)
      PROVE  ClientInv'
  <2>1. /\ \E x \in Proc : GoesOn(p, x)
        /\ UNCHANGED <<disk, keystore, stored, remote, history>>
    BY <1>4, ReceiveGoesOn
  <2>2. ProcsInv' /\ NetInv'
    BY <2>1, CommandGoesOn DEF remote, history
  <2>3. known' \in [Names -> SUBSET Nat]
    <3>1. CASE ReceiveRegister(p)
      <4>1. known' = [known EXCEPT ![procs[p].cmd.name] = @ \cup {procs[p].n}]
        BY <3>1 DEF ReceiveRegister
      <4>2. procs[p].n \in Nat
        <5>1. procs[p].n \in 0..MaxCommands
          BY ProcFields DEF Proc
        <5>2. QED
          BY <5>1
      <4>3. QED
        BY <1>0, <4>1, <4>2
    <3>2. CASE ~ReceiveRegister(p)
      BY <1>0, <1>4, <3>2 DEF Receive, ReceiveError, ReceiveNonce, RewriteConfig, ReceiveReenroll,
         ReceiveRevoke, ReceiveGenCRL, ReceiveGetCAInfo, ReceiveAnswer, local
    <3>3. QED
      BY <3>1, <3>2
  <2>4. QED
    BY <1>0, <2>1, <2>2, <2>3, DiskStays, SrvStays DEF ClientInv, remote, history
<1>5. ASSUME NEW p \in Procs, Truncate(p) \/ Fill(p)
      PROVE  ClientInv'
  <2>1. UNCHANGED <<keystore, known, remote, history>>
    BY <1>5 DEF Truncate, Fill
  <2>2. (\E x \in Proc : GoesOn(p, x)) /\ DiskInv'
    BY <1>5, TruncateGoesOn, FillGoesOn
  <2>3. ProcsInv' /\ NetInv'
    BY <2>1, <2>2, CommandGoesOn DEF remote, history
  <2>4. QED
    BY <1>0, <2>1, <2>2, <2>3, SrvStays DEF ClientInv, remote, history
<1>6. ASSUME NEW p \in Procs, Fault(p)
      PROVE  ClientInv'
  <2>1. /\ Ends(p) /\ faults < MaxFaults /\ faults' = faults + 1
        /\ UNCHANGED <<local, remote, commands, refused>>
    BY <1>6 DEF Fault
  <2>2. ProcsInv' /\ NetInv'
    BY <2>1, EndsGoesOn, CommandGoesOn DEF local, remote
  <2>3. faults' \in 0..MaxFaults
    BY <1>0, <2>1, Constants
  <2>4. QED
    BY <1>0, <2>1, <2>2, <2>3, DiskStays DEF ClientInv, SrvInv, local, remote
<1>7. ASSUME NEW p \in Procs, NEW c \in Commands, Begin(p, c)
      PROVE  ClientInv'
  <2>1. /\ commands < MaxCommands /\ commands' = commands + 1
        /\ UNCHANGED <<local, remote, faults, refused>>
    BY <1>7 DEF Begin
  <2>2. commands' \in 0..MaxCommands
    BY <1>0, <2>1, Constants
  <2>3. QED
    BY <1>0, <1>7, <2>1, <2>2, BeginKeepsInv, DiskStays DEF ClientInv, SrvInv, local, remote
<1>8. ASSUME NEW m \in net, Handle(m) \/ LoginComplete(m) \/ ServerFault(m)
      PROVE  ClientInv'
  <2>1. /\ srv' \in Server /\ srv'.revoked \subseteq srv'.certs
        /\ UNCHANGED <<disk, keystore, known, stored, commands>>
        /\ faults' \in 0..MaxFaults /\ refused' \in Nat
    BY <1>8, ServerDoes
  <2>2. PICK ok \in BOOLEAN : Answers(m, ok) /\ (ok => Accepted(m) \/ m.issued)
    BY <1>8, ServerDoes
  <2>3. ProcsInv' /\ NetInv'
    BY <2>1, <2>2, AnswersKeepsInv
  <2>4. QED
    BY <1>0, <2>1, <2>3, DiskStays DEF ClientInv, SrvInv
<1>11. ASSUME NEW m \in net, Issue(m)
      PROVE  ClientInv'
  <2>1. UNCHANGED <<local, history>>
    BY <1>11 DEF Issue
  <2>2. QED
    BY <1>0, <1>11, <2>1, IssueKeepsInv, DiskStays DEF ClientInv, SrvInv, local, history
<1>9. ASSUME UNCHANGED vars
      PROVE  ClientInv'
  <2>1. UNCHANGED <<disk, keystore, procs, net, srv, known, stored, commands, faults, refused>>
    BY <1>9 DEF vars
  <2>2. ProcsInv'
    BY <2>1 DEF ClientInv, ProcsInv, Running
  <2>3. NetInv'
    BY <2>1 DEF ClientInv, NetInv, MessageFits, Awaits, Running
  <2>4. QED
    BY <1>0, <2>1, <2>2, <2>3, DiskStays, SrvStays DEF ClientInv
<1>10. QED
  BY <1>1, <1>2, <1>3, <1>4, <1>5, <1>6, <1>7, <1>8, <1>9, <1>11 DEF Next, Step

(* The inductive invariant of the commands holds in every reachable state: *)
(* what a command waits for, what the network carries and what the files   *)
(* hold agree with the step the command has reached.                       *)
THEOREM ClientInvariant == Spec => []ClientInv
  BY InitClient, NextKeepsClient, PTL DEF Spec

(* The commands are where their code can be, and the files, the requests   *)
(* and the server's identities are of their kinds.                         *)
THEOREM ClientTypeCorrect == Spec => []TypeOK
<1>1. ClientInv => TypeOK
  <2>1. SUFFICES ASSUME ClientInv PROVE TypeOK
    OBVIOUS
  <2>2. DOMAIN disk = Files /\ disk["cfg"] \in {Absent, Empty, Mixed, "server", "default"}
    BY <2>1 DEF ClientInv, DiskInv, Holds, Written, Files, Marks
  <2>3. \A p \in Procs : procs[p].pc \in Pcs /\ procs[p].n \in 0..commands
    <3>1. \A p \in Procs : /\ procs[p].pc \in Pcs /\ procs[p].n \in 0..MaxCommands
                           /\ procs[p].n <= commands
      BY <2>1 DEF ClientInv, ProcsInv, Proc
    <3>2. QED
      BY <2>1, <3>1 DEF ClientInv, SrvInv
  <2>4. \A m \in net : m.proc \in Procs /\ m.n \in 1..commands
    BY <2>1 DEF ClientInv, NetInv, MessageFits
  <2>5. \A u \in Names : srv.users[u].state \in -1..MaxEnrollments
    BY <2>1 DEF ClientInv, SrvInv, Server, User
  <2>6. QED
    BY <2>1, <2>2, <2>3, <2>4, <2>5 DEF TypeOK, ClientInv, SrvInv
<1>2. QED
  BY <1>1, ClientInvariant, PTL

(* The certificate in the file has its private key: it is in the keystore  *)
(* or in key.pem, whichever commands were killed or ran at the same time.  *)
THEOREM CertificateAlwaysHasKey == Spec => []CertificateHasKey
<1>1. ClientInv => CertificateHasKey
  BY DEF ClientInv, DiskInv
<1>2. QED
  BY <1>1, ClientInvariant, PTL
-----------------------------------------------------------------------------
(* What is lost.                                                           *)

(* A command that goes on: what was done for it has to be accounted for.   *)
LEMMA AccountGoesOn ==
    ASSUME ClientInv, FreshInv, OneEffectInv, OwedInv, NEW p \in Procs, NEW x \in Proc,
           procs' = [procs EXCEPT ![p] = x], x = Idle \/ x.n = procs[p].n,
           x.pc # "idle" /\ NotServed(x) => Fresh(x.n), x.pc # "idle" => Owes(x)',
           UNCHANGED <<net, srv, commands>>, stored \subseteq stored',
           \A u \in Names : known[u] \subseteq known'[u]
    PROVE  FreshInv' /\ OneEffectInv' /\ OwedInv'
<1>1. /\ procs'[p] = x /\ \A q \in Procs \ {p} : procs'[q] = procs[q]
  BY DEF ClientInv, ProcsInv
<1>2. Issued' = Issued /\ Lost' \subseteq Lost
  BY DEF Lost, Issued
<1>3. \A n : Fresh(n)' <=> Fresh(n)
  BY <1>2 DEF Fresh
<1>4. OneEffectInv'
  BY <1>2 DEF OneEffectInv
<1>5. FreshInv'
  <2>1. ASSUME NEW q \in Procs, Running(q)', NotServed(procs[q])'
        PROVE  Fresh(procs[q].n)'
    <3>1. CASE q = p
      BY <1>1, <1>3, <2>1, <3>1 DEF Running, NotServed, Told
    <3>2. CASE q # p
      BY <1>1, <1>3, <2>1, <3>2 DEF Running, NotServed, Told, FreshInv
    <3>3. QED
      BY <3>1, <3>2
  <2>2. \A m \in net : Pending(m)' <=> Pending(m)
    BY <1>2 DEF Pending
  <2>3. QED
    BY <1>3, <2>1, <2>2 DEF FreshInv
<1>6. ASSUME NEW q \in Procs, Running(q)'
      PROVE  Owes(procs[q])'
  <2>1. CASE q = p
    BY <1>1, <1>6, <2>1 DEF Running, Owes, Told
  <2>2. CASE q # p
    <3>1. procs'[q] = procs[q] /\ Owes(procs[q])
      BY <1>1, <1>6, <2>2 DEF Running, OwedInv
    <3>2. QED
      BY <1>2, <3>1 DEF Owes
  <2>3. QED
    BY <2>1, <2>2
<1>7. QED
  BY <1>4, <1>5, <1>6 DEF OwedInv

(* The numbers of the commands that run.                                   *)
LEMMA NumbersGoOn ==
    ASSUME ClientInv, NEW p \in Procs, NEW x \in Proc, procs' = [procs EXCEPT ![p] = x],
           Running(p), x = Idle \/ (x.pc \notin {"idle", "reply"} /\ x.n = procs[p].n)
    PROVE  /\ x # Idle /\ Working(p) => WorkingNumbers' = WorkingNumbers
           /\ ~Working(p) => WorkingNumbers \subseteq WorkingNumbers'
           /\ WorkingNumbers \subseteq WorkingNumbers' \cup {procs[p].n}
           /\ procs[p].n \in 1..commands
<1>1. /\ procs'[p] = x /\ \A q \in Procs \ {p} : procs'[q] = procs[q]
  BY DEF ClientInv, ProcsInv
<1>2. \A q \in Procs \ {p} : (Working(q)' <=> Working(q)) /\ procs'[q].n = procs[q].n
  BY <1>1 DEF Working, Running
<1>3. x # Idle /\ Working(p) =>
        \A q \in Procs : (Working(q)' <=> Working(q)) /\ procs'[q].n = procs[q].n
  BY <1>1, <1>2 DEF Working, Running
<1>4. x # Idle /\ Working(p) => WorkingNumbers' = WorkingNumbers
  BY <1>3 DEF WorkingNumbers
<1>5. /\ WorkingNumbers \subseteq WorkingNumbers' \cup {procs[p].n}
      /\ ~Working(p) => WorkingNumbers \subseteq WorkingNumbers'
  BY <1>1, <1>2 DEF WorkingNumbers
<1>6. procs[p].n \in 1..commands
  <2>1. procs[p].n \in 0..MaxCommands /\ procs[p].n <= commands /\ procs[p].n # 0
    BY ProcFields DEF Proc, CommandFits, Running, ClientInv, ProcsInv
  <2>2. QED
    BY <2>1 DEF ClientInv, SrvInv
<1>7. QED
  BY <1>4, <1>5, <1>6

LEMMA AccountStep ==
    ASSUME ClientInv, AccountInv, NEW p \in Procs, NEW x \in Proc, GoesOn(p, x),
           Working(p), procs[p].pc # "await", NEW n, n = procs[p].n,
           x # Idle /\ NotServed(x) => Fresh(n), x # Idle => Owes(x)', x = Idle => Kept(n)',
           UNCHANGED <<net, srv, commands, faults, refused>>, stored \subseteq stored',
           \A u \in Names : known[u] \subseteq known'[u]
    PROVE  AccountInv'
<1>1. /\ procs' = [procs EXCEPT ![p] = x] /\ Running(p)
      /\ x = Idle \/ (x.pc \notin {"idle", "reply"} /\ x.n = procs[p].n)
      /\ (x.pc # "idle" => x # Idle)
  BY IdleFits DEF GoesOn, Working
<1>2. FreshInv' /\ OneEffectInv' /\ OwedInv'
  <2>1. x.pc # "idle" /\ NotServed(x) => Fresh(x.n)
    BY <1>1
  <2>2. QED
    BY <1>1, <2>1, AccountGoesOn DEF AccountInv
<1>3. PICK dead \in SUBSET (1..commands) :
        Cardinality(dead) <= faults + refused /\ Covers(dead \cup WorkingNumbers)
  BY DEF AccountInv, LossInv
<1>4. /\ x # Idle => WorkingNumbers' = WorkingNumbers
      /\ WorkingNumbers \subseteq WorkingNumbers' \cup {procs[p].n}
  BY <1>1, NumbersGoOn
<1>5. Lost' \subseteq Lost /\ Unreachable' \subseteq Unreachable
  BY DEF Lost, Issued, Unreachable
<1>6. \A m \in net : m.n # procs[p].n
  BY <1>1 DEF ClientInv, NetInv, Awaits
<1>7. Covers(dead \cup WorkingNumbers)'
  <2>1. CASE x # Idle
    BY <1>3, <1>4, <1>5, <2>1 DEF Covers
  <2>2. CASE x = Idle
    BY <1>3, <1>4, <1>5, <1>6, <2>2 DEF Covers, Kept
  <2>3. QED
    BY <2>1, <2>2
<1>8. QED
  BY <1>2, <1>3, <1>7 DEF AccountInv, LossInv

(* Nothing was done for the command yet: any step will do.                 *)
LEMMA FreshStep ==
    ASSUME ClientInv, AccountInv, NEW p \in Procs, \E x \in Proc : GoesOn(p, x),
           Running(p), procs[p].pc # "await", NotServed(procs[p]),
           UNCHANGED <<net, srv, commands, faults, refused>>, stored \subseteq stored',
           \A u \in Names : known[u] \subseteq known'[u]
    PROVE  AccountInv'
<1>1. PICK x \in Proc : GoesOn(p, x)
  OBVIOUS
<1>2. Fresh(procs[p].n) /\ (x = Idle \/ x.n = procs[p].n)
  BY <1>1 DEF AccountInv, FreshInv, GoesOn
<1>3. Lost' \subseteq Issued /\ Issued' = Issued /\ Unreachable' \subseteq Names
  BY DEF Lost, Issued, Unreachable
<1>4. x # Idle => Owes(x)'
  BY <1>2, <1>3 DEF Owes, Fresh
<1>5. PICK n : n = procs[p].n
  OBVIOUS
<1>6. Kept(n)'
  BY <1>2, <1>3, <1>5 DEF Kept, Fresh
<1>7. Working(p)
  BY DEF Working, NotServed, Told
<1>8. QED
  BY <1>1, <1>2, <1>4, <1>5, <1>6, <1>7, AccountStep

(* A command that got an error ends: it was counted when it got it.        *)
LEMMA ErrorStep ==
    ASSUME ClientInv, AccountInv, NEW p \in Procs, ReceiveError(p)
    PROVE  AccountInv'
<1>1. /\ Running(p) /\ ~Working(p) /\ procs' = [procs EXCEPT ![p] = Idle]
      /\ UNCHANGED <<known, stored, net, srv, commands, faults, refused>>
  BY DEF ReceiveError, Running, Working, Ends, Continues, local, remote, history
<1>2. Idle \in Proc /\ Idle.pc = "idle" /\ \A u \in Names : known[u] \subseteq known'[u]
  BY <1>1, IdleFits
<1>3. FreshInv' /\ OneEffectInv' /\ OwedInv'
  BY <1>1, <1>2, AccountGoesOn DEF AccountInv
<1>4. PICK dead \in SUBSET (1..commands) :
        Cardinality(dead) <= faults + refused /\ Covers(dead \cup WorkingNumbers)
  BY DEF AccountInv, LossInv
<1>5. WorkingNumbers \subseteq WorkingNumbers'
  BY <1>1, <1>2, NumbersGoOn
<1>6. Lost' = Lost /\ Unreachable' = Unreachable
  BY <1>1 DEF Lost, Issued, Unreachable
<1>7. Covers(dead \cup WorkingNumbers)'
  BY <1>1, <1>4, <1>5, <1>6 DEF Covers
<1>8. QED
  BY <1>1, <1>3, <1>4, <1>7 DEF AccountInv, LossInv

(* What was issued is on the list of the files to write.                   *)
LEMMA StoringStep ==
    ASSUME ClientInv, AccountInv, NEW p \in Procs, Answered(p, Issuing),
           NEW plan \in Seq(Entries), PlanFits(plan, keystore), RootFollows(plan),
           Writes(p, plan),
           NEW i \in DOMAIN plan, plan[i] = Store(procs[p])[1],
           UNCHANGED <<local, remote, history>>
    PROVE  AccountInv'
<1> DEFINE r == procs[p]
<1>1. r \in Proc /\ r.pc = "reply" /\ r.req \in Issuing /\ Running(p) /\ Working(p) /\ Told(r)
  BY ProcFields DEF Answered, Running, Working, Told
<1>2. UNCHANGED <<disk, keystore, known, stored, net, srv, commands, faults, refused>>
  BY DEF local, remote, history
<1>3. PICK x \in Proc : GoesOn(p, x)
  BY <1>1, <1>2, WritesGoesOn
<1>4. x = [r EXCEPT !.pc = "write", !.plan = plan]
  <2>1. procs' = [procs EXCEPT ![p] = [r EXCEPT !.pc = "write", !.plan = plan]]
    BY DEF Writes, Continues
  <2>2. procs' = [procs EXCEPT ![p] = x]
    BY <1>3 DEF GoesOn
  <2>3. QED
    BY <2>1, <2>2 DEF ClientInv, ProcsInv
<1>5. x.pc = "write" /\ x.n = r.n /\ x.req = r.req /\ x.plan = plan /\ x # Idle
  BY <1>1, <1>4, IdleFits DEF Proc
<1>6. Store(r)[1] = [file |-> IF r.req = "credential" THEN "cred" ELSE "cert",
                     value |-> r.reply.value]
  BY StorePlan
<1>7. Owes(r)
  BY <1>1 DEF AccountInv, OwedInv
<1>8. Owes(x)'
  <2>1. Lost' = Lost /\ Issued' = Issued
    BY <1>2 DEF Lost, Issued
  <2>2. \A e \in Lost : e.value.key = r.n => plan[i] = e
    BY <1>1, <1>6, <1>7 DEF Owes
  <2>3. \A u \in Names : srv.users[u].secret # r.n
    BY <1>1, <1>7 DEF Owes
  <2>4. QED
    BY <1>2, <1>5, <2>1, <2>2, <2>3 DEF Owes, Told
<1>9. ~NotServed(x)
  BY <1>1, <1>5 DEF NotServed, Told
<1>10. \A u \in Names : known[u] \subseteq known'[u]
  BY <1>2
<1>11. PICK n : n = r.n
  OBVIOUS
<1>12. QED
  BY <1>1, <1>2, <1>3, <1>5, <1>8, <1>9, <1>10, <1>11, AccountStep

LEMMA AccountEnroll ==
    ASSUME ClientInv, AccountInv, NEW p \in Procs, RewriteConfig(p) \/ ReceiveReenroll(p)
    PROVE  AccountInv'
<1> DEFINE cfg == <<[file |-> "cfg", value |-> disk["cfg"]]>>
           str == Store(procs[p])
           chain == storeCAChain(procs[p])
<1>1. Answered(p, Issuing) /\ UNCHANGED <<local, remote, history>>
  BY DEF RewriteConfig, ReceiveReenroll, Answered, Issuing
<1>2. str \in Seq(Entries) /\ PlanFits(str, keystore) /\ 1 \in DOMAIN str
  BY <1>1, StorePlan
<1>3. chain \in Seq(Entries) /\ PlanFits(chain, keystore)
  BY ChainPlan
<1>4. Writes(p, (cfg \o str) \o chain) \/ Writes(p, str \o chain)
  BY DEF RewriteConfig, ReceiveReenroll
<1>5. cfg \in Seq(Entries) /\ PlanFits(cfg, keystore) /\ Len(cfg) = 1
  <2>1. disk["cfg"] \in Marks \cup {"server", "default"}
    BY DEF ClientInv, DiskInv, Holds, Written, Files, Marks
  <2>2. QED
    BY <2>1 DEF Entries, Values, Planned, Files, PlanFits, Written
<1> HIDE DEF cfg, str, chain
<1>6. /\ cfg \o str \in Seq(Entries) /\ PlanFits(cfg \o str, keystore)
      /\ str \o chain \in Seq(Entries) /\ PlanFits(str \o chain, keystore)
  BY <1>2, <1>3, <1>5, PlansFit
<1>7. (cfg \o str) \o chain \in Seq(Entries) /\ PlanFits((cfg \o str) \o chain, keystore)
  BY <1>3, <1>6, PlansFit
<1>8. 1 \in DOMAIN (str \o chain) /\ (str \o chain)[1] = str[1]
  BY <1>2, <1>3, Concatenation
<1>9. 1 + 1 \in DOMAIN (cfg \o str) /\ (cfg \o str)[1 + 1] = str[1]
  BY <1>2, <1>5, Concatenation
<1>10. 1 + 1 \in DOMAIN ((cfg \o str) \o chain) /\ ((cfg \o str) \o chain)[1 + 1] = str[1]
  BY <1>3, <1>6, <1>9, Concatenation
<1>11. RootFollows((cfg \o str) \o chain) /\ RootFollows(str \o chain)
  BY <1>2, <1>6, ChainFollows DEF chain
<1>12. QED
  BY <1>1, <1>4, <1>6, <1>7, <1>8, <1>10, <1>11, StoringStep DEF str

LEMMA AccountRegister ==
    ASSUME ClientInv, AccountInv, NEW p \in Procs, ReceiveRegister(p)
    PROVE  AccountInv'
<1> DEFINE r == procs[p]
<1>1. /\ r.pc = "reply" /\ r.req = "register" /\ Running(p) /\ Told(r) /\ Working(p)
      /\ r.cmd.name \in Names
      /\ known' = [known EXCEPT ![r.cmd.name] = @ \cup {r.n}]
      /\ Ends(p) /\ UNCHANGED <<disk, keystore, stored, net, srv, commands, faults, refused>>
  BY ProcFields DEF ReceiveRegister, Answered, Running, Working, Told, remote, history
<1>2. known \in [Names -> SUBSET Nat]
  BY DEF ClientInv, SrvInv
<1>3. Owes(r)
  BY <1>1 DEF AccountInv, OwedInv
<1>4. PICK n : n = r.n
  OBVIOUS
<1>5. Kept(n)'
  <2>1. Lost' = Lost /\ Lost \subseteq Issued
    BY <1>1 DEF Lost, Issued
  <2>2. \A e \in Lost : e.value.key # n
    BY <1>1, <1>3, <1>4, <2>1 DEF Owes
  <2>3. ASSUME NEW u \in Unreachable', srv'.users[u].secret = n
        PROVE  FALSE
    <3>1. u \in Names /\ srv.users[u].secret = n /\ n \notin known'[u]
      BY <1>1, <2>3 DEF Unreachable
    <3>2. u = r.cmd.name
      BY <1>1, <1>3, <1>4, <3>1 DEF Owes
    <3>3. QED
      BY <1>1, <1>2, <1>4, <3>1, <3>2
  <2>4. QED
    BY <2>1, <2>2, <2>3 DEF Kept
<1>6. \A u \in Names : known[u] \subseteq known'[u]
  BY <1>1, <1>2
<1>7. Idle \in Proc /\ GoesOn(p, Idle)
  BY <1>1, IdleFits DEF GoesOn, Ends, Continues
<1>8. QED
  BY <1>1, <1>4, <1>5, <1>6, <1>7, AccountStep

LEMMA AccountReceive ==
    ASSUME ClientInv, AccountInv, NEW p \in Procs, Receive(p)
    PROVE  AccountInv'
<1>1. CASE RewriteConfig(p) \/ ReceiveReenroll(p)
  BY <1>1, AccountEnroll
<1>2. CASE ReceiveRegister(p)
  BY <1>2, AccountRegister
<1>3. CASE \/ ReceiveNonce(p) \/ ReceiveRevoke(p) \/ ReceiveGenCRL(p)
           \/ ReceiveGetCAInfo(p) \/ ReceiveAnswer(p)
  <2>1. NotServed(procs[p]) /\ UNCHANGED <<local, remote, history>>
    BY <1>3 DEF NotServed, Told, Answered, ReceiveNonce, ReceiveRevoke, ReceiveGenCRL,
                ReceiveGetCAInfo, ReceiveAnswer, Issuing
  <2>2. (\E x \in Proc : GoesOn(p, x)) /\ procs[p].pc = "reply"
    BY ReceiveGoesOn
  <2>3. UNCHANGED <<known, stored, net, srv, commands, faults, refused>>
    BY <2>1 DEF local, remote, history
  <2>4. Running(p) /\ procs[p].pc # "await"
    BY <2>2 DEF Running
  <2>5. stored \subseteq stored' /\ \A u \in Names : known[u] \subseteq known'[u]
    BY <2>3
  <2>6. QED
    BY <2>1, <2>2, <2>3, <2>4, <2>5, FreshStep
<1>4. QED
  BY <1>1, <1>2, <1>3, ErrorStep DEF Receive

LEMMA AccountTruncate ==
    ASSUME ClientInv, AccountInv, NEW p \in Procs, Truncate(p)
    PROVE  AccountInv'
<1> DEFINE r == procs[p]
<1>1. /\ r.pc = "write" /\ Running(p) /\ Working(p) /\ r \in Proc
      /\ procs' = [procs EXCEPT ![p] = [r EXCEPT !.pc = "fill"]]
      /\ UNCHANGED <<known, stored, net, srv, commands, faults, refused>>
  BY ProcFields DEF Truncate, Continues, Running, Working, remote, history
<1>2. PICK x \in Proc : GoesOn(p, x)
  BY TruncateGoesOn
<1>3. x.pc = "fill" /\ x.n = r.n /\ x.req = r.req /\ x.plan = r.plan /\ x # Idle
  <2>1. x = [r EXCEPT !.pc = "fill"]
    BY <1>1, <1>2 DEF GoesOn, ClientInv, ProcsInv
  <2>2. QED
    BY <1>1, <2>1, IdleFits DEF Proc
<1>4. Owes(x)'
  <2>1. Lost' = Lost /\ Issued' = Issued /\ Owes(r)
    BY <1>1 DEF Lost, Issued, AccountInv, OwedInv
  <2>2. QED
    BY <1>1, <1>3, <2>1 DEF Owes, Told
<1>5. NotServed(x) => Fresh(r.n)
  BY <1>1, <1>3 DEF NotServed, Told, AccountInv, FreshInv
<1>6. PICK n : n = r.n
  OBVIOUS
<1>7. \A u \in Names : known[u] \subseteq known'[u]
  BY <1>1
<1>8. QED
  BY <1>1, <1>2, <1>3, <1>4, <1>5, <1>6, <1>7, AccountStep

LEMMA AccountFill ==
    ASSUME ClientInv, AccountInv, NEW p \in Procs, Fill(p)
    PROVE  AccountInv'
<1> DEFINE r == procs[p]
           w == Head(r.plan)
<1>1. /\ r.pc = "fill" /\ Running(p) /\ Working(p) /\ r \in Proc /\ CommandFits(r, keystore)
      /\ r.plan \in Seq(Entries) /\ r.plan # <<>> /\ 1 \in DOMAIN r.plan /\ w = r.plan[1]
      /\ UNCHANGED <<known, net, srv, commands, faults, refused>>
      /\ stored' = IF w.file \in {"cert", "cred"} THEN stored \cup {w} ELSE stored
  BY HeadOfPlan DEF Fill, Writing, Running, Working, remote, history
<1>2. PICK x \in Proc : GoesOn(p, x)
  BY FillGoesOn
<1>3. stored \subseteq stored' /\ \A u \in Names : known[u] \subseteq known'[u]
  BY <1>1
<1>4. CASE r.req \notin Issuing
  <2>1. NotServed(r)
    BY <1>1, <1>4 DEF NotServed, Told
  <2>2. QED
    BY <1>1, <1>2, <1>3, <2>1, FreshStep
<1>5. CASE r.req \in Issuing
  <2>1. Owes(r) /\ r.next = "idle"
    BY <1>1, <1>5 DEF AccountInv, OwedInv, Proc, CommandFits, Issuing
  <2>2. \/ /\ Len(r.plan) > 1
           /\ procs' = [procs EXCEPT ![p] = [r EXCEPT !.pc = "write", !.plan = Tail(@)]]
        \/ Len(r.plan) = 1 /\ procs' = [procs EXCEPT ![p] = Idle]
    <3>1. \/ /\ Len(r.plan) > 1
             /\ procs' = [procs EXCEPT ![p] = [r EXCEPT !.pc = "write", !.plan = Tail(@)]]
          \/ ~(Len(r.plan) > 1) /\ procs' = [procs EXCEPT ![p] = Idle]
      BY <2>1 DEF Fill, Continues, Ends
    <3>2. Len(r.plan) > 1 \/ Len(r.plan) = 1
      <4>1. r.plan \in Seq(Entries) /\ 1 \in DOMAIN r.plan
        BY <1>1
      <4>2. Len(r.plan) \in Nat /\ Len(r.plan) >= 1
        BY <4>1
      <4>3. \A k \in Nat : k >= 1 => k > 1 \/ k = 1
        OBVIOUS
      <4>4. QED
        BY <4>2, <4>3, Zenon
    <3>3. QED
      BY <3>1, <3>2
  <2>3. PICK n : n = r.n
    OBVIOUS
  <2>4. \A u \in Names : srv.users[u].secret # n
    BY <1>1, <1>5, <2>1, <2>3 DEF Owes, Told
  <2>5. ASSUME NEW e \in Lost', e.value.key = n
        PROVE  \E i \in DOMAIN r.plan : i # 1 /\ r.plan[i] = e
    <3>1. e \in Lost /\ e \in Issued /\ e \notin stored'
      BY <1>1, <2>5 DEF Lost, Issued
    <3>2. e.file \in {"cert", "cred"}
      BY <3>1 DEF Issued
    <3>3. e # w
      BY <1>1, <3>1, <3>2
    <3>4. PICK i \in DOMAIN r.plan : r.plan[i] = e
      BY <1>1, <1>5, <2>1, <2>3, <2>5, <3>1 DEF Owes, Told
    <3>5. QED
      BY <1>1, <3>3, <3>4
  <2>6. procs'[p] = x
    BY <1>2 DEF GoesOn, ClientInv, ProcsInv
  <2>7. CASE Len(r.plan) = 1 /\ procs' = [procs EXCEPT ![p] = Idle]
    <3>1. x = Idle
      BY <2>6, <2>7 DEF ClientInv, ProcsInv
    <3>2. \A i \in DOMAIN r.plan : i = 1
      BY <1>1, <2>7
    <3>3. Kept(n)'
      <4>1. \A u \in Unreachable' : srv'.users[u].secret # n
        BY <1>1, <2>4 DEF Unreachable
      <4>2. QED
        BY <2>5, <3>2, <4>1 DEF Kept
    <3>4. QED
      BY <1>1, <1>2, <1>3, <2>3, <3>1, <3>3, AccountStep
  <2>8. CASE /\ Len(r.plan) > 1
             /\ procs' = [procs EXCEPT ![p] = [r EXCEPT !.pc = "write", !.plan = Tail(@)]]
    <3>1. x = [r EXCEPT !.pc = "write", !.plan = Tail(@)]
      BY <2>6, <2>8 DEF ClientInv, ProcsInv
    <3>2. /\ x.pc = "write" /\ x.n = n /\ x.req = r.req /\ x.plan = Tail(r.plan) /\ x # Idle
      BY <1>1, <2>3, <3>1, IdleFits DEF Proc
    <3>3. \A i \in DOMAIN r.plan : i # 1 => \E j \in DOMAIN x.plan : x.plan[j] = r.plan[i]
      <4>1. \A i \in DOMAIN r.plan : i # 1 => i > 1
        BY <1>1
      <4>2. QED
        BY <1>1, <2>8, <3>2, <4>1, RestOfPlan
    <3>4. Owes(x)'
      <4>1. \A e \in Lost' : e.value.key = n => \E j \in DOMAIN x.plan : x.plan[j] = e
        BY <2>5, <3>3
      <4>2. QED
        BY <1>1, <1>5, <2>4, <3>2, <4>1 DEF Owes, Told
    <3>5. ~NotServed(x)
      BY <1>5, <3>2 DEF NotServed, Told
    <3>6. QED
      BY <1>1, <1>2, <1>3, <2>3, <3>2, <3>4, <3>5, AccountStep
  <2>9. QED
    BY <2>2, <2>7, <2>8
<1>6. QED
  BY <1>4, <1>5

(* A command that is killed takes one loss with it at most.                *)
LEMMA AccountFault ==
    ASSUME ClientInv, AccountInv, NEW p \in Procs, Fault(p)
    PROVE  AccountInv'
<1>1. /\ Running(p) /\ faults' = faults + 1 /\ procs' = [procs EXCEPT ![p] = Idle]
      /\ UNCHANGED <<known, stored, net, srv, commands, refused>>
  BY DEF Fault, Ends, Continues, local, remote
<1>2. Idle \in Proc /\ Idle.pc = "idle" /\ \A u \in Names : known[u] \subseteq known'[u]
  BY <1>1, IdleFits
<1>3. FreshInv' /\ OneEffectInv' /\ OwedInv'
  BY <1>1, <1>2, AccountGoesOn DEF AccountInv
<1>4. PICK dead \in SUBSET (1..commands) :
        Cardinality(dead) <= faults + refused /\ Covers(dead \cup WorkingNumbers)
  BY DEF AccountInv, LossInv
<1>5. PICK n \in 1..commands : WorkingNumbers \subseteq WorkingNumbers' \cup {n}
  BY <1>1, <1>2, NumbersGoOn
<1>6. dead \cup {n} \in SUBSET (1..commands)
  OBVIOUS
<1>7. Cardinality(dead \cup {n}) <= faults' + refused'
  <2>1. commands \in Nat /\ faults \in Nat /\ refused \in Nat
    BY DEF ClientInv, SrvInv
  <2>2. IsFiniteSet(dead)
    <3>1. IsFiniteSet(1..commands)
      BY <2>1, FS_Interval
    <3>2. QED
      BY <3>1, FS_Subset
  <2>3. Cardinality(dead) \in Nat
    BY <2>2, FS_CardinalityType
  <2>4. Cardinality(dead \cup {n}) \in {Cardinality(dead), Cardinality(dead) + 1}
    BY <2>2, FS_AddElement
  <2>5. QED
    BY <1>1, <1>4, <2>1, <2>3, <2>4
<1>8. Lost' = Lost /\ Unreachable' = Unreachable
  BY <1>1 DEF Lost, Issued, Unreachable
<1>9. Covers((dead \cup {n}) \cup WorkingNumbers)'
  BY <1>1, <1>4, <1>5, <1>8 DEF Covers
<1>10. QED
  BY <1>1, <1>3, <1>6, <1>7, <1>9 DEF AccountInv, LossInv

LEMMA AccountSendReq ==
    ASSUME ClientInv, AccountInv, NEW p \in Procs, SendReq(p)
    PROVE  AccountInv'
<1> DEFINE r == procs[p]
           m == [proc |-> p, n |-> r.n, req |-> r.req, auth |-> addAuthHeader(r),
                 name |-> r.cmd.name, issued |-> FALSE]
           x == [r EXCEPT !.pc = "await"]
<1>1. /\ r.pc = "send" /\ Running(p) /\ r \in Proc /\ NotServed(r) /\ Fresh(r.n)
      /\ UNCHANGED <<known, stored, srv, commands, faults, refused>>
      /\ \A u \in Names : known[u] \subseteq known'[u]
  BY ProcFields DEF SendReq, Running, NotServed, Told, local, history, AccountInv, FreshInv
<1>2. CASE Ends(p) /\ UNCHANGED net
  BY <1>1, <1>2, EndsGoesOn, FreshStep
<1>3. CASE net' = net \cup {m} /\ procs' = [procs EXCEPT ![p] = x]
  <2>1. x \in Proc /\ x.pc = "await" /\ x.n = r.n /\ m.n = r.n /\ ~m.issued
    BY <1>1 DEF Proc, Pcs
  <2> HIDE DEF m, x
  <2>2. /\ procs'[p] = x /\ \A q \in Procs \ {p} : procs'[q] = procs[q]
    BY <1>3 DEF ClientInv, ProcsInv
  <2>3. Issued' = Issued /\ Lost' = Lost /\ Unreachable' = Unreachable
    BY <1>1 DEF Lost, Issued, Unreachable
  <2>4. \A n : Fresh(n)' <=> Fresh(n)
    BY <1>1, <2>3 DEF Fresh
  <2>5. FreshInv'
    <3>1. \A l \in net' : IF l.issued THEN Pending(l)' ELSE Fresh(l.n)'
      BY <1>1, <1>3, <2>1, <2>3, <2>4 DEF AccountInv, FreshInv, Pending
    <3>2. ASSUME NEW q \in Procs, Running(q)', NotServed(procs[q])'
          PROVE  Fresh(procs[q].n)'
      <4>1. CASE q = p
        BY <1>1, <2>1, <2>2, <2>4, <4>1
      <4>2. CASE q # p
        BY <2>2, <2>4, <3>2, <4>2 DEF AccountInv, FreshInv, Running, NotServed, Told
      <4>3. QED
        BY <4>1, <4>2
    <3>3. QED
      BY <1>1, <2>4, <3>1, <3>2 DEF AccountInv, FreshInv
  <2>6. OneEffectInv'
    BY <1>1, <2>3 DEF AccountInv, OneEffectInv
  <2>7. ASSUME NEW q \in Procs, Running(q)'
        PROVE  Owes(procs[q])'
    <3>1. CASE q = p
      BY <2>1, <2>2, <3>1 DEF Owes, Told
    <3>2. CASE q # p
      <4>1. procs'[q] = procs[q] /\ Owes(procs[q])
        BY <2>2, <2>7, <3>2 DEF Running, AccountInv, OwedInv
      <4>2. QED
        BY <1>1, <2>3, <4>1 DEF Owes, Told
    <3>3. QED
      BY <3>1, <3>2
  <2>8. LossInv'
    <3>1. PICK dead \in SUBSET (1..commands) :
            Cardinality(dead) <= faults + refused /\ Covers(dead \cup WorkingNumbers)
      BY DEF AccountInv, LossInv
    <3>2. WorkingNumbers' = WorkingNumbers
      <4>1. x # Idle
        BY <2>1, IdleFits
      <4>2. QED
        BY <1>1, <1>3, <2>1, <4>1, NumbersGoOn DEF Working
    <3>3. m.n \in WorkingNumbers
      BY <1>1, <2>1 DEF WorkingNumbers, Working
    <3>4. Covers(dead \cup WorkingNumbers)'
      BY <1>1, <1>3, <2>3, <3>1, <3>2, <3>3 DEF Covers
    <3>5. QED
      BY <1>1, <3>1, <3>4 DEF LossInv
  <2>9. QED
    BY <2>5, <2>6, <2>7, <2>8 DEF AccountInv, OwedInv
<1>4. QED
  BY <1>2, <1>3 DEF SendReq, Continues

LEMMA AccountBegin ==
    ASSUME ClientInv, AccountInv, NEW p \in Procs, NEW c \in Commands, Begin(p, c)
    PROVE  AccountInv'
<1>1. /\ ~Running(p) /\ commands < MaxCommands /\ commands' = commands + 1
      /\ UNCHANGED <<known, stored, net, srv, faults, refused>>
      /\ commands \in 0..MaxCommands /\ faults \in 0..MaxFaults
  BY DEF Begin, local, remote, ClientInv, SrvInv
<1>2. PICK s : procs' = [procs EXCEPT ![p] =
                          [Idle EXCEPT !.pc = "config", !.n = commands + 1, !.cmd = c,
                                       !.secret = s]]
  BY DEF Begin, Continues
<1>3. /\ procs'[p].pc = "config" /\ procs'[p].n = commands + 1
      /\ \A q \in Procs \ {p} : procs'[q] = procs[q]
  BY <1>2 DEF ClientInv, ProcsInv, Idle
<1>4. Issued' = Issued /\ Lost' = Lost /\ Unreachable' = Unreachable
  BY <1>1 DEF Lost, Issued, Unreachable
<1>5. \A n : Fresh(n)' <=> Fresh(n)
  BY <1>1, <1>4 DEF Fresh
<1>6. FreshInv'
  <2>1. \A n \in 1..MaxCommands : n > commands' => n > commands
    BY <1>1
  <2>2. Fresh(commands + 1)
    <3>1. commands + 1 \in 1..MaxCommands /\ commands + 1 > commands
      BY <1>1, Constants
    <3>2. QED
      BY <3>1 DEF AccountInv, FreshInv
  <2>3. ASSUME NEW q \in Procs, Running(q)', NotServed(procs[q])'
        PROVE  Fresh(procs[q].n)'
    <3>1. CASE q = p
      <4>1. Fresh(procs'[p].n)
        BY <1>3, <2>2
      <4>2. QED
        BY <1>5, <3>1, <4>1
    <3>2. CASE q # p
      BY <1>3, <1>5, <2>3, <3>2 DEF AccountInv, FreshInv, Running, NotServed, Told
    <3>3. QED
      BY <3>1, <3>2
  <2>4. \A m \in net : Pending(m)' <=> Pending(m)
    BY <1>1, <1>4 DEF Pending
  <2>5. QED
    BY <1>1, <1>5, <2>1, <2>3, <2>4 DEF AccountInv, FreshInv
<1>7. OneEffectInv'
  BY <1>1, <1>4 DEF AccountInv, OneEffectInv
<1>8. ASSUME NEW q \in Procs, Running(q)'
      PROVE  Owes(procs[q])'
  <2>1. CASE q = p
    BY <1>3, <2>1 DEF Owes, Told
  <2>2. CASE q # p
    <3>1. procs'[q] = procs[q] /\ Owes(procs[q])
      BY <1>3, <1>8, <2>2 DEF Running, AccountInv, OwedInv
    <3>2. QED
      BY <1>1, <1>4, <3>1 DEF Owes, Told
  <2>3. QED
    BY <2>1, <2>2
<1>9. LossInv'
  <2>1. PICK dead \in SUBSET (1..commands) :
          Cardinality(dead) <= faults + refused /\ Covers(dead \cup WorkingNumbers)
    BY DEF AccountInv, LossInv
  <2>2. WorkingNumbers \subseteq WorkingNumbers'
    BY <1>1, <1>3 DEF WorkingNumbers, Working, Running
  <2>3. dead \in SUBSET (1..commands')
    BY <1>1
  <2>4. Covers(dead \cup WorkingNumbers)'
    BY <1>1, <1>4, <2>1, <2>2 DEF Covers
  <2>5. QED
    BY <1>1, <2>1, <2>3, <2>4 DEF LossInv
<1>10. QED
  BY <1>6, <1>7, <1>8, <1>9 DEF AccountInv, OwedInv

(* What is true after the server has done something for a message.         *)
LEMMA AfterDoes ==
    ASSUME ClientInv, AccountInv, NEW m \in net, Does(m), m.issued => Nothing,
           UNCHANGED <<known, stored>>
    PROVE  /\ m.req \in Issuing =>
                (\A e \in Issued' : e.value.key = m.n => e = IssuedFor(m))
           /\ m.req \in Issuing => (\A u \in Names : srv'.users[u].secret # m.n)
           /\ m.req \notin Issuing => (\A e \in Issued' : e.value.key # m.n)
           /\ m.req = "register" =>
                (\A u \in Names : srv'.users[u].secret = m.n => u = m.name)
           /\ m.req \notin Issuing \cup {"register"} =>
                (\A u \in Names : srv'.users[u].secret # m.n)
           /\ ~m.issued /\ Nothing => Fresh(m.n)'
           /\ \A e \in Issued' : e.value.key # m.n => e \in Issued
           /\ \A u \in Names : srv'.users[u].secret \in {0, m.n, srv.users[u].secret}
           /\ OneEffectInv'
<1>1. /\ m.n # 0 /\ m.n # FirstSecret /\ m.name \in Names /\ FirstSecret # 0
      /\ m.issued \in BOOLEAN /\ (m.issued => m.req \in Issuing)
  <2>1. m.n \in 1..commands /\ commands \in 0..MaxCommands
    BY DEF ClientInv, NetInv, MessageFits, SrvInv
  <2>2. m.n # 0 /\ m.n # FirstSecret /\ FirstSecret # 0
    BY <2>1, Constants
  <2>3. QED
    BY <2>2 DEF ClientInv, NetInv, MessageFits, LogsIn, Issuing
<1>2. /\ ~m.issued => \A e \in Issued : e.value.key # m.n
      /\ \A u \in Names : srv.users[u].secret # m.n
      /\ m.issued => \A e \in Issued : e.value.key = m.n => e = IssuedFor(m)
  BY <1>1 DEF AccountInv, FreshInv, Fresh, Pending
<1>3. IssuedFor(m).value.key = m.n
  BY DEF IssuedFor, Certificate
<1>4. OneEffectInv
  BY DEF AccountInv
<1>5. CASE Nothing
  <2>1. /\ Issued' = Issued
        /\ \A u \in Names : srv'.users[u].secret \in {0, srv.users[u].secret}
    BY <1>5 DEF Nothing
  <2>2. OneEffectInv'
    BY <1>1, <1>4, <2>1 DEF OneEffectInv
  <2>3. QED
    BY <1>1, <1>2, <2>1, <2>2 DEF Fresh
<1>6. CASE /\ ~Nothing /\ m.req \in Issuing /\ Issued' = Issued \cup {IssuedFor(m)}
           /\ \A u \in Names : srv'.users[u].secret = srv.users[u].secret
  <2>1. OneEffectInv'
    BY <1>1, <1>2, <1>3, <1>4, <1>6 DEF OneEffectInv
  <2>2. m.req # "register"
    BY <1>6 DEF Issuing
  <2>3. QED
    BY <1>1, <1>2, <1>3, <1>6, <2>1, <2>2
<1>7. CASE /\ ~Nothing /\ m.req = "register" /\ Issued' = Issued
           /\ \A u \in Names : srv'.users[u].secret =
                                  IF u = m.name THEN m.n ELSE srv.users[u].secret
  <2>1. m.req \notin Issuing /\ ~m.issued
    BY <1>1, <1>7 DEF Issuing
  <2>2. OneEffectInv'
    BY <1>1, <1>2, <1>4, <1>7, <2>1 DEF OneEffectInv
  <2>3. QED
    BY <1>1, <1>2, <1>7, <2>1, <2>2
<1>8. QED
  BY <1>5, <1>6, <1>7 DEF Does

(* What was known of the other commands is still known.                    *)
LEMMA OthersKeep ==
    ASSUME NEW n, n # 0, \A e \in Issued' : e.value.key # n => e \in Issued,
           \A u \in Names : srv'.users[u].secret \in {0, n, srv.users[u].secret},
           UNCHANGED <<known, stored>>
    PROVE  /\ \A k : k # n /\ k # 0 /\ Fresh(k) => Fresh(k)'
           /\ \A l : l.n # n /\ l.n # 0 /\ Pending(l) => Pending(l)'
           /\ \A r : r.n # n /\ r.n # 0 /\ Owes(r) => Owes(r)'
           /\ \A e \in Lost' : e.value.key = n \/ e \in Lost
           /\ \A u \in Unreachable' :
                \/ srv'.users[u].secret = n
                \/ u \in Unreachable /\ srv'.users[u].secret = srv.users[u].secret
<1>1. \A k : k # n /\ k # 0 => \A u \in Names : srv'.users[u].secret = k => srv.users[u].secret = k
  OBVIOUS
<1>2. \A k : k # n => \A e \in Issued' : e.value.key = k => e \in Issued
  OBVIOUS
<1>3. \A e \in Lost' : e.value.key = n \/ e \in Lost
  BY DEF Lost
<1>4. \A k : k # n /\ k # 0 /\ Fresh(k) => Fresh(k)'
  BY <1>1, <1>2 DEF Fresh
<1>5. \A l : l.n # n /\ l.n # 0 /\ Pending(l) => Pending(l)'
  BY <1>1, <1>2 DEF Pending
<1>6. ASSUME NEW r, r.n # n, r.n # 0, Owes(r)
      PROVE  Owes(r)'
  <2>1. \A e \in Lost' : e.value.key = r.n => e \in Lost
    BY <1>3, <1>6
  <2>2. \A e \in Issued' : e.value.key = r.n => e \in Issued
    BY <1>2, <1>6
  <2>3. \A u \in Names : srv'.users[u].secret = r.n => srv.users[u].secret = r.n
    BY <1>1, <1>6
  <2>4. QED
    BY <1>6, <2>1, <2>2, <2>3 DEF Owes, Told
<1>7. \A u \in Unreachable' :
        \/ srv'.users[u].secret = n
        \/ u \in Unreachable /\ srv'.users[u].secret = srv.users[u].secret
  BY DEF Unreachable
<1>8. QED
  BY <1>3, <1>4, <1>5, <1>6, <1>7

(* The server answers a message: the command that waits is told.           *)
LEMMA AnswersReplies ==
    ASSUME ClientInv, NEW m \in net, NEW ok \in BOOLEAN, Answers(m, ok)
    PROVE  /\ net' = net \ {m}
           /\ \A q \in Procs : /\ Running(q)' <=> Running(q)
                               /\ procs'[q].n = procs[q].n /\ procs'[q].n \in 0..MaxCommands
           /\ \A q \in Procs : Running(q) /\ procs[q].n # m.n => procs'[q] = procs[q]
           /\ \A q \in Procs : Running(q) /\ procs[q].n = m.n =>
                /\ procs[q].pc = "await"
                /\ procs'[q].pc = "reply" /\ procs'[q].req = m.req
                /\ procs'[q].cmd.name = m.name /\ procs'[q].reply.ok = ok
                /\ ok /\ m.req \in Issuing => procs'[q].reply.value = Certificate(m)
<1> DEFINE p == m.proc
           r == procs[p]
           reply == [ok |-> ok, value |-> IF ok THEN Result(m) ELSE Absent]
           x == [r EXCEPT !.pc = "reply", !.reply = reply]
<1>1. /\ p \in Procs /\ net' = net \ {m}
      /\ IF r.pc = "await" /\ r.n = m.n THEN procs' = [procs EXCEPT ![p] = x]
                                        ELSE procs' = procs
  BY DEF ClientInv, NetInv, MessageFits, Answers, Continues
<1>2. reply.ok = ok /\ (ok /\ m.req \in Issuing => reply.value = Certificate(m))
  BY DEF Issuing, Result
<1> HIDE DEF reply
<1>3. \A q \in Procs : Running(q) /\ procs[q].n = m.n => Awaits(q, m)
  BY DEF ClientInv, NetInv
<1>4. \A q \in Procs : procs[q].n \in 0..MaxCommands
  BY DEF ClientInv, ProcsInv, Proc
<1>5. CASE ~(r.pc = "await" /\ r.n = m.n)
  BY <1>1, <1>3, <1>4, <1>5 DEF Awaits, Running
<1>6. CASE r.pc = "await" /\ r.n = m.n
  <2>1. r \in Proc /\ Running(p) /\ r.req = m.req /\ r.cmd.name = m.name
    BY <1>1, <1>3, <1>6, ProcFields DEF Running, Awaits
  <2>2. /\ x.pc = "reply" /\ x.n = r.n /\ x.req = m.req /\ x.cmd.name = m.name /\ x.reply = reply
    BY <2>1 DEF Proc
  <2>3. procs'[p] = x /\ \A q \in Procs \ {p} : procs'[q] = procs[q]
    BY <1>1, <1>6 DEF ClientInv, ProcsInv
  <2> HIDE DEF x
  <2>4. \A q \in Procs : Running(q) /\ procs[q].n = m.n => q = p
    BY <1>3 DEF Awaits
  <2>5. \A q \in Procs : (Running(q)' <=> Running(q)) /\ procs'[q].n = procs[q].n
    BY <2>1, <2>2, <2>3 DEF Running
  <2>6. QED
    BY <1>1, <1>2, <1>4, <1>6, <2>2, <2>3, <2>4, <2>5
<1>7. QED
  BY <1>5, <1>6

(* One dead command more.                                                  *)
LEMMA OneMoreDead ==
    ASSUME ClientInv, NEW dead \in SUBSET (1..commands), NEW n \in 1..commands
    PROVE  /\ dead \cup {n} \in SUBSET (1..commands)
           /\ Cardinality(dead) \in Nat /\ Cardinality(dead \cup {n}) \in Nat
           /\ Cardinality(dead \cup {n}) <= Cardinality(dead) + 1
<1>1. commands \in Nat
  BY DEF ClientInv, SrvInv
<1>2. IsFiniteSet(1..commands)
  BY <1>1, FS_Interval
<1>3. IsFiniteSet(dead)
  BY <1>2, FS_Subset
<1>4. Cardinality(dead) \in Nat
  BY <1>3, FS_CardinalityType
<1>5. Cardinality(dead \cup {n}) \in {Cardinality(dead), Cardinality(dead) + 1}
  BY <1>3, FS_AddElement
<1>6. QED
  BY <1>4, <1>5

LEMMA AccountAnswer ==
    ASSUME ClientInv, AccountInv, NEW m \in net,
           Handle(m) \/ LoginComplete(m) \/ ServerFault(m)
    PROVE  AccountInv'
<1>1. PICK n : n = m.n
  OBVIOUS
<1>2. /\ Does(m) /\ (m.issued => Nothing) /\ UNCHANGED <<known, stored, commands>>
  BY ServerDoes
<1>3. PICK ok \in BOOLEAN :
        /\ Answers(m, ok)
        /\ \/ ok /\ UNCHANGED <<faults, refused>>
           \/ ~ok /\ ~m.issued /\ Nothing /\ UNCHANGED <<faults, refused>>
           \/ ~ok /\ faults' = faults + 1 /\ refused' = refused
           \/ ~ok /\ faults' = faults /\ refused' = refused + 1
  BY ServerDoes
<1>4. /\ net' = net \ {m}
      /\ \A q \in Procs : /\ Running(q)' <=> Running(q)
                          /\ procs'[q].n = procs[q].n /\ procs'[q].n \in 0..MaxCommands
      /\ \A q \in Procs : Running(q) /\ procs[q].n # n => procs'[q] = procs[q]
      /\ \A q \in Procs : Running(q) /\ procs[q].n = n =>
           /\ procs[q].pc = "await"
           /\ procs'[q].pc = "reply" /\ procs'[q].req = m.req
           /\ procs'[q].cmd.name = m.name /\ procs'[q].reply.ok = ok
           /\ ok /\ m.req \in Issuing => procs'[q].reply.value = Certificate(m)
  BY <1>1, <1>3, AnswersReplies
<1>5. /\ n \in 1..commands /\ n # 0 /\ commands \in 0..MaxCommands
      /\ \A l \in net' : l \in net /\ l.n # n /\ l.n # 0
      /\ \A q \in Procs : Running(q) => procs[q].n # 0
  <2>1. \A l \in net : l.n \in 1..commands /\ (l.n = n => l = m)
    BY <1>1 DEF ClientInv, NetInv, MessageFits
  <2>2. \A l \in net : l.n # 0
    BY <2>1
  <2>3. \A q \in Procs : Running(q) => procs[q].n # 0
    BY DEF ClientInv, ProcsInv, CommandFits, Running
  <2>4. QED
    BY <1>1, <1>4, <2>1, <2>2, <2>3 DEF ClientInv, SrvInv
<1>6. /\ m.req \in Issuing => (\A e \in Issued' : e.value.key = n => e = IssuedFor(m))
      /\ m.req \in Issuing => (\A u \in Names : srv'.users[u].secret # n)
      /\ m.req \notin Issuing => (\A e \in Issued' : e.value.key # n)
      /\ m.req = "register" => (\A u \in Names : srv'.users[u].secret = n => u = m.name)
      /\ m.req \notin Issuing \cup {"register"} => (\A u \in Names : srv'.users[u].secret # n)
      /\ ~m.issued /\ Nothing => Fresh(n)'
      /\ \A e \in Issued' : e.value.key # n => e \in Issued
      /\ \A u \in Names : srv'.users[u].secret \in {0, n, srv.users[u].secret}
      /\ OneEffectInv'
  BY <1>1, <1>2, AfterDoes
<1>7. /\ \A k : k # n /\ k # 0 /\ Fresh(k) => Fresh(k)'
      /\ \A l : l.n # n /\ l.n # 0 /\ Pending(l) => Pending(l)'
      /\ \A r : r.n # n /\ r.n # 0 /\ Owes(r) => Owes(r)'
      /\ \A e \in Lost' : e.value.key = n \/ e \in Lost
      /\ \A u \in Unreachable' :
           \/ srv'.users[u].secret = n
           \/ u \in Unreachable /\ srv'.users[u].secret = srv.users[u].secret
  BY <1>2, <1>5, <1>6, OthersKeep
<1>8. FreshInv'
  <2>1. \A k \in 1..MaxCommands : k > commands' => Fresh(k)'
    <3>1. \A k \in 1..MaxCommands : k > commands => k # n /\ k # 0
      BY <1>5
    <3>2. QED
      BY <1>2, <1>7, <3>1 DEF AccountInv, FreshInv
  <2>2. \A l \in net' : IF l.issued THEN Pending(l)' ELSE Fresh(l.n)'
    BY <1>5, <1>7 DEF AccountInv, FreshInv
  <2>3. ASSUME NEW q \in Procs, Running(q)', NotServed(procs[q])'
        PROVE  Fresh(procs[q].n)'
    <3>1. Running(q) /\ procs'[q].n = procs[q].n /\ procs[q].n # 0
      BY <1>4, <1>5, <2>3
    <3>2. CASE procs[q].n = n
      <4>1. m.req \notin Issuing \cup {"register"}
        BY <1>4, <2>3, <3>1, <3>2 DEF NotServed, Told
      <4>2. Fresh(n)'
        BY <1>6, <4>1 DEF Fresh
      <4>3. QED
        BY <3>1, <3>2, <4>2
    <3>3. CASE procs[q].n # n
      <4>1. Fresh(procs[q].n)
        BY <1>4, <2>3, <3>1, <3>3 DEF AccountInv, FreshInv, NotServed, Told
      <4>2. QED
        BY <1>7, <3>1, <3>3, <4>1
    <3>4. QED
      BY <3>2, <3>3
  <2>4. QED
    BY <2>1, <2>2, <2>3 DEF FreshInv
<1>9. ASSUME NEW q \in Procs, Running(q)'
      PROVE  Owes(procs[q])'
  <2>1. Running(q) /\ procs'[q].n = procs[q].n /\ procs[q].n # 0
    BY <1>4, <1>5, <1>9
  <2>2. CASE procs[q].n = n
    <3>1. /\ procs'[q].pc = "reply" /\ procs'[q].req = m.req /\ procs'[q].n = n
          /\ procs'[q].cmd.name = m.name /\ procs'[q].reply.ok = ok
          /\ ok /\ m.req \in Issuing => procs'[q].reply.value = Certificate(m)
      BY <1>4, <2>1, <2>2
    <3>2. Lost' \subseteq Issued'
      BY DEF Lost
    <3>3. "register" \notin Issuing
      BY DEF Issuing
    <3>4. QED
      BY <1>6, <3>1, <3>2, <3>3 DEF Owes, Told, IssuedFor
  <2>3. CASE procs[q].n # n
    <3>1. procs'[q] = procs[q] /\ Owes(procs[q])
      BY <1>4, <2>1, <2>3 DEF AccountInv, OwedInv
    <3>2. PICK r : r = procs[q]
      OBVIOUS
    <3>3. Owes(r)'
      BY <1>7, <2>1, <2>3, <3>1, <3>2
    <3>4. QED
      BY <3>1, <3>2, <3>3 DEF Owes, Told
  <2>4. QED
    BY <2>2, <2>3
<1>10. PICK dead \in SUBSET (1..commands) :
         Cardinality(dead) <= faults + refused /\ Covers(dead \cup WorkingNumbers)
  BY DEF AccountInv, LossInv
<1>11. /\ \A q \in Procs : Running(q) /\ procs[q].n # n => (Working(q)' <=> Working(q))
       /\ ok => \A q \in Procs : Working(q)' <=> Working(q)
  BY <1>4 DEF Working
<1>12. /\ ok => WorkingNumbers' = WorkingNumbers
       /\ WorkingNumbers \subseteq WorkingNumbers' \cup {n}
  <2>1. ok => WorkingNumbers' = WorkingNumbers
    BY <1>4, <1>11 DEF WorkingNumbers
  <2>2. ASSUME NEW k \in WorkingNumbers, k # n
        PROVE  k \in WorkingNumbers'
    <3>1. PICK q \in Procs : Working(q) /\ k = procs[q].n
      BY DEF WorkingNumbers
    <3>2. Working(q)' /\ k = procs'[q].n
      BY <1>4, <1>11, <2>2, <3>1 DEF Working
    <3>3. QED
      BY <3>2 DEF WorkingNumbers
  <2>3. QED
    BY <2>1, <2>2
<1>13. n \in dead \cup WorkingNumbers
  BY <1>1, <1>10 DEF Covers
<1>14. CASE UNCHANGED <<faults, refused>>
  <2>1. Covers(dead \cup WorkingNumbers)'
    <3>1. CASE ok
      BY <1>5, <1>7, <1>10, <1>12, <1>13, <3>1 DEF Covers
    <3>2. CASE ~m.issued /\ Nothing
      <4>1. Fresh(n)'
        BY <1>6, <3>2
      <4>2. /\ \A e \in Lost' : e.value.key # n
            /\ \A u \in Unreachable' : srv'.users[u].secret # n
        BY <4>1 DEF Fresh, Lost, Unreachable
      <4>3. QED
        BY <1>5, <1>7, <1>10, <1>12, <4>2 DEF Covers
    <3>3. QED
      <4>1. faults \in Nat /\ refused \in Nat
        BY DEF ClientInv, SrvInv
      <4>2. faults' # faults + 1 /\ refused' # refused + 1
        BY <1>14, <4>1
      <4>3. QED
        BY <1>3, <3>1, <3>2, <4>2
  <2>2. QED
    BY <1>2, <1>6, <1>8, <1>9, <1>10, <1>14, <2>1 DEF AccountInv, LossInv, OwedInv
<1>15. CASE \/ faults' = faults + 1 /\ refused' = refused
            \/ faults' = faults /\ refused' = refused + 1
  <2>1. /\ dead \cup {n} \in SUBSET (1..commands)
        /\ Cardinality(dead \cup {n}) <= faults' + refused'
    <3>1. faults \in Nat /\ refused \in Nat
      BY DEF ClientInv, SrvInv
    <3>2. /\ dead \cup {n} \in SUBSET (1..commands)
          /\ Cardinality(dead) \in Nat /\ Cardinality(dead \cup {n}) \in Nat
          /\ Cardinality(dead \cup {n}) <= Cardinality(dead) + 1
      BY <1>5, OneMoreDead
    <3>3. QED
      BY <1>10, <1>15, <3>1, <3>2
  <2>2. Covers((dead \cup {n}) \cup WorkingNumbers)'
    BY <1>5, <1>7, <1>10, <1>12 DEF Covers
  <2>3. QED
    BY <1>2, <1>6, <1>8, <1>9, <2>1, <2>2 DEF AccountInv, LossInv, OwedInv
<1>16. QED
  BY <1>3, <1>14, <1>15

LEMMA AccountIssue ==
    ASSUME ClientInv, AccountInv, NEW m \in net, Issue(m)
    PROVE  AccountInv'
<1>1. PICK n : n = m.n
  OBVIOUS
<1>2. PICK l : /\ net' = (net \ {m}) \cup {l} /\ l.n = n /\ l.issued
               /\ IssuedFor(l) = IssuedFor(m)
  <2>1. PICK k : k = m
    OBVIOUS
  <2>2. k = [proc |-> m.proc, n |-> m.n, req |-> m.req, auth |-> m.auth, name |-> m.name,
             issued |-> m.issued]
    BY <2>1 DEF ClientInv, NetInv, MessageFits
  <2>3. PICK l : l = [k EXCEPT !.issued = TRUE]
    OBVIOUS
  <2>4. l.n = m.n /\ l.issued = TRUE /\ l.req = m.req /\ l.auth = m.auth /\ l.name = m.name
    BY <2>2, <2>3
  <2>5. IssuedFor(l) = IssuedFor(m)
    BY <2>4 DEF IssuedFor, Certificate, Caller
  <2>6. net' = (net \ {m}) \cup {l}
    BY <2>1, <2>3 DEF Issue
  <2>7. QED
    BY <1>1, <2>4, <2>5, <2>6
<1>3. /\ ~m.issued /\ m.req \in Issuing /\ Does(m)
      /\ UNCHANGED <<procs, known, stored, commands, faults, refused>>
  BY IssueKeepsInv DEF Issue, LogsIn, Issuing, local, history
<1>4. /\ n \in 1..commands /\ n # 0 /\ commands \in 0..MaxCommands
      /\ \A k \in net' : k = l \/ (k \in net /\ k.n # n /\ k.n # 0)
      /\ \A q \in Procs : Running(q) => procs[q].n # 0
      /\ \A q \in Procs : Running(q) /\ procs[q].n = n => procs[q].pc = "await"
  <2>1. \A k \in net : k.n \in 1..commands /\ (k.n = n => k = m)
    BY <1>1 DEF ClientInv, NetInv, MessageFits
  <2>2. \A k \in net : k.n # 0
    BY <2>1
  <2>3. \A q \in Procs : Running(q) => procs[q].n # 0
    BY DEF ClientInv, ProcsInv, CommandFits, Running
  <2>4. \A q \in Procs : Running(q) /\ procs[q].n = n => procs[q].pc = "await"
    BY <1>1 DEF ClientInv, NetInv, Awaits
  <2>5. QED
    BY <1>1, <1>2, <2>1, <2>2, <2>3, <2>4 DEF ClientInv, SrvInv
<1>5. /\ \A e \in Issued' : e.value.key = n => e = IssuedFor(m)
      /\ \A u \in Names : srv'.users[u].secret # n
      /\ \A e \in Issued' : e.value.key # n => e \in Issued
      /\ \A u \in Names : srv'.users[u].secret \in {0, n, srv.users[u].secret}
      /\ OneEffectInv'
  BY <1>1, <1>3, AfterDoes
<1>6. /\ \A k : k # n /\ k # 0 /\ Fresh(k) => Fresh(k)'
      /\ \A k : k.n # n /\ k.n # 0 /\ Pending(k) => Pending(k)'
      /\ \A r : r.n # n /\ r.n # 0 /\ Owes(r) => Owes(r)'
      /\ \A e \in Lost' : e.value.key = n \/ e \in Lost
      /\ \A u \in Unreachable' :
           \/ srv'.users[u].secret = n
           \/ u \in Unreachable /\ srv'.users[u].secret = srv.users[u].secret
  BY <1>3, <1>4, <1>5, OthersKeep
<1>7. FreshInv'
  <2>1. \A k \in 1..MaxCommands : k > commands' => Fresh(k)'
    <3>1. \A k \in 1..MaxCommands : k > commands => k # n /\ k # 0
      BY <1>4
    <3>2. QED
      BY <1>3, <1>6, <3>1 DEF AccountInv, FreshInv
  <2>2. Pending(l)'
    BY <1>2, <1>5 DEF Pending
  <2>3. \A k \in net' : IF k.issued THEN Pending(k)' ELSE Fresh(k.n)'
    BY <1>2, <1>4, <1>6, <2>2 DEF AccountInv, FreshInv
  <2>4. ASSUME NEW q \in Procs, Running(q)', NotServed(procs[q])'
        PROVE  Fresh(procs[q].n)'
    <3>1. Running(q) /\ NotServed(procs[q]) /\ procs'[q].n = procs[q].n
      BY <1>3, <2>4 DEF Running, NotServed, Told
    <3>2. procs[q].n # n /\ procs[q].n # 0
      BY <1>4, <3>1 DEF NotServed, Told
    <3>3. QED
      BY <1>6, <3>1, <3>2 DEF AccountInv, FreshInv
  <2>5. QED
    BY <2>1, <2>3, <2>4 DEF FreshInv
<1>8. ASSUME NEW q \in Procs, Running(q)'
      PROVE  Owes(procs[q])'
  <2>1. Running(q) /\ procs'[q] = procs[q] /\ procs[q].n # 0
    BY <1>3, <1>4, <1>8 DEF Running
  <2>2. CASE procs[q].n = n
    BY <1>4, <2>1, <2>2 DEF Owes, Told
  <2>3. CASE procs[q].n # n
    <3>1. PICK r : r = procs[q]
      OBVIOUS
    <3>2. Owes(r)'
      BY <1>6, <2>1, <2>3, <3>1 DEF AccountInv, OwedInv
    <3>3. QED
      BY <2>1, <3>1, <3>2 DEF Owes, Told
  <2>4. QED
    BY <2>2, <2>3
<1>9. LossInv'
  <2>1. PICK dead \in SUBSET (1..commands) :
          Cardinality(dead) <= faults + refused /\ Covers(dead \cup WorkingNumbers)
    BY DEF AccountInv, LossInv
  <2>2. WorkingNumbers' = WorkingNumbers
    BY <1>3 DEF WorkingNumbers, Working, Running
  <2>3. n \in dead \cup WorkingNumbers
    BY <1>1, <2>1 DEF Covers
  <2>4. Covers(dead \cup WorkingNumbers)'
    BY <1>2, <1>4, <1>6, <2>1, <2>2, <2>3 DEF Covers
  <2>5. QED
    BY <1>3, <2>1, <2>4 DEF LossInv
<1>10. QED
  BY <1>5, <1>7, <1>8, <1>9 DEF AccountInv, OwedInv

LEMMA InitAccount ==
    ASSUME Init
    PROVE  AccountInv
<1>1. PICK registered \in SUBSET Names :
        /\ srv = [users |-> [u \in Names |-> IF u \in registered
                                               THEN [NoUser EXCEPT !.secret = FirstSecret]
                                               ELSE NoUser],
                  certs |-> {AdminCert}, revoked |-> {}, creds |-> {}]
        /\ known = [u \in Names |-> IF u \in registered THEN {FirstSecret} ELSE {}]
  BY DEF Init
<1>2. /\ \A u \in Names : \/ srv.users[u].secret = 0
                          \/ srv.users[u].secret = FirstSecret /\ FirstSecret \in known[u]
  BY <1>1 DEF NoUser
<1>3. Issued = {[file |-> "cert", value |-> AdminCert]}
  BY <1>1 DEF Issued
<1>4. /\ \A e \in Issued : e.value.key = 0
      /\ \A e, d \in Issued : e = d
  BY <1>3 DEF AdminCert, Outside
<1>5. FirstSecret # 0 /\ \A n \in 1..MaxCommands : n # 0 /\ n # FirstSecret
  BY Constants
<1>6. /\ procs = [p \in Procs |-> Idle] /\ net = {} /\ faults = 0 /\ commands = 0 /\ refused = 0
      /\ stored = {[file |-> "cert", value |-> AdminCert]}
  BY DEF Init
<1>7. \A p \in Procs : ~Running(p)
  BY <1>6, IdleFits DEF Running
<1>8. Lost = {} /\ Unreachable = {}
  BY <1>2, <1>3, <1>6 DEF Lost, Unreachable
<1>9. FreshInv
  BY <1>2, <1>4, <1>5, <1>6, <1>7 DEF FreshInv, Fresh
<1>10. OneEffectInv
  BY <1>2, <1>4, <1>5 DEF OneEffectInv
<1>11. LossInv
  <2>1. {} \in SUBSET (1..commands) /\ Cardinality({}) <= faults + refused
    BY <1>6, FS_EmptySet
  <2>2. Covers({} \cup WorkingNumbers)
    BY <1>6, <1>8 DEF Covers
  <2>3. QED
    BY <2>1, <2>2 DEF LossInv
<1>12. QED
  BY <1>7, <1>9, <1>10, <1>11 DEF AccountInv, OwedInv

LEMMA NextKeepsAccount ==
    ASSUME ClientInv, AccountInv, [Next]_vars
    PROVE  AccountInv'
<1>1. ASSUME NEW p \in Procs,
             \/ ConfigInit(p) \/ ReadConfig(p) \/ CheckEnrollment(p) \/ ReadCertificate(p)
             \/ FindKey(p) \/ LoadIdentity(p) \/ GenCSR(p)
      PROVE  AccountInv'
  <2>1. /\ UNCHANGED <<known, stored, net, srv, commands, faults, refused>>
        /\ procs[p].pc \notin {"idle", "await", "reply", "write", "fill"}
    BY <1>1 DEF ConfigInit, ReadConfig, CheckEnrollment, ReadCertificate, FindKey, LoadIdentity,
                GenCSR, local, remote, history
  <2>2. \E x \in Proc : GoesOn(p, x)
    BY <1>1, ConfigInitGoesOn, ReadConfigGoesOn, CheckEnrollmentGoesOn, ReadCertificateGoesOn,
       FindKeyGoesOn, LoadIdentityGoesOn, GenCSRGoesOn
  <2>3. Running(p) /\ procs[p].pc # "await" /\ NotServed(procs[p])
    BY <2>1 DEF Running, NotServed, Told
  <2>4. stored \subseteq stored' /\ \A u \in Names : known[u] \subseteq known'[u]
    BY <2>1
  <2>5. QED
    BY <2>1, <2>2, <2>3, <2>4, FreshStep
<1>2. ASSUME UNCHANGED vars
      PROVE  AccountInv'
  <2>1. UNCHANGED <<procs, net, srv, known, stored, commands, faults, refused>>
    BY <1>2 DEF vars
  <2>2. Issued' = Issued /\ Lost' = Lost /\ Unreachable' = Unreachable
    BY <2>1 DEF Issued, Lost, Unreachable
  <2>3. WorkingNumbers' = WorkingNumbers
    BY <2>1 DEF WorkingNumbers, Working, Running
  <2>4. \A n : Fresh(n)' <=> Fresh(n)
    BY <2>1, <2>2 DEF Fresh
  <2>5. FreshInv' /\ OneEffectInv'
    BY <2>1, <2>2, <2>4 DEF AccountInv, FreshInv, OneEffectInv, NotServed, Told, Running, Pending
  <2>6. OwedInv'
    BY <2>1, <2>2 DEF AccountInv, OwedInv, Owes, Told, Running
  <2>7. LossInv'
    BY <2>1, <2>2, <2>3 DEF AccountInv, LossInv, Covers
  <2>8. QED
    BY <2>5, <2>6, <2>7 DEF AccountInv
<1>3. QED
  BY <1>1, <1>2, AccountSendReq, AccountReceive, AccountTruncate, AccountFill, AccountFault,
     AccountBegin, AccountAnswer, AccountIssue DEF Next, Step

(* So does the account of what the server gave out: what is lost, and what *)
(* is on its way to nobody, belongs to commands that work or to no more    *)
(* dead ones than there were faults and logins that were refused late.     *)
THEOREM AccountInvariant == Spec => []AccountInv
  BY InitAccount, NextKeepsAccount, ClientInvariant, PTL DEF Spec

(* A certificate, a credential or the secret of a registered identity that *)
(* the server gave is lost only with a command that is still at work, with *)
(* a command or a request that failed, or with a login that was refused    *)
(* after the certificate was issued, and each of those loses one at most.  *)
THEOREM LossesOnlyByFaults == Spec => []LossesAreFaults
<1>1. ClientInv /\ AccountInv => LossesAreFaults
  <2>1. SUFFICES ASSUME ClientInv, AccountInv PROVE LossesAreFaults
    OBVIOUS
  <2>2. PICK dead \in SUBSET (1..commands) :
          Cardinality(dead) <= faults + refused /\ Covers(dead \cup WorkingNumbers)
    BY <2>1 DEF AccountInv, LossInv
  <2> DEFINE R == {p \in Procs : Running(p)}
             A == {e.value.key : e \in Lost}
             B == {srv.users[u].secret : u \in Unreachable}
             N == dead \cup WorkingNumbers
  <2>3. commands \in Nat /\ faults \in Nat /\ refused \in Nat
    BY <2>1 DEF ClientInv, SrvInv
  <2>4. IsFiniteSet(1..commands)
    BY <2>3, FS_Interval
  <2>5. (\A p \in R : procs[p].n \in 1..commands) /\ WorkingNumbers \in SUBSET (1..commands)
    <3>1. \A p \in R : procs[p].n \in 0..MaxCommands /\ procs[p].n <= commands /\ procs[p].n # 0
      BY <2>1, ProcFields DEF ClientInv, ProcsInv, Proc, CommandFits, Running
    <3>2. \A p \in R : procs[p].n \in 1..commands
      BY <2>3, <3>1
    <3>3. QED
      BY <3>2 DEF WorkingNumbers, Working
  <2>6. IsFiniteSet(WorkingNumbers) /\ IsFiniteSet(dead)
    BY <2>4, <2>5, FS_Subset
  <2>7. IsFiniteSet(R) /\ Cardinality(WorkingNumbers) <= Cardinality(R)
    <3> DEFINE M == {procs[p].n : p \in R}
               g == [p \in R |-> procs[p].n]
    <3>1. WorkingNumbers \subseteq M /\ IsFiniteSet(M)
      <4>1. WorkingNumbers \subseteq M
        BY DEF WorkingNumbers, Working
      <4>2. M \subseteq 1..commands
        BY <2>5
      <4>3. QED
        BY <2>4, <4>1, <4>2, FS_Subset
    <3>2. g \in [R -> M]
      OBVIOUS
    <3>3. \A p, q \in R : g[p] = g[q] => p = q
      BY <2>1 DEF ClientInv, ProcsInv
    <3>4. \A n \in M : \E p \in R : g[p] = n
      OBVIOUS
    <3> HIDE DEF g, M
    <3>5. g \in Injection(R, M) /\ g \in Surjection(R, M)
      BY <3>2, <3>3, <3>4 DEF Injection, IsInjective, Surjection
    <3>6. IsFiniteSet(R)
      BY <3>1, <3>5, FS_Injection
    <3>7. Cardinality(M) <= Cardinality(R) /\ Cardinality(WorkingNumbers) <= Cardinality(M)
      BY <3>1, <3>5, <3>6, FS_Surjection, FS_Subset
    <3>8. /\ Cardinality(R) \in Nat /\ Cardinality(M) \in Nat
          /\ Cardinality(WorkingNumbers) \in Nat
      BY <2>6, <3>1, <3>6, FS_CardinalityType
    <3>9. QED
      BY <3>6, <3>7, <3>8
  <2>8. A \subseteq N /\ B \subseteq N /\ A \cap B = {}
    <3>1. A \subseteq N /\ B \subseteq N
      BY <2>2 DEF Covers
    <3>2. ASSUME NEW e \in Lost, NEW u \in Unreachable, e.value.key = srv.users[u].secret
          PROVE  FALSE
      <4>1. e \in Issued /\ u \in Names /\ srv.users[u].secret # 0
        BY DEF Lost, Unreachable
      <4>2. QED
        BY <2>1, <3>2, <4>1 DEF AccountInv, OneEffectInv
    <3>3. QED
      BY <3>1, <3>2
  <2>9. IsFiniteSet(N) /\ Cardinality(N) <= Cardinality(dead) + Cardinality(WorkingNumbers)
    <3>1. /\ IsFiniteSet(N)
          /\ Cardinality(N) = Cardinality(dead) + Cardinality(WorkingNumbers)
                                - Cardinality(dead \cap WorkingNumbers)
      BY <2>6, FS_Union
    <3>2. IsFiniteSet(dead \cap WorkingNumbers)
      BY <2>6, FS_Subset
    <3>3. /\ Cardinality(dead) \in Nat /\ Cardinality(WorkingNumbers) \in Nat
          /\ Cardinality(dead \cap WorkingNumbers) \in Nat
      BY <2>6, <3>2, FS_CardinalityType
    <3>4. QED
      BY <3>1, <3>3
  <2>10. IsFiniteSet(A) /\ IsFiniteSet(B)
    BY <2>8, <2>9, FS_Subset
  <2>11. IsFiniteSet(Lost) /\ Cardinality(Lost) <= Cardinality(A)
    <3> DEFINE f == [e \in Lost |-> e.value.key]
    <3>1. f \in [Lost -> A]
      OBVIOUS
    <3>2. \A e, d \in Lost : f[e] = f[d] => e = d
      BY <2>1 DEF AccountInv, OneEffectInv, Lost
    <3> HIDE DEF f, A
    <3>3. f \in Injection(Lost, A)
      BY <3>1, <3>2 DEF Injection, IsInjective
    <3>4. QED
      BY <2>10, <3>3, FS_Injection
  <2>12. IsFiniteSet(Unreachable) /\ Cardinality(Unreachable) <= Cardinality(B)
    <3> DEFINE f == [u \in Unreachable |-> srv.users[u].secret]
    <3>1. f \in [Unreachable -> B]
      OBVIOUS
    <3>2. \A u, v \in Unreachable : f[u] = f[v] => u = v
      <4>1. \A u \in Unreachable : /\ u \in Names /\ srv.users[u].secret # 0
                                   /\ srv.users[u].secret # FirstSecret
        BY <2>1 DEF Unreachable, AccountInv, OneEffectInv
      <4>2. QED
        BY <2>1, <4>1 DEF AccountInv, OneEffectInv
    <3> HIDE DEF f, B
    <3>3. f \in Injection(Unreachable, B)
      BY <3>1, <3>2 DEF Injection, IsInjective
    <3>4. QED
      BY <2>10, <3>3, FS_Injection
  <2>13. Cardinality(A) + Cardinality(B) <= Cardinality(N)
    <3> HIDE DEF A, B, N
    <3>1. Cardinality(A \cup B) = Cardinality(A) + Cardinality(B) - Cardinality(A \cap B)
      BY <2>10, FS_Union
    <3>2. Cardinality(A \cap B) = 0
      BY <2>8, FS_EmptySet
    <3>3. Cardinality(A \cup B) <= Cardinality(N)
      BY <2>8, <2>9, FS_Subset
    <3>4. Cardinality(A) \in Nat /\ Cardinality(B) \in Nat
      BY <2>10, FS_CardinalityType
    <3>5. QED
      BY <3>1, <3>2, <3>3, <3>4
  <2>14. /\ Cardinality(A) \in Nat /\ Cardinality(B) \in Nat /\ Cardinality(N) \in Nat
         /\ Cardinality(Lost) \in Nat /\ Cardinality(Unreachable) \in Nat
         /\ Cardinality(dead) \in Nat /\ Cardinality(WorkingNumbers) \in Nat
         /\ Cardinality(R) \in Nat
    BY <2>6, <2>7, <2>9, <2>10, <2>11, <2>12, FS_CardinalityType
  <2> HIDE DEF A, B, N
  <2>15. Cardinality(Lost) + Cardinality(Unreachable) <= faults + refused + Cardinality(R)
    BY <2>2, <2>3, <2>7, <2>9, <2>11, <2>12, <2>13, <2>14
  <2>16. QED
    BY <2>15 DEF LossesAreFaults, Lost
<1>2. QED
  BY <1>1, ClientInvariant, AccountInvariant, PTL
-----------------------------------------------------------------------------
(* The files after commands that were not killed.                          *)
LEMMA WrittenIsNotEmpty ==
    ASSUME NEW f \in Files \ {"cfg", "crl"}, NEW v \in Written(f)
    PROVE  v # Empty /\ (f \in Roots => v = "chain")
<1>1. Empty \notin Certs
  <2>1. Certs \subseteq [name : Names, key : Nat]
    BY Constants DEF Certs
  <2>2. QED
    BY <2>1, MarksOK DEF MarksOK
<1>2. Empty # "csr" /\ Empty # "ipk" /\ Empty # "chain" /\ Empty # 0
  BY MarksOK DEF MarksOK
<1>3. QED
  BY <1>1, <1>2 DEF Written, Files, Roots, Outside

LEMMA InitDirectory ==
    ASSUME Init
    PROVE  DirectoryInv
<1>1. CASE disk = NewHome
  <2>1. \A f \in Files : disk[f] = Absent
    BY <1>1 DEF NewHome
  <2>2. Absent # Empty /\ "cert" \in Files
    BY MarksOK DEF MarksOK, Files
  <2>3. QED
    BY <2>1, <2>2 DEF DirectoryInv
<1>2. CASE disk = AdminHome
  <2>1. /\ disk["cert"] = AdminCert
        /\ disk["keypem"] = Outside /\ disk["ipk"] = "ipk" /\ disk["cacerts"] = "chain"
        /\ \A f \in Files \ {"cfg", "cert", "keypem", "ipk", "cacerts"} : disk[f] = Absent
    BY <1>2 DEF AdminHome, NewHome, Files
  <2>2. /\ AdminCert \in Written("cert") /\ Outside \in Written("keypem")
        /\ "ipk" \in Written("ipk") /\ "chain" \in Written("cacerts")
    BY Constants DEF Written, AdminCert, Certs, Outside
  <2>3. \A f \in Files \ {"cfg", "crl"} : disk[f] # Empty
    <3>1. {"cert", "keypem", "ipk", "cacerts"} \subseteq Files \ {"cfg", "crl"}
      BY DEF Files
    <3>2. Absent # Empty
      BY MarksOK DEF MarksOK
    <3>3. QED
      BY <2>1, <2>2, <3>1, <3>2, WrittenIsNotEmpty
  <2>4. HasRoot
    BY <2>1 DEF HasRoot, Roots
  <2>5. QED
    BY <2>3, <2>4 DEF DirectoryInv
<1>3. QED
  BY <1>1, <1>2 DEF Init

(* A step of a command that does not write leaves the others at work.      *)
LEMMA DirectoryStays ==
    ASSUME DirectoryInv, disk' = disk, faults' = faults \/ faults' # 0,
           \A p \in Procs : Writing(p) => procs'[p] = procs[p]
    PROVE  DirectoryInv'
<1>1. \A f : Filling(f) => Filling(f)'
  BY DEF Filling, Writing
<1>2. HasRoot => HasRoot'
  BY DEF HasRoot, RootPlanned, Writing
<1>3. QED
  BY <1>1, <1>2 DEF DirectoryInv

LEMMA DirectoryTruncate ==
    ASSUME ClientInv, DirectoryInv, "root" \in CAChain, NEW p \in Procs, Truncate(p)
    PROVE  DirectoryInv'
<1> DEFINE r == procs[p]
<1>1. /\ r.pc = "write" /\ faults' = faults
      /\ procs' = [procs EXCEPT ![p] = [r EXCEPT !.pc = "fill"]]
      /\ disk' = [disk EXCEPT ![Head(r.plan).file] = Empty]
  BY DEF Truncate, Continues, history
<1>2. /\ r \in Proc /\ CommandFits(r, keystore) /\ 1 \in DOMAIN r.plan
      /\ Head(r.plan) = r.plan[1] /\ Head(r.plan).file \in Planned
  BY <1>1, HeadOfPlan DEF Writing
<1>3. PICK f \in Planned : f = r.plan[1].file
  BY <1>2
<1>4. /\ procs'[p].pc = "fill" /\ procs'[p].plan = r.plan
      /\ \A q \in Procs \ {p} : procs'[q] = procs[q]
  BY <1>1, <1>2 DEF ClientInv, ProcsInv, Proc
<1>5. /\ disk'[f] = Empty /\ f \in Files /\ \A g \in Files \ {f} : disk'[g] = disk[g]
  BY <1>1, <1>2, <1>3 DEF ClientInv, DiskInv, Planned
<1>6. \A g : Filling(g) \/ g = f => Filling(g)'
  BY <1>1, <1>3, <1>4 DEF Filling
<1>7. \A q \in Procs : RootPlanned(q) => RootPlanned(q)'
  BY <1>1, <1>4 DEF RootPlanned, Writing
<1>8. f \in Roots \/ f = "cert" => RootPlanned(p)'
  <2>1. CASE f \in Roots
    BY <1>2, <1>3, <1>4, <2>1 DEF RootPlanned, Writing
  <2>2. CASE f = "cert"
    <3>1. RootFollows(r.plan)
      BY <1>2 DEF CommandFits
    <3>2. \E j \in DOMAIN r.plan : r.plan[j].file \in Roots
      BY <1>2, <1>3, <2>2, <3>1 DEF RootFollows
    <3>3. QED
      BY <1>4, <3>2 DEF RootPlanned, Writing
  <2>3. QED
    BY <2>1, <2>2
<1>9. faults = 0 => \A g \in Files \ {"cfg", "crl"} : disk'[g] = Empty => Filling(g)'
  BY <1>5, <1>6 DEF DirectoryInv
<1>10. faults = 0 /\ disk'["cert"] # Absent => HasRoot'
  <2>1. CASE f \in Roots \/ f = "cert"
    BY <1>8, <2>1 DEF HasRoot
  <2>2. CASE ~(f \in Roots \/ f = "cert")
    <3>1. disk'["cert"] = disk["cert"] /\ \A g \in Roots : disk'[g] = disk[g]
      BY <1>5, <2>2 DEF Roots, Files
    <3>2. QED
      BY <1>7, <3>1 DEF DirectoryInv, HasRoot
  <2>3. QED
    BY <2>1, <2>2
<1>11. QED
  BY <1>1, <1>9, <1>10 DEF DirectoryInv

LEMMA DirectoryFill ==
    ASSUME ClientInv, DirectoryInv, "root" \in CAChain, NEW p \in Procs, Fill(p)
    PROVE  DirectoryInv'
<1> DEFINE r == procs[p]
<1>1. /\ r.pc = "fill" /\ faults' = faults
      /\ Len(r.plan) > 1 =>
           procs' = [procs EXCEPT ![p] = [r EXCEPT !.pc = "write", !.plan = Tail(@)]]
  BY DEF Fill, Continues, history
<1>2. /\ r \in Proc /\ CommandFits(r, keystore) /\ r.plan \in Seq(Entries)
      /\ 1 \in DOMAIN r.plan
      /\ Head(r.plan) = r.plan[1] /\ Head(r.plan).file \in Planned
      /\ Head(r.plan).value \in Written(Head(r.plan).file)
  BY <1>1, HeadOfPlan DEF Writing
<1>3. PICK f \in Planned : f = r.plan[1].file
  BY <1>2
<1>4. PICK v \in Contents(f, r.plan[1].value) : disk' = [disk EXCEPT ![f] = v]
  BY <1>2, <1>3 DEF Fill
<1>5. /\ disk'[f] = v /\ f \in Files /\ \A g \in Files \ {f} : disk'[g] = disk[g]
  BY <1>3, <1>4 DEF ClientInv, DiskInv, Planned
<1>6. f \notin {"cfg", "crl"} => v # Empty /\ (f \in Roots => v = "chain")
  <2>1. r.plan[1].value \in Written(f)
    BY <1>2, <1>3
  <2>2. f \notin {"cfg", "crl"} => /\ r.plan[1].value # Empty
                                   /\ f \in Roots => r.plan[1].value = "chain"
    BY <1>5, <2>1, WrittenIsNotEmpty
  <2>3. r.plan[1].value # Empty => v = r.plan[1].value \/ (v = Mixed /\ f \notin Roots)
    BY <1>4 DEF Contents, ChainFiles, Roots
  <2>4. Mixed # Empty
    BY MarksOK DEF MarksOK
  <2>5. QED
    BY <2>2, <2>3, <2>4
<1>7. \A q \in Procs \ {p} : procs'[q] = procs[q]
  <2>1. PICK x : procs' = [procs EXCEPT ![p] = x]
    BY DEF Fill, Continues, Ends
  <2>2. QED
    BY <2>1 DEF ClientInv, ProcsInv
<1>8. \A g : Filling(g) /\ g # f => Filling(g)'
  BY <1>3, <1>7 DEF Filling
<1>9. (\E j \in DOMAIN r.plan : j > 1 /\ r.plan[j].file \in Roots) => RootPlanned(p)'
  <2>1. SUFFICES ASSUME NEW j \in DOMAIN r.plan, j > 1, r.plan[j].file \in Roots
                 PROVE  RootPlanned(p)'
    OBVIOUS
  <2>2. Len(r.plan) > 1
    BY <1>2, <2>1
  <2>3. j - 1 \in DOMAIN Tail(r.plan) /\ Tail(r.plan)[j - 1] = r.plan[j]
    BY <1>2, <2>1, <2>2, RestOfPlan
  <2>4. procs'[p].pc = "write" /\ procs'[p].plan = Tail(r.plan)
    <3> DEFINE rest == Tail(r.plan)
               x == [r EXCEPT !.pc = "write", !.plan = rest]
    <3>1. procs' = [procs EXCEPT ![p] = x]
      BY <1>1, <2>2
    <3> HIDE DEF rest
    <3>2. x.pc = "write" /\ x.plan = rest
      BY <1>2 DEF Proc
    <3> HIDE DEF x
    <3>3. procs'[p] = x
      BY <3>1 DEF ClientInv, ProcsInv
    <3>4. QED
      BY <3>2, <3>3 DEF rest
  <2>5. QED
    BY <2>1, <2>3, <2>4 DEF RootPlanned, Writing
<1>10. faults = 0 => \A g \in Files \ {"cfg", "crl"} : disk'[g] = Empty => Filling(g)'
  BY <1>5, <1>6, <1>8 DEF DirectoryInv
<1>11. faults = 0 /\ disk'["cert"] # Absent => HasRoot'
  <2>1. CASE f \in Roots
    <3>1. disk'[f] = "chain"
      BY <1>5, <1>6, <2>1 DEF Roots
    <3>2. QED
      BY <2>1, <3>1 DEF HasRoot
  <2>2. CASE f = "cert"
    <3>1. RootFollows(r.plan)
      BY <1>2 DEF CommandFits
    <3>2. \E j \in DOMAIN r.plan : j > 1 /\ r.plan[j].file \in Roots
      BY <1>2, <1>3, <2>2, <3>1 DEF RootFollows
    <3>3. QED
      BY <1>9, <3>2 DEF HasRoot
  <2>3. CASE f \notin Roots /\ f # "cert"
    <3>1. disk'["cert"] = disk["cert"] /\ \A g \in Roots : disk'[g] = disk[g]
      BY <1>5, <2>3 DEF Roots, Files
    <3>2. \A j \in DOMAIN r.plan : r.plan[j].file \in Roots => j > 1
      <4>1. \A j \in DOMAIN r.plan : j = 1 \/ j > 1
        BY <1>2
      <4>2. QED
        BY <1>3, <2>3, <4>1
    <3>3. \A q \in Procs : RootPlanned(q) => RootPlanned(q)'
      <4>1. RootPlanned(p) => RootPlanned(p)'
        BY <1>9, <3>2 DEF RootPlanned
      <4>2. \A q \in Procs \ {p} : RootPlanned(q) => RootPlanned(q)'
        BY <1>7 DEF RootPlanned, Writing
      <4>3. QED
        BY <4>1, <4>2
    <3>4. QED
      BY <3>1, <3>3 DEF DirectoryInv, HasRoot
  <2>4. QED
    BY <2>1, <2>2, <2>3
<1>12. QED
  BY <1>1, <1>10, <1>11 DEF DirectoryInv

LEMMA NextKeepsDirectory ==
    ASSUME ClientInv, DirectoryInv, "root" \in CAChain, [Next]_vars
    PROVE  DirectoryInv'
<1>0. procs \in [Procs -> Proc] /\ faults \in Nat
  BY DEF ClientInv, ProcsInv, SrvInv
<1>1. ASSUME NEW p \in Procs,
             \/ ConfigInit(p) \/ ReadConfig(p) \/ CheckEnrollment(p) \/ ReadCertificate(p)
             \/ FindKey(p) \/ LoadIdentity(p) \/ GenCSR(p) \/ SendReq(p) \/ Receive(p)
      PROVE  DirectoryInv'
  <2>1. ~Writing(p) /\ UNCHANGED <<disk, faults>>
    <3>1. CASE Receive(p)
      BY <3>1, ReceiveGoesOn DEF Writing, history
    <3>2. CASE ~Receive(p)
      BY <1>1, <3>2 DEF ConfigInit, ReadConfig, CheckEnrollment, ReadCertificate, FindKey,
         LoadIdentity, GenCSR, SendReq, Writing, local, history
    <3>3. QED
      BY <3>1, <3>2
  <2>2. \A q \in Procs \ {p} : procs'[q] = procs[q]
    <3>1. CASE SendReq(p)
      BY <1>0, <3>1 DEF SendReq, Ends, Continues
    <3>2. CASE ~SendReq(p)
      <4>1. PICK x \in Proc : GoesOn(p, x)
        BY <1>1, <3>2, ConfigInitGoesOn, ReadConfigGoesOn, CheckEnrollmentGoesOn,
           ReadCertificateGoesOn, FindKeyGoesOn, LoadIdentityGoesOn, GenCSRGoesOn, ReceiveGoesOn
      <4>2. QED
        BY <1>0, <4>1 DEF GoesOn
    <3>3. QED
      BY <3>1, <3>2
  <2>3. \A q \in Procs : Writing(q) => procs'[q] = procs[q]
    BY <2>1, <2>2
  <2>4. QED
    BY <2>1, <2>3, DirectoryStays
<1>2. ASSUME NEW p \in Procs, Fault(p)
      PROVE  DirectoryInv'
  <2>1. faults' # 0
    BY <1>0, <1>2 DEF Fault
  <2>2. QED
    BY <2>1 DEF DirectoryInv
<1>3. ASSUME NEW p \in Procs, NEW c \in Commands, Begin(p, c)
      PROVE  DirectoryInv'
  <2>1. ~Writing(p) /\ UNCHANGED <<disk, faults>> /\ \A q \in Procs \ {p} : procs'[q] = procs[q]
    BY <1>0, <1>3 DEF Begin, Continues, Running, Writing, local
  <2>2. QED
    BY <2>1, DirectoryStays
<1>4. ASSUME NEW m \in net, Handle(m) \/ LoginComplete(m) \/ ServerFault(m)
      PROVE  DirectoryInv'
  <2>1. disk' = disk /\ \E ok \in BOOLEAN : Answers(m, ok)
    BY <1>4, ServerDoes
  <2>2. faults' = faults \/ faults' # 0
    <3>1. faults' = faults \/ faults' = faults + 1
      BY <1>4 DEF Handle, LoginComplete, ServerFault, history
    <3>2. faults + 1 # 0
      BY <1>0
    <3>3. QED
      BY <3>1, <3>2
  <2>3. \A q \in Procs : Writing(q) => procs'[q] = procs[q]
    BY <1>0, <2>1 DEF Answers, Continues, Writing
  <2>4. QED
    BY <2>1, <2>2, <2>3, DirectoryStays
<1>5. ASSUME NEW m \in net, Issue(m)
      PROVE  DirectoryInv'
  <2>1. UNCHANGED <<procs, disk, faults>>
    BY <1>5 DEF Issue, local, history
  <2>2. QED
    BY <2>1, DirectoryStays
<1>6. ASSUME UNCHANGED vars
      PROVE  DirectoryInv'
  BY <1>6, DirectoryStays DEF vars
<1>7. QED
  BY <1>1, <1>2, <1>3, <1>4, <1>5, <1>6, DirectoryTruncate, DirectoryFill DEF Next, Step

(* Commands that overlap leave no file cut off: when all have ended and    *)
(* none failed, no file but the configuration and the CRL is empty, and    *)
(* next to a certificate, garbled or not, there are the certificates of    *)
(* its CA, if the CA has a root certificate.                               *)
THEOREM DirectoryStaysComplete ==
    ASSUME "root" \in CAChain
    PROVE  Spec => []DirectoryIsComplete
<1>1. DirectoryInv => DirectoryIsComplete
  BY DEF DirectoryInv, DirectoryIsComplete, Filling, HasRoot, RootPlanned, Writing, Running, Roots
<1>2. ClientInv /\ DirectoryInv /\ [Next]_vars => DirectoryInv'
  BY NextKeepsDirectory
<1>3. QED
  BY <1>1, <1>2, InitDirectory, ClientInvariant, PTL DEF Spec
=============================================================================
