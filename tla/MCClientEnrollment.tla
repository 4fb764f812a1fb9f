------------------------- MODULE MCClientEnrollment -------------------------
(* The commands of the run client.                                         *)
EXTENDS ClientEnrollment

CONSTANTS admin, peer

Cmd(op, name) == [op |-> op, name |-> name, type |-> "x509", profile |-> "",
                  secret |-> FALSE, crl |-> FALSE]
Enroll(name) == [Cmd("enroll", name) EXCEPT !.secret = TRUE]

MCCommands ==
    {Enroll(admin), Enroll(peer), [Enroll(admin) EXCEPT !.profile = "tls"],
     [Enroll(admin) EXCEPT !.type = "idemix"],
     [Cmd("enroll", admin) EXCEPT !.type = "idemix"],
     Cmd("reenroll", admin), Cmd("register", peer), [Cmd("revoke", admin) EXCEPT !.crl = TRUE],
     Cmd("revoke", peer), Cmd("gencrl", admin), Cmd("getcainfo", admin),
     Cmd("gencsr", admin), Cmd("identity", peer), Cmd("query", admin)}
=============================================================================
