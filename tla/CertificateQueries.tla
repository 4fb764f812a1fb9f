------------------------- MODULE CertificateQueries -------------------------
(***************************************************************************)
(* Lists of certificates and of identities, and certificate revocation     *)
(* lists, made from queries that run while certificates are issued and     *)
(* revoked.  A list is streamed: the handler holds a database connection   *)
(* while it writes one element after the other, the endpoint wraps what    *)
(* the handler writes into the JSON object of every response, and the      *)
(* client decodes the response while it arrives.                           *)
(*                                                                         *)
(* Times are numbers and 0 is the zero time.  A response is a sequence of  *)
(* JSON tokens; the commas and colons between them are left out.           *)
(***************************************************************************)
EXTENDS Integers, AffiliationNames

CONSTANTS
    Certs, Owner, Expiry,     \* certificates, whose they are and when they expire
    Issued,                   \* the certificates issued before
    IDs, UserAff, UserType,   \* identities with their affiliation and type
    Handlers,                 \* requests that are processed at the same time
    Conns,                    \* connections of the pool (1 for SQLite)
    ListRequests,             \* requests for lists
    CRLRequests,              \* requests for revocation lists
    Chunks,                   \* elements per chunk, as the environment may say
    WireSize,                 \* tokens under way before writing blocks
    MaxTime, MaxRequests, MaxFaults,
    None

\* A chunk size that is not a number.
Invalid == -1

ASSUME QueryConstantsOK ==
    /\ IsFiniteSet(Certs) /\ Issued \subseteq Certs /\ Expiry \in [Certs -> Nat \ {0}]
    /\ IsFiniteSet(IDs)
    /\ \A req \in ListRequests : req.kind \in {"certs", "ids"}
    /\ \A w \in CRLRequests : w.revAfter \in Nat
    /\ Conns \in Nat \ {0} /\ WireSize \in Nat \ {0}
    /\ MaxTime \in Nat /\ MaxRequests \in Nat /\ MaxFaults \in Nat

VARIABLES
    certs,     \* the table of certificates: the time of revocation, 0 if good
    users,     \* the identities
    now,
    conns,     \* the free connections
    chunk,     \* the chunk size
    h,         \* the requests
    wire,      \* per request, the tokens the client has not read yet
    eof,       \* the responses that are at their end
    cl,        \* the clients that read lists
    requests,  \* requests so far
    faults     \* faults that may still happen

vars == <<certs, users, now, conns, chunk, h, wire, eof, cl, requests, faults>>
table == <<certs, users, chunk>>
response == <<wire, eof, cl>>
-----------------------------------------------------------------------------
(* Queries.                                                                *)

\* A time is given as it is or relative to the current time; None if not at all.
getTime(t) == IF t = None THEN None ELSE IF t.relative THEN now + t.n ELSE t.n

AtLeast(x, t) == t = None \/ x >= t
AtMost(x, t) == t = None \/ x <= t

validateReq(req) ==
    /\ req.notExpired => req.expStart = None /\ req.expEnd = None
    /\ req.notRevoked => req.revStart = None /\ req.revEnd = None

\* GetCertificates.  For a caller with an affiliation the certificates are joined
\* with the identities: those of removed identities are not found.
GetCertificates(req, aff) ==
    {c \in DOMAIN certs :
        /\ aff = Root \/ (Owner[c] \in users /\ Within(aff, UserAff[Owner[c]]))
        /\ req.id = None \/ Owner[c] = req.id
        /\ IF req.notExpired THEN Expiry[c] >= now
           ELSE AtLeast(Expiry[c], getTime(req.expStart)) /\ AtMost(Expiry[c], getTime(req.expEnd))
        /\ IF req.notRevoked THEN certs[c] = 0
           ELSE /\ AtLeast(certs[c], getTime(req.revStart))
                /\ AtMost(certs[c], getTime(req.revEnd))
                /\ req.revStart = None /\ req.revEnd # None => certs[c] > 0}

\* GetFilteredUsers.  The query for all types below an affiliation lacks its
\* arguments and fails.
QueryFails(req, aff) == req.kind = "ids" /\ aff # Root /\ "*" \in req.roles
GetFilteredUsers(req, aff) ==
    {u \in users : Within(aff, UserAff[u]) /\ ("*" \in req.roles \/ UserType[u] \in req.roles)}

Query(req, aff) ==
    IF req.kind = "certs" THEN GetCertificates(req, aff) ELSE GetFilteredUsers(req, aff)

\* Variant: a window without an end ends now.
GetRevokedBeforeNow(w) ==
    {c \in DOMAIN certs :
        /\ certs[c] > w.revAfter /\ Expiry[c] > w.expAfter
        /\ w.expBefore # 0 => Expiry[c] < w.expBefore
        /\ certs[c] < IF w.revBefore = 0 THEN now ELSE w.revBefore}

\* GetRevokedCertificates: both ends of the windows are excluded.
GetRevokedCertificates(w) ==
    {c \in DOMAIN certs :
        /\ certs[c] > w.revAfter /\ Expiry[c] > w.expAfter
        /\ w.expBefore # 0 => Expiry[c] < w.expBefore
        /\ w.revBefore # 0 => certs[c] < w.revBefore}

ValidWindow(w) ==
    /\ w.revBefore # 0 => w.revAfter <= w.revBefore
    /\ w.expBefore # 0 => w.expAfter <= w.expBefore
-----------------------------------------------------------------------------
(* Responses.                                                              *)

Name(n) == [t |-> "name", v |-> n]
Elem(x) == [t |-> "elem", v |-> x]
Tok(s) == [t |-> s, v |-> None]
Scalar == Tok("scalar")

\* ServeHTTP after the handler: the errors, and whether the request succeeded.
Trailer(error) ==
    <<Name("errors"), Tok("[")>> \o (IF error THEN <<Elem("error")>> ELSE <<>>)
        \o <<Tok("]"), Name("messages"), Tok("["), Tok("]"), Name("success"), Scalar, Tok("}")>>

ResultHeader == <<Tok("{"), Name("result")>>
EmptyResult == ResultHeader \o <<Scalar>>
ListHeader(kind) == ResultHeader \o <<Tok("{"), Name(kind), Tok("[")>>
ListEnd == <<Tok("]"), Name("caname"), Scalar, Tok("}")>>

Idle == [pc |-> "idle"]
Finish(r) == h' = [h EXCEPT ![r] = Idle]

\* Write: what is written waits until it is flushed.
Written(r, tokens) == h[r].pending \o tokens
Room(r) == Len(wire[r]) < WireSize
Send(r, tokens) == wire' = [wire EXCEPT ![r] = @ \o tokens]
-----------------------------------------------------------------------------
(* Lists.                                                                  *)

NewRequest == requests < MaxRequests /\ requests' = requests + 1
NoFault == faults' = faults
Fault == faults > 0 /\ faults' = faults - 1

\* The client sends a request and reads the response.
Stream(path) == [kind |-> "stream", path |-> path]
NewClient == [st |-> "reading", stack |-> <<Stream(<<>>)>>, seen |-> <<>>]

RequestList(r) ==
    /\ h[r] = Idle /\ cl[r].st # "reading"
    /\ NewRequest
    /\ \E req \in ListRequests :
         h' = [h EXCEPT ![r] = [pc |-> "query", req |-> req]]
    /\ cl' = [cl EXCEPT ![r] = NewClient]
    /\ wire' = [wire EXCEPT ![r] = <<>>]
    /\ eof' = eof \ {r}
    /\ UNCHANGED <<table, now, conns, faults>>

Fail(r, tokens) ==
    /\ Send(r, tokens)
    /\ eof' = eof \cup {r}
    /\ h' = [h EXCEPT ![r] = [pc |-> "failed"]]

\* The request is refused, or the query fails: nothing was written.
RefuseList(r) ==
    LET req == h[r].req IN
    /\ h[r].pc = "query"
    /\ IF (req.kind = "certs" /\ ~validateReq(req)) \/ QueryFails(req, req.aff)
       THEN NoFault ELSE Fault
    /\ Fail(r, EmptyResult \o Trailer(TRUE))
    /\ UNCHANGED <<table, now, conns, cl, requests>>

\* The query takes a connection and keeps it.
QueryList(r) ==
    LET req == h[r].req IN
    /\ h[r].pc = "query" /\ conns > 0
    /\ req.kind = "certs" => validateReq(req)
    /\ ~QueryFails(req, req.aff)
    /\ conns' = conns - 1
    /\ h' = [h EXCEPT ![r] = [pc |-> "chunks", req |-> req, n |-> 0, cut |-> FALSE,
                              found |-> SetToSeq(Query(req, req.aff))]]
    /\ UNCHANGED <<table, now, response, requests, faults>>

\* The chunk size is read from the environment.  A list of identities keeps the
\* connection when it is no number; certificates have a deferred Close.
ChunksToDeliver(r) ==
    /\ h[r].pc = "chunks"
    /\ IF chunk = Invalid
       THEN /\ Fail(r, EmptyResult \o Trailer(TRUE))
            /\ conns' = conns + (IF h[r].req.kind = "certs" THEN 1 ELSE 0)
       ELSE /\ h' = [h EXCEPT ![r] =
                       [pc |-> "rows", req |-> h[r].req, found |-> h[r].found, n |-> 0,
                        cut |-> FALSE, pending |-> ListHeader(h[r].req.kind)]]
            /\ UNCHANGED <<conns, wire, eof>>
    /\ UNCHANGED <<table, now, cl, requests, faults>>

\* A row cannot be read or encoded: the array is left open.
RowFails(r) ==
    /\ h[r].pc = "rows" /\ h[r].n < Len(h[r].found) /\ Fault
    /\ Fail(r, Written(r, Trailer(TRUE)))
    /\ conns' = conns + (IF h[r].req.kind = "certs" THEN 1 ELSE 0)
    /\ UNCHANGED <<table, now, cl, requests>>

\* One row is written; a chunk that is full is flushed.
WriteRow(r) ==
    LET n == h[r].n + 1
        tokens == Written(r, <<Elem(h[r].found[n])>>)
    IN  /\ h[r].pc = "rows" /\ n <= Len(h[r].found) /\ chunk # 0
        /\ IF n % chunk = 0
           THEN Room(r) /\ Send(r, tokens) /\ h' = [h EXCEPT ![r].n = n, ![r].pending = <<>>]
           ELSE h' = [h EXCEPT ![r].n = n, ![r].pending = tokens] /\ UNCHANGED wire
        /\ UNCHANGED <<table, now, conns, eof, cl, requests, faults>>

\* A chunk size of 0 divides by zero.  The server closes the connection to the
\* client; what was not flushed is lost.
Panic(r) ==
    /\ h[r].pc = "rows" /\ h[r].n < Len(h[r].found) /\ chunk = 0
    /\ eof' = eof \cup {r}
    /\ conns' = conns + (IF h[r].req.kind = "certs" THEN 1 ELSE 0)
    /\ h' = [h EXCEPT ![r] = [pc |-> "failed"]]
    /\ UNCHANGED <<table, now, wire, cl, requests, faults>>

\* rows.Next returns false, at the end or after an error that nobody looks at;
\* it also closes the rows.
EndOfRows(r) ==
    /\ h[r].pc = "rows"
    /\ IF h[r].n = Len(h[r].found) THEN NoFault ELSE Fault
    /\ conns' = conns + 1
    /\ h' = [h EXCEPT ![r].pc = "end", ![r].cut = h[r].n < Len(h[r].found)]
    /\ UNCHANGED <<table, now, response, requests>>

EndList(r) ==
    /\ h[r].pc = "end" /\ Room(r)
    /\ Send(r, Written(r, ListEnd \o Trailer(FALSE)))
    /\ eof' = eof \cup {r}
    /\ h' = [h EXCEPT ![r] = [pc |-> "sent", found |-> h[r].found, cut |-> h[r].cut]]
    /\ UNCHANGED <<table, now, conns, cl, requests, faults>>
-----------------------------------------------------------------------------
(* The client: StreamJSONArray.                                            *)

ListPaths == {<<"result", "certs">>, <<"result", "ids">>, <<"errors">>}

Top(stack) == stack[Len(stack)]
Pop(stack) == SubSeq(stack, 1, Len(stack) - 1)
Replace(stack, frame) == Append(Pop(stack), frame)
Skip(delim) == [kind |-> "skip", path |-> <<delim>>]
Error == <<>>
Done == <<[kind |-> "done", path |-> <<>>]>>

\* stream: the value of a name.
StreamToken(stack, tok) ==
    LET f == Top(stack) IN
    CASE tok.t = "scalar" -> Pop(stack)
      [] tok.t = "[" /\ f.path \in ListPaths -> Replace(stack, [f EXCEPT !.kind = "elements"])
      [] tok.t = "[" /\ f.path \notin ListPaths -> Replace(stack, Skip("]"))
      [] tok.t = "{" /\ f.path \notin ListPaths -> Replace(stack, [f EXCEPT !.kind = "names"])
      [] OTHER -> Error

\* getNextName
NameToken(stack, tok) ==
    CASE tok.t = "name" -> Append(stack, Stream(Append(Top(stack).path, tok.v)))
      [] tok.t = "}" -> IF Len(stack) = 1 THEN Done ELSE Pop(stack)
      [] OTHER -> Error

\* The elements of the array: errCB returns every error that it decodes.
ElementToken(stack, tok) ==
    CASE tok.t = "elem" /\ Top(stack).path # <<"errors">> -> stack
      [] tok.t = "]" -> Pop(stack)
      [] OTHER -> Error

\* skipToDelim
SkipToken(stack, tok) ==
    CASE tok.t = Top(stack).path[1] -> Pop(stack)
      [] tok.t \in {"name", "scalar", "elem"} -> stack
      [] tok.t = "[" -> Append(stack, Skip("]"))
      [] tok.t = "{" -> Append(stack, Skip("}"))
      [] OTHER -> Error

Decode(stack, tok) ==
    CASE Top(stack).kind = "stream" -> StreamToken(stack, tok)
      [] Top(stack).kind = "names" -> NameToken(stack, tok)
      [] Top(stack).kind = "elements" -> ElementToken(stack, tok)
      [] Top(stack).kind = "skip" -> SkipToken(stack, tok)

\* What one token does to a client; elements go to the callback.
Decoded(c, tok) ==
    LET stack == Decode(c.stack, tok)
        element == Top(c.stack).kind = "elements" /\ tok.t = "elem"
    IN  IF c.st # "reading" THEN c
        ELSE [st |-> IF stack = Error THEN "error" ELSE IF stack = Done THEN "ok" ELSE "reading",
              stack |-> IF stack \in {Error, Done} THEN <<>> ELSE stack,
              seen |-> IF element THEN Append(c.seen, tok.v) ELSE c.seen]

\* The clients that the tokens make of a client: there is always one.
StreamJSONArray(c, tokens) ==
    LET decoded[i \in 0..Len(tokens)] ==
          IF i = 0 THEN {c} ELSE {Decoded(d, tokens[i]) : d \in decoded[i - 1]}
    IN  decoded[Len(tokens)]

\* The client decodes what has arrived.
ReadTokens(r) ==
    /\ cl[r].st = "reading" /\ wire[r] # <<>>
    /\ wire' = [wire EXCEPT ![r] = <<>>]
    /\ \E c \in StreamJSONArray(cl[r], wire[r]) : cl' = [cl EXCEPT ![r] = c]
    /\ UNCHANGED <<table, now, conns, h, eof, requests, faults>>

\* Variant: the end of the response is the end of the list.
EndOfStreamIsEnd(r) ==
    /\ cl[r].st = "reading" /\ wire[r] = <<>> /\ r \in eof
    /\ cl' = [cl EXCEPT ![r].st = "ok", ![r].stack = <<>>]
    /\ UNCHANGED <<table, now, conns, h, wire, eof, requests, faults>>

\* Variant: the end of a response that breaks off is no error to the decoder.
EndOfStreamIsRetried(r) ==
    /\ cl[r].st = "reading" /\ r \notin eof /\ Fault
    /\ cl' = [cl EXCEPT ![r].st = "error", ![r].stack = <<>>]
    /\ UNCHANGED <<table, now, conns, h, wire, eof, requests>>

\* The end of the response, or an error of the connection.
EndOfStream(r) ==
    /\ cl[r].st = "reading"
    /\ \/ wire[r] = <<>> /\ r \in eof /\ NoFault
       \/ r \notin eof /\ Fault
    /\ cl' = [cl EXCEPT ![r].st = "error", ![r].stack = <<>>]
    /\ UNCHANGED <<table, now, conns, h, wire, eof, requests>>

\* A client that is gone: what is sent is dropped.
Drop(r) ==
    /\ cl[r].st # "reading" /\ wire[r] # <<>>
    /\ wire' = [wire EXCEPT ![r] = <<>>]
    /\ UNCHANGED <<table, now, conns, h, eof, cl, requests, faults>>

\* The server forgets the response when the client has it.
EndOfResponse(r) ==
    /\ h[r].pc \in {"sent", "failed"} /\ cl[r].st # "reading"
    /\ Finish(r)
    /\ UNCHANGED <<table, now, conns, response, requests, faults>>
-----------------------------------------------------------------------------
(* Revocation and revocation lists.  A statement needs a free connection.  *)

Statement == conns > 0
Revoked == {c \in DOMAIN certs : certs[c] > 0}
AllRevoked == [revAfter |-> 0, revBefore |-> 0, expAfter |-> 0, expBefore |-> 0]
CRLContext(due, mine, w) == [pc |-> "crl", due |-> due, mine |-> mine, window |-> w]

\* With GenCRL the response to a revocation has a revocation list.
AfterRevocation(r, mine) ==
    \/ Finish(r)
    \/ mine # {} /\ h' = [h EXCEPT ![r] = CRLContext(h[r].due, mine, AllRevoked)]

\* Variant: a certificate may be revoked again.
RevokeAnyCertificate(r) ==
    /\ h[r] = Idle /\ Statement /\ NewRequest
    /\ \E c \in DOMAIN certs :
         h' = [h EXCEPT ![r] = [pc |-> "revokeCert", cert |-> c, due |-> Revoked]]
    /\ UNCHANGED <<table, now, conns, response, faults>>

\* By serial number: the certificate is looked up and must not be revoked.
RevokeCertLookup(r) ==
    /\ h[r] = Idle /\ Statement /\ NewRequest
    /\ \E c \in DOMAIN certs :
         /\ certs[c] = 0 /\ Owner[c] \in users
         /\ h' = [h EXCEPT ![r] = [pc |-> "revokeCert", cert |-> c, due |-> Revoked]]
    /\ UNCHANGED <<table, now, conns, response, faults>>

RevokeCertificate(r) ==
    /\ h[r].pc = "revokeCert" /\ Statement
    /\ certs' = [certs EXCEPT ![h[r].cert] = now]
    /\ AfterRevocation(r, {h[r].cert})
    /\ UNCHANGED <<users, chunk, now, conns, response, requests, faults>>

\* By name: the certificates to be reported are selected, then all are updated.
RevokeIDSelect(r) ==
    /\ h[r] = Idle /\ Statement /\ NewRequest
    /\ \E u \in users :
         h' = [h EXCEPT ![r] = [pc |-> "revokeID", id |-> u, due |-> Revoked,
                                mine |-> {c \in DOMAIN certs : Owner[c] = u /\ certs[c] = 0}]]
    /\ UNCHANGED <<table, now, conns, response, faults>>

RevokeAllOf(u) == [c \in DOMAIN certs |-> IF Owner[c] = u /\ certs[c] = 0 THEN now ELSE certs[c]]

RevokeCertificatesByID(r) ==
    /\ h[r].pc = "revokeID" /\ Statement
    /\ certs' = RevokeAllOf(h[r].id)
    /\ AfterRevocation(r, h[r].mine)
    /\ UNCHANGED <<users, chunk, now, conns, response, requests, faults>>

GenCRL(r) ==
    /\ h[r] = Idle /\ NewRequest
    /\ \E w \in CRLRequests :
         /\ ValidWindow(w)
         /\ h' = [h EXCEPT ![r] = CRLContext(Revoked, {}, w)]
    /\ UNCHANGED <<table, now, conns, response, faults>>

\* genCRL: one query; the list is signed later.
QueryRevoked(r) ==
    /\ h[r].pc = "crl" /\ Statement
    /\ h' = [h EXCEPT ![r] = [pc |-> "signed", due |-> h[r].due, mine |-> h[r].mine,
                              window |-> h[r].window,
                              crl |-> GetRevokedCertificates(h[r].window)]]
    /\ UNCHANGED <<table, now, conns, response, requests, faults>>

\* The list is returned, or the CA cannot sign.
ReturnCRL(r) ==
    /\ h[r].pc = "signed"
    /\ Finish(r)
    /\ UNCHANGED <<table, now, conns, response, requests, faults>>
-----------------------------------------------------------------------------
(* What else happens meanwhile.                                            *)

Issue ==
    /\ Statement
    /\ \E c \in Certs \ DOMAIN certs :
         /\ Owner[c] \in users
         /\ certs' = [x \in DOMAIN certs \cup {c} |-> IF x = c THEN 0 ELSE certs[x]]
    /\ UNCHANGED <<users, chunk, now, conns, h, response, requests, faults>>

DeleteUser ==
    /\ Statement /\ NewRequest
    /\ \E u \in users : users' = users \ {u} /\ certs' = RevokeAllOf(u)
    /\ UNCHANGED <<chunk, now, conns, h, response, faults>>

Tick ==
    /\ now < MaxTime /\ now' = now + 1
    /\ UNCHANGED <<table, conns, h, response, requests, faults>>

Init ==
    /\ certs = [c \in Issued |-> 0]
    /\ users = IDs
    /\ now = 1
    /\ conns = Conns /\ chunk \in Chunks
    /\ h = [r \in Handlers |-> Idle]
    /\ wire = [r \in Handlers |-> <<>>] /\ eof = {}
    /\ cl = [r \in Handlers |-> [st |-> "none", stack |-> <<>>, seen |-> <<>>]]
    /\ requests = 0 /\ faults = MaxFaults

ListStep(r) ==
    \/ RefuseList(r) \/ QueryList(r) \/ ChunksToDeliver(r) \/ RowFails(r) \/ WriteRow(r)
    \/ Panic(r) \/ EndOfRows(r) \/ EndList(r) \/ EndOfResponse(r)
RevokeStep(r) ==
    RevokeCertificate(r) \/ RevokeCertificatesByID(r) \/ QueryRevoked(r) \/ ReturnCRL(r)
ClientStep(r) == ReadTokens(r) \/ EndOfStream(r) \/ Drop(r)

Next ==
    \/ \E r \in Handlers :
         \/ RequestList(r) \/ ListStep(r) \/ ClientStep(r)
         \/ RevokeCertLookup(r) \/ RevokeIDSelect(r) \/ GenCRL(r) \/ RevokeStep(r)
    \/ Issue \/ DeleteUser \/ Tick

\* Requests that can go on do; the pool serves everyone who waits; the client
\* library reads until the end.  Nobody has to send a request.
Fairness == \A r \in Handlers : SF_vars(ListStep(r)) /\ SF_vars(RevokeStep(r)) /\ WF_vars(ClientStep(r))

Spec == Init /\ [][Next]_vars /\ Fairness
-----------------------------------------------------------------------------
(* Properties.                                                             *)

TypeOK ==
    /\ DOMAIN certs \subseteq Certs /\ \A c \in DOMAIN certs : certs[c] \in 0..MaxTime
    /\ users \subseteq IDs /\ now \in 1..MaxTime
    /\ conns \in 0..Conns
    /\ \A r \in Handlers :
         /\ h[r].pc \in {"idle", "query", "chunks", "rows", "end", "sent", "failed", "revokeCert",
                         "revokeID", "crl", "signed"}
         /\ cl[r].st \in {"none", "reading", "ok", "error"}
    /\ eof \subseteq Handlers /\ requests \in 0..MaxRequests /\ faults \in 0..MaxFaults

\* A client that reports success has got every row of the query, once and in
\* order, wherever the handler, the endpoint or the connection failed: a list
\* that breaks off is an error.  Only when the database ends the rows early
\* does a shortened list look complete.
SuccessMeansComplete ==
    \A r \in Handlers : cl[r].st = "ok" =>
        /\ h[r].pc # "failed"
        /\ h[r].pc = "sent" => cl[r].seen = h[r].found \/ h[r].cut

\* servergencrl.go genCRL, serverrevoke.go revokeHandler: a revocation list has
\* every certificate whose revocation was complete when the request came, and
\* those the request itself revoked, expired or not as the users guide says; and
\* no certificate that is not revoked.
CRLIsCurrent ==
    \A r \in Handlers : h[r].pc = "signed" =>
        /\ h[r].crl \subseteq Revoked
        /\ h[r].window = AllRevoked => h[r].due \cup h[r].mine \subseteq h[r].crl

\* api/client.go RevocationResponse: the list has unexpired certificates only.
CRLIsUnexpired ==
    [][\A r \in Handlers : h[r].pc = "crl" /\ h'[r].pc = "signed" =>
         \A c \in h'[r].crl : Expiry[c] >= now]_vars

\* serverrevoke.go revokeHandler: the time of a revocation, by which lists are
\* asked for, changes only when a request that revokes the certificate by its
\* number goes on after it was overtaken: it had looked the certificate up while
\* that was good, and another revocation, by number, by name or with the removal
\* of the identity, came in between.
RevocationTimeIsFinal ==
    [][\A c \in DOMAIN certs : certs[c] > 0 /\ certs'[c] # certs[c] =>
         \E r \in Handlers : /\ h[r].pc = "revokeCert" /\ h'[r].pc # "revokeCert"
                             /\ h[r].cert = c /\ c \notin h[r].due]_vars

\* Requests end.  A list of identities that is abandoned keeps its connection;
\* unless that happened, nobody waits for ever for a connection, for a client or
\* for the rest of a response (a request ends when its client has stopped reading).
Leaked == conns + Cardinality({r \in Handlers : h[r].pc \in {"chunks", "rows"}}) < Conns

RequestsEnd == \A r \in Handlers : h[r].pc # "idle" ~> h[r].pc = "idle" \/ Leaked
=============================================================================
