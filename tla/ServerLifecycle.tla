--------------------------- MODULE ServerLifecycle ---------------------------
(***************************************************************************)
(* Start and Stop of one Server object, the goroutines that serve its      *)
(* listeners, and the databases of its CAs.  Stop closes the listener and  *)
(* polls a channel for the message of the serving goroutine, a bounded     *)
(* number of times; the goroutine reads s.listener and s.wait only when it *)
(* gets there, and may get there after a later Start.                      *)
(*                                                                         *)
(* Start n uses listener n, channel n and goroutine n.  One caller makes   *)
(* the calls one after the other; a Start that blocks (BlockingStart) runs *)
(* in a thread of its own and Stop is called from another.                 *)
(***************************************************************************)
EXTENDS Integers, Sequences, FiniteSets

CONSTANTS
    CAs,           \* names of CAs that have a configuration file
    DefaultCA,     \* the CA of the server itself
    Configs,       \* the configurations to begin with
    MaxStarts,     \* bound on the listeners that are opened
    MaxPolls,      \* how often Stop polls (10 in the code)
    MaxFaults      \* bound on calls of the operating system that fail

\* What ServerConfig and the CA configurations say about a Start.
Config == [blocking : BOOLEAN, files : Seq(CAs), generated : Seq(CAs),
           intermediate : BOOLEAN, broken : SUBSET (CAs \cup {DefaultCA}),
           sameName : SUBSET SUBSET (CAs \cup {DefaultCA}),
           sameDN : SUBSET SUBSET (CAs \cup {DefaultCA}),
           tls : {"off", "auto", "missing"}, profile : BOOLEAN]

ASSUME LifecycleConstantsOK ==
    /\ DefaultCA \notin CAs
    /\ Configs \subseteq Config
    /\ MaxStarts \in Nat \ {0} /\ MaxPolls \in Nat \ {0} /\ MaxFaults \in Nat

VARIABLES
    cfg,        \* the configuration of the server
    start,      \* the thread that calls Start
    stop,       \* the thread that calls Stop
    g,          \* the serving goroutines
    listener,   \* s.listener
    sockets,    \* the listeners that accept connections
    wait,       \* s.wait
    closed,     \* the channels that were closed
    caMap,      \* the CAs of the server
    open,       \* the CAs whose database is open
    cafiles,    \* the configuration files that the server knows of
    tlsCert,    \* the TLS certificate exists
    profiling,  \* the profiling port is in use
    request,    \* a request is being processed
    starts,     \* the listeners so far
    faults,
    phase,      \* "running" after a Start that succeeded, "stopped" after a Stop
    disturbed,  \* a Stop timed out or failed, or serving ended by itself
    reopened,   \* the databases that requests opened
    missing     \* the CAs that were added without their database

vars == <<cfg, start, stop, g, listener, sockets, wait, closed, caMap, open, cafiles,
          tlsCert, profiling, request, starts, faults, phase, disturbed, reopened,
          missing>>

control == <<phase, disturbed, reopened, missing>>
server == <<listener, sockets, wait, closed, g, starts>>
config == <<cfg, cafiles, tlsCert, profiling>>
dbs == <<caMap, open>>
-----------------------------------------------------------------------------
Nil == 0
Starts == 1..MaxStarts

Goroutine == [pc : {"none", "begin", "serving", "closeListener", "closeDB", "notify",
                    "sending", "done", "panic"},
              lst : Starts \cup {Nil}, chan : Starts \cup {Nil}]

StartThread == [pc : {"idle", "config", "load", "default", "closeDB", "listen", "profile",
                      "serving"},
                todo : Seq(CAs), result : {"none", "ok", "error"}]

StopThread == [pc : {"idle", "poll"}, tries : 0..MaxPolls,
               result : {"none", "drained", "notWaiting", "timeout", "error"}]

TypeOK ==
    /\ cfg \in Configs
    /\ start \in StartThread /\ stop \in StopThread
    /\ g \in [Starts -> Goroutine]
    /\ listener \in Starts \cup {Nil} /\ sockets \subseteq Starts
    /\ wait \in Starts \cup {Nil} /\ closed \subseteq Starts
    /\ caMap \subseteq CAs \cup {DefaultCA} /\ open \subseteq CAs \cup {DefaultCA}
    /\ cafiles \in Seq(CAs)
    /\ tlsCert \in BOOLEAN /\ profiling \in BOOLEAN
    /\ request \in {"none", "getCA", "using"}
    /\ starts \in 0..MaxStarts /\ faults \in 0..MaxFaults
    /\ phase \in {"running", "stopped"} /\ disturbed \in BOOLEAN
    /\ reopened \subseteq {DefaultCA} /\ missing \subseteq CAs \cup {DefaultCA}

Init ==
    /\ cfg \in Configs
    /\ start = [pc |-> "idle", todo |-> <<>>, result |-> "none"]
    /\ stop = [pc |-> "idle", tries |-> 0, result |-> "none"]
    /\ g = [n \in Starts |-> [pc |-> "none", lst |-> Nil, chan |-> Nil]]
    /\ listener = Nil /\ sockets = {} /\ wait = Nil /\ closed = {}
    /\ caMap = {} /\ open = {}
    /\ cafiles = cfg.files
    /\ tlsCert = FALSE /\ profiling = FALSE
    /\ request = "none"
    /\ starts = 0 /\ faults = MaxFaults
    /\ phase = "stopped" /\ disturbed = FALSE /\ reopened = {}
    /\ missing = {}
-----------------------------------------------------------------------------
(* Start                                                                   *)

\* A step of the system that may fail.
OK == faults' = faults
Fails == faults > 0 /\ faults' = faults - 1

StartAt(pc) == start' = [start EXCEPT !.pc = pc]
Return(result) == start' = [pc |-> "idle", todo |-> <<>>, result |-> result]

CallStart ==
    /\ start.pc = "idle" /\ stop.pc = "idle" /\ starts < MaxStarts
    /\ \/ listener # Nil /\ UNCHANGED start             \* already started
       \/ listener = Nil /\ StartAt("config")
    /\ UNCHANGED <<config, server, dbs, stop, request, faults, control>>

\* The configuration files that are generated for cacount CAs.
createDefaultCAConfigs == cafiles \o cfg.generated

\* initConfig, initMultiCAConfig: with a number of CAs to generate and files at
\* the same time there is an error.  The files that are generated stay in the
\* configuration.
InitMultiCAConfig ==
    /\ start.pc = "config"
    /\ IF cfg.generated # <<>> /\ (cafiles # <<>> \/ cfg.intermediate)
       THEN StartAt("closeDB") /\ UNCHANGED <<cafiles, caMap>>
       ELSE /\ cafiles' = createDefaultCAConfigs
            /\ caMap' = {}
            /\ start' = [start EXCEPT !.todo = cafiles', !.pc =
                            IF cafiles' = <<>> THEN "default" ELSE "load"]
    /\ UNCHANGED <<cfg, tlsCert, profiling, server, open, stop, request, faults, control>>

\* compareDN: an error if issuer and subject of the two certificates are equal.
compareDN(c, ca) == {c, ca} \in cfg.sameDN

\* addCA: no two CAs of the server have the same name or the same certificate.
Conflict(ca) == \E c \in caMap : {c, ca} \in cfg.sameName \/ compareDN(c, ca)

\* initDB: an error of the database is logged, and the CA is added without it.  The
\* default CA keeps a database that is open.
initDB(ca) ==
    \/ OK /\ open' = open \cup {ca} /\ UNCHANGED missing
    \/ /\ Fails /\ (ca = DefaultCA => ca \notin open)
       /\ missing' = missing \cup {ca}
       /\ UNCHANGED open

\* loadCA: a CA that cannot be created or added has its database closed.
LoadCA ==
    LET ca == Head(start.todo) IN
    /\ start.pc = "load"
    /\ \/ /\ ca \notin cfg.broken /\ ~Conflict(ca)
          /\ caMap' = caMap \cup {ca}
          /\ initDB(ca)
          /\ start' = [start EXCEPT !.todo = Tail(@), !.pc =
                            IF Len(start.todo) > 1 THEN "load" ELSE "default"]
       \/ /\ ca \in cfg.broken \/ Conflict(ca)
          /\ open' = open \ {ca}
          /\ UNCHANGED <<caMap, faults, missing>>
          /\ StartAt("closeDB")
    /\ UNCHANGED <<config, server, stop, request, phase, disturbed, reopened>>

\* initDefaultCA: the database is open when the CA cannot be added.
InitDefaultCA ==
    /\ start.pc = "default"
    /\ initDB(DefaultCA)
    /\ \/ /\ DefaultCA \notin cfg.broken /\ ~Conflict(DefaultCA)
          /\ caMap' = caMap \cup {DefaultCA}
          /\ StartAt("listen")
       \/ /\ DefaultCA \in cfg.broken \/ Conflict(DefaultCA)
          /\ UNCHANGED caMap
          /\ StartAt("closeDB")
    /\ UNCHANGED <<config, server, stop, request, phase, disturbed, reopened>>

\* Variant: only the database of the default CA is closed.
CloseDefaultDB == open' = open \ {DefaultCA}

\* closeDB: the default CA and the CAs of the server.
CloseDB == open' = open \ ({DefaultCA} \cup caMap)

FailStart ==
    /\ start.pc = "closeDB"
    /\ CloseDB
    /\ Return("error")
    /\ UNCHANGED <<config, server, caMap, stop, request, faults, control>>

\* The TLS key and certificate that are configured have to exist; if none are
\* configured the CA issues a certificate, once.
TLSReady == cfg.tls \in {"off", "auto"}

autoGenerateTLSCertificateKey == tlsCert' = (tlsCert \/ cfg.tls = "auto")

\* listenAndServe: TLS, then the listener.
Listen ==
    LET n == starts + 1 IN
    /\ start.pc = "listen"
    /\ autoGenerateTLSCertificateKey
    /\ \/ /\ TLSReady /\ OK
          /\ starts' = n
          /\ listener' = n /\ sockets' = sockets \cup {n}
          /\ StartAt("profile")
       \/ /\ IF TLSReady THEN Fails ELSE OK
          /\ UNCHANGED <<starts, listener, sockets>>
          /\ StartAt("closeDB")
    /\ UNCHANGED <<cfg, cafiles, profiling, wait, closed, g, dbs, stop, request, control>>

\* closeListener: an error if there is no listener; s.listener is nil after.
CloseListener == listener' = Nil /\ sockets' = sockets \ {listener}

\* checkAndEnableProfiling: nothing ever closes the profiling port.
EnableProfiling ==
    /\ start.pc = "profile"
    /\ cfg.profile /\ profiling
    /\ CloseListener
    /\ StartAt("closeDB")
    /\ UNCHANGED <<config, wait, closed, g, starts, dbs, stop, request, faults, control>>

\* The server serves: in this thread or in a goroutine.
StartServing ==
    LET n == starts IN
    /\ start.pc = "profile"
    /\ ~(cfg.profile /\ profiling)
    /\ profiling' = cfg.profile
    /\ g' = [g EXCEPT ![n].pc = "begin"]
    /\ IF cfg.blocking THEN StartAt("serving") /\ UNCHANGED wait
                       ELSE Return("ok") /\ wait' = n
    /\ phase' = "running"
    /\ UNCHANGED <<cfg, cafiles, tlsCert, listener, sockets, closed, starts, dbs, stop,
                   request, faults, disturbed, reopened, missing>>

\* serve returns nil if Stop was faster, else the error of http.Serve, which is
\* never nil; Start then closes the databases once more.
BlockingStartReturns ==
    /\ start.pc = "serving" /\ g[starts].pc = "done"
    /\ IF g[starts].lst = Nil THEN Return("ok") ELSE StartAt("closeDB")
    /\ UNCHANGED <<config, server, dbs, stop, request, faults, control>>
-----------------------------------------------------------------------------
(* serve                                                                   *)

At(n, pc) == g' = [g EXCEPT ![n].pc = pc]

\* The goroutine reads s.listener when it runs.
ServeBegins(n) ==
    /\ g[n].pc = "begin"
    /\ g' = [g EXCEPT ![n].pc = IF listener = Nil THEN "done" ELSE "serving",
                      ![n].lst = listener]
    /\ UNCHANGED <<config, listener, sockets, wait, closed, starts, dbs, start, stop,
                   request, faults, control>>

\* http.Serve returns when the listener is closed, or by itself.
ServeReturns(n) ==
    /\ g[n].pc = "serving"
    /\ At(n, "closeListener")
    /\ \/ g[n].lst \notin sockets /\ OK /\ UNCHANGED disturbed
       \/ g[n].lst \in sockets /\ Fails /\ disturbed' = TRUE
    /\ UNCHANGED <<config, listener, sockets, wait, closed, starts, dbs, start, stop,
                   request, phase, reopened, missing>>

\* It closes whatever s.listener is now.
ServeClosesListener(n) ==
    /\ g[n].pc = "closeListener"
    /\ CloseListener
    /\ At(n, "closeDB")
    /\ UNCHANGED <<config, wait, closed, starts, dbs, start, stop, request, faults, control>>

ServeClosesDB(n) ==
    /\ g[n].pc = "closeDB"
    /\ CloseDB
    /\ At(n, "notify")
    /\ UNCHANGED <<config, listener, sockets, wait, closed, starts, caMap, start, stop,
                   request, faults, control>>

\* s.wait is read now; the send on a channel without buffer waits for Stop.
ServeNotifies(n) ==
    /\ g[n].pc = "notify"
    /\ g' = [g EXCEPT ![n].pc = IF wait = Nil THEN "done" ELSE "sending", ![n].chan = wait]
    /\ UNCHANGED <<config, listener, sockets, wait, closed, starts, dbs, start, stop,
                   request, faults, control>>

\* The send on a closed channel panics.
SendPanics(n) ==
    /\ g[n].pc = "sending" /\ g[n].chan \in closed
    /\ At(n, "panic")
    /\ UNCHANGED <<config, listener, sockets, wait, closed, starts, dbs, start, stop,
                   request, faults, control>>
-----------------------------------------------------------------------------
(* Stop                                                                    *)

StopReturns(result) == stop' = [pc |-> "idle", tries |-> 0, result |-> result]

\* Variant: Stop returns when the listener is closed.
CallStopDoesNotWait ==
    /\ stop.pc = "idle" /\ start.pc \in {"idle", "serving"} /\ listener # Nil
    /\ phase' = "stopped"
    /\ CloseListener
    /\ StopReturns("notWaiting")
    /\ UNCHANGED <<config, wait, closed, g, starts, dbs, start, request, faults,
                   disturbed, reopened, missing>>

CallStop ==
    /\ stop.pc = "idle" /\ start.pc \in {"idle", "serving"}
    /\ phase' = "stopped"
    /\ \/ /\ listener = Nil /\ OK
          /\ StopReturns("error")
          /\ UNCHANGED <<listener, sockets, disturbed>>
       \/ /\ listener # Nil /\ OK
          /\ CloseListener
          /\ IF wait = Nil THEN StopReturns("notWaiting")
                           ELSE stop' = [pc |-> "poll", tries |-> 0, result |-> "none"]
          /\ UNCHANGED disturbed
       \/ /\ listener # Nil /\ Fails               \* closing the socket fails
          /\ listener' = Nil
          /\ StopReturns("error")
          /\ disturbed' = TRUE
          /\ UNCHANGED sockets
    /\ UNCHANGED <<config, wait, closed, g, starts, dbs, start, request, reopened,
                   missing>>

\* Variant: Stop polls until it receives the message.
PollForever ==
    /\ stop.pc = "poll"
    /\ \E n \in Starts :
         /\ g[n].pc = "sending" /\ g[n].chan = wait
         /\ At(n, "done")
    /\ closed' = closed \cup {wait}
    /\ wait' = Nil
    /\ StopReturns("drained")
    /\ UNCHANGED <<config, listener, sockets, starts, dbs, start, request, faults, control>>

\* Variant: the channel is closed before the message was received.
PollClosesFirst ==
    /\ stop.pc = "poll" /\ stop.tries < MaxPolls
    /\ closed' = closed \cup {wait}
    /\ wait' = Nil
    /\ StopReturns("drained")
    /\ UNCHANGED <<config, g, listener, sockets, starts, dbs, start, request, faults, control>>

\* select with a default: the message is received if a goroutine is sending.
Poll ==
    /\ stop.pc = "poll" /\ stop.tries < MaxPolls
    /\ \/ \E n \in Starts :
            /\ g[n].pc = "sending" /\ g[n].chan = wait
            /\ At(n, "done")
            /\ closed' = closed \cup {wait}
            /\ wait' = Nil
            /\ StopReturns("drained")
       \/ /\ ~\E n \in Starts : g[n].pc = "sending" /\ g[n].chan = wait
          /\ stop' = [stop EXCEPT !.tries = @ + 1]
          /\ UNCHANGED <<g, closed, wait>>
    /\ UNCHANGED <<config, listener, sockets, starts, dbs, start, request, faults, control>>

\* Stop gives up; the channel stays.
StopTimesOut ==
    /\ stop.pc = "poll" /\ stop.tries = MaxPolls
    /\ CloseDB
    /\ StopReturns("timeout")
    /\ disturbed' = TRUE
    /\ UNCHANGED <<config, server, caMap, start, request, faults, phase, reopened,
                   missing>>
-----------------------------------------------------------------------------
(* Requests outlive the listener that accepted them.                       *)

Request ==
    /\ request = "none"
    /\ \E n \in Starts : g[n].pc = "serving" /\ g[n].lst \in sockets
    /\ request' = "getCA"
    /\ UNCHANGED <<config, server, dbs, start, stop, faults, control>>

\* GetCA opens the database again if it finds it closed.
RequestGetsCA ==
    /\ request = "getCA"
    /\ open' = open \cup {DefaultCA}
    /\ reopened' = IF DefaultCA \in open THEN reopened ELSE reopened \cup {DefaultCA}
    /\ request' = "using"
    /\ UNCHANGED <<config, server, caMap, start, stop, faults, phase, disturbed, missing>>

RequestEnds ==
    /\ request = "using"
    /\ request' = "none"
    /\ UNCHANGED <<config, server, dbs, start, stop, faults, control>>
-----------------------------------------------------------------------------
StartStep ==
    \/ InitMultiCAConfig \/ LoadCA \/ InitDefaultCA \/ FailStart \/ Listen
    \/ EnableProfiling \/ StartServing \/ BlockingStartReturns

ServeStep(n) ==
    \/ ServeBegins(n) \/ ServeReturns(n) \/ ServeClosesListener(n) \/ ServeClosesDB(n)
    \/ ServeNotifies(n) \/ SendPanics(n)

StopStep == Poll \/ StopTimesOut
RequestStep == RequestGetsCA \/ RequestEnds

Next ==
    \/ CallStart \/ StartStep \/ CallStop \/ StopStep \/ Request \/ RequestStep
    \/ \E n \in Starts : ServeStep(n)

\* Threads that can go on do.  Nobody has to call Start or Stop.
Fairness ==
    /\ WF_vars(StartStep) /\ WF_vars(StopStep) /\ WF_vars(RequestStep)
    /\ \A n \in Starts : WF_vars(ServeStep(n))

Spec == Init /\ [][Next]_vars /\ Fairness
-----------------------------------------------------------------------------
(* Properties.                                                             *)

\* A server that was started keeps its listener and the databases it could open
\* until Stop is called: what is left of earlier Starts and Stops does not reach
\* it, as long as no Stop timed out or failed and no http.Serve ended by itself.
StaysUp ==
    phase = "running" /\ ~disturbed =>
        listener \in sockets /\ caMap \subseteq open \cup missing

\* A Start that returns an error leaves no listener and no open database,
\* whichever CA, certificate or port was the reason; only a request that is
\* still being processed opens one.
FailedStartLeavesNothing ==
    start.pc = "idle" /\ start.result = "error" /\ phase = "stopped" /\ ~disturbed =>
        listener = Nil /\ sockets = {} /\ open \subseteq reopened

\* When Stop has received the message, nothing is left of the server: every
\* goroutine is done, the databases are closed unless a late request opened
\* one again, and nobody will send on the channel that Stop closed.
DrainedMeansDone ==
    stop.result = "drained" /\ phase = "stopped" /\ ~disturbed /\ start.pc = "idle" =>
        /\ \A n \in Starts : g[n].pc \in {"none", "done"}
        /\ sockets = {} /\ open \subseteq reopened

\* Start and Stop return.  A goroutine that serves ends after Stop was called:
\* unless Stop timed out or failed it does not stay behind, waiting for a
\* receiver.
CallsReturn ==
    /\ stop.pc # "idle" ~> stop.pc = "idle"
    /\ start.pc \notin {"idle", "serving"} ~> start.pc \in {"idle", "serving"}
    /\ \A n \in Starts :
         g[n].pc \notin {"none", "done"} /\ phase = "stopped"
            ~> g[n].pc = "done" \/ disturbed \/ phase = "running"
=============================================================================
