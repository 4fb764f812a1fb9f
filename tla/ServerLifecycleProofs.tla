------------------------ MODULE ServerLifecycleProofs ------------------------
(***************************************************************************)
(* What Start and Stop leave behind, for any configurations and any number *)
(* of Starts, polls and faults.  While no Stop has timed out or failed and *)
(* no http.Serve has ended by itself, at most one goroutine serves, the    *)
(* one of the last Start, and it is either up or being stopped; a Start    *)
(* that finds databases open repeats one that opened exactly those.        *)
(***************************************************************************)
EXTENDS ServerLifecycle, TLAPS

Live(n) == g[n].pc \notin {"none", "done"}
Stopping(n) == g[n].pc \in {"closeListener", "closeDB", "notify", "sending"}
Starting == start.pc \notin {"idle", "serving"}

(* The only socket is that of s.listener.                                  *)
SocketsInv ==
    /\ listener = Nil => sockets = {}
    /\ listener # Nil =>
         /\ sockets = {listener} /\ listener = starts
         /\ start.pc = "profile" \/ phase = "running"

(* Where the thread that calls Start is.                                   *)
StartInv ==
    /\ Starting => phase = "stopped" /\ stop.pc = "idle" /\ wait = Nil
    /\ start.pc = "profile" => starts # 0 /\ listener = starts /\ g[starts].pc = "none"
    /\ start.pc = "serving" => cfg.blocking /\ starts # 0 /\ g[starts].pc # "none"
    /\ phase = "running" =>
         /\ starts # 0 /\ listener = starts /\ g[starts].pc \in {"begin", "serving"}
         /\ stop.pc = "idle"
         /\ IF cfg.blocking THEN start.pc = "serving"
            ELSE start.pc = "idle" /\ start.result = "ok" /\ wait = starts

(* Where the thread that calls Stop is.                                    *)
StopInv ==
    /\ stop.pc = "poll" =>
         /\ ~cfg.blocking /\ starts # 0 /\ wait = starts /\ listener = Nil
         /\ start.pc = "idle" /\ start.result = "ok" /\ stop.result = "none"
    /\ wait # Nil => wait = starts /\ ~cfg.blocking /\ (phase = "running" \/ stop.pc = "poll")
    /\ stop.result = "drained" => ~cfg.blocking
    /\ \A n \in closed : g[n].pc = "done"

(* One goroutine at most serves or is being stopped.                       *)
ServeInv ==
    \A n \in Starts :
        /\ n > starts => g[n].pc = "none"
        /\ Live(n) =>
             /\ n = starts /\ g[n].pc # "panic"
             /\ \/ phase = "running"
                \/ start.pc = "serving"
                \/ stop.pc = "poll"
        /\ g[n].pc \notin {"none", "begin", "done"} => g[n].lst = n
        /\ Stopping(n) => phase = "stopped"
        /\ g[n].pc = "sending" => g[n].chan = wait /\ wait = n

(* Only requests opened databases that are open.                           *)
Released == open \subseteq reopened

Files == {cafiles[i] : i \in DOMAIN cafiles}
Clash(a, b) == {a, b} \in cfg.sameName \/ {a, b} \in cfg.sameDN

(* The first k files name CAs that can be added one after the other.       *)
PrefixLoads(k) ==
    \A i \in 1..k :
        /\ cafiles[i] \notin cfg.broken
        /\ \A j \in 1..(i - 1) : ~Clash(cafiles[j], cafiles[i])

DefaultLoads ==
    DefaultCA \notin cfg.broken /\ \A a \in Files : ~Clash(a, DefaultCA)

(* Every CA of the configuration was added, so a Start that is repeated    *)
(* adds the same ones.                                                     *)
Loaded ==
    /\ caMap = Files \cup {DefaultCA}
    /\ PrefixLoads(Len(cafiles)) /\ DefaultLoads

(* The files before the ones in todo were loaded.                          *)
LoadInv ==
    LET k == Len(cafiles) - Len(start.todo) IN
    start.pc = "load" =>
        /\ Len(start.todo) > 0 /\ k >= 0
        /\ \A i \in 1..Len(start.todo) : start.todo[i] = cafiles[k + i]
        /\ caMap = {cafiles[i] : i \in 1..k}
        /\ PrefixLoads(k)
        /\ \/ open \subseteq caMap \cup {DefaultCA}
           \/ open \subseteq Files \cup {DefaultCA} /\ PrefixLoads(Len(cafiles)) /\ DefaultLoads

DatabaseInv ==
    /\ start.pc # "load" => open \subseteq caMap \cup {DefaultCA}
    /\ start.pc \in {"load", "default", "listen", "profile"} \/ phase = "running" =>
         caMap \subseteq open \cup missing
    /\ start.pc \in {"idle", "config"} /\ ~cfg.blocking /\ phase = "stopped" /\ stop.pc = "idle"
         => Released
    /\ start.pc = "idle" /\ start.result = "error" /\ phase = "stopped" => Released
    /\ \A n \in Starts : g[n].pc \in {"notify", "sending"} => Released
    /\ start.pc \in {"idle", "config", "serving"} => Released \/ Loaded
    /\ start.pc = "serving" /\ g[starts].pc = "done" /\ g[starts].lst # Nil => Released
    /\ start.pc = "default" => caMap = Files /\ PrefixLoads(Len(cafiles))
    /\ start.pc \in {"listen", "profile"} => Loaded
    /\ start.pc \notin {"idle", "config", "closeDB"} \/ DefaultCA \in caMap =>
         cfg.generated = <<>> \/ cafiles # <<>>

Undisturbed ==
    /\ SocketsInv /\ StartInv /\ StopInv /\ ServeInv /\ LoadInv /\ DatabaseInv

(* What holds even if a Stop timed out: a Start that goes on has a listener *)
(* left to open, and Stop polls a channel.                                 *)
ThreadBounds ==
    /\ start.pc \in {"config", "load", "default", "listen"} => starts < MaxStarts
    /\ start.pc = "load" => start.todo # <<>>
    /\ start.pc = "profile" => starts # 0
    /\ stop.pc = "poll" => wait # Nil

LifecycleInv == TypeOK /\ ThreadBounds /\ (~disturbed => Undisturbed)
-----------------------------------------------------------------------------
(* Type correctness, and what the records of the threads become.           *)
LEMMA TypeInit == Init => TypeOK
<1> SUFFICES ASSUME Init PROVE TypeOK
  OBVIOUS
<1>1. cfg \in Config
  BY LifecycleConstantsOK DEF LifecycleConstantsOK, Init
<1>2. cafiles \in Seq(CAs)
  BY <1>1 DEF Init, Config
<1>3. start \in StartThread /\ stop \in StopThread
  BY LifecycleConstantsOK DEF LifecycleConstantsOK, Init, StartThread, StopThread
<1>4. g \in [Starts -> Goroutine]
  BY DEF Init, Goroutine
<1>5. starts \in 0..MaxStarts /\ faults \in 0..MaxFaults
  BY LifecycleConstantsOK DEF LifecycleConstantsOK, Init
<1>6. QED
  BY <1>2, <1>3, <1>4, <1>5 DEF Init, TypeOK, Nil

LEMMA StartAtEffect ==
    ASSUME start \in StartThread,
           NEW pc \in {"idle", "config", "load", "default", "closeDB", "listen", "profile",
                      "serving"},
           StartAt(pc)
    PROVE  /\ start' \in StartThread
           /\ start'.pc = pc /\ start'.todo = start.todo /\ start'.result = start.result
  BY DEF StartAt, StartThread

LEMMA ReturnEffect ==
    ASSUME NEW result \in {"none", "ok", "error"}, Return(result)
    PROVE  start' \in StartThread /\ start'.pc = "idle" /\ start'.result = result
  BY DEF Return, StartThread

LEMMA StopReturnsEffect ==
    ASSUME NEW result \in {"none", "drained", "notWaiting", "timeout", "error"},
           StopReturns(result)
    PROVE  stop' \in StopThread /\ stop'.pc = "idle" /\ stop'.result = result
  BY LifecycleConstantsOK DEF LifecycleConstantsOK, StopReturns, StopThread

LEMMA GoroutineEffect ==
    ASSUME g \in [Starts -> Goroutine], NEW n \in Starts, NEW x \in Goroutine,
           g' = [g EXCEPT ![n] = x]
    PROVE  /\ g' \in [Starts -> Goroutine]
           /\ g'[n] = x
           /\ \A m \in Starts \ {n} : g'[m] = g[m]
  OBVIOUS

LEMMA AtEffect ==
    ASSUME g \in [Starts -> Goroutine], NEW n \in Starts,
           NEW pc \in {"none", "begin", "serving", "closeListener", "closeDB", "notify",
                      "sending", "done", "panic"},
           At(n, pc)
    PROVE  /\ g' \in [Starts -> Goroutine]
           /\ g'[n].pc = pc /\ g'[n].lst = g[n].lst /\ g'[n].chan = g[n].chan
           /\ \A m \in Starts \ {n} : g'[m] = g[m]
<1>1. [g[n] EXCEPT !.pc = pc] \in Goroutine
  BY DEF Goroutine
<1>2. g' = [g EXCEPT ![n] = [g[n] EXCEPT !.pc = pc]]
  BY DEF At
<1>3. QED
  BY <1>1, <1>2, GoroutineEffect DEF Goroutine

(* What is loaded depends on the configuration and the map of the CAs.     *)
LEMMA LoadFrame ==
    ASSUME UNCHANGED <<cfg, cafiles>>
    PROVE  /\ Files' = Files /\ (DefaultLoads' <=> DefaultLoads)
           /\ \A k : PrefixLoads(k)' <=> PrefixLoads(k)
           /\ caMap' = caMap => (Loaded' <=> Loaded)
<1>1. Files' = Files
  BY DEF Files
<1>2. \A a, b : Clash(a, b)' <=> Clash(a, b)
  BY DEF Clash
<1>3. DefaultLoads' <=> DefaultLoads
  BY <1>1, <1>2 DEF DefaultLoads
<1>4. \A k : PrefixLoads(k)' <=> PrefixLoads(k)
  BY <1>2 DEF PrefixLoads
<1>5. QED
  BY <1>1, <1>3, <1>4 DEF Loaded
-----------------------------------------------------------------------------
(* One lemma for each action.  The first step says what the action does;   *)
(* the others are one per part of the invariant.                           *)
LEMMA CallStartKeeps == ASSUME LifecycleInv, CallStart PROVE LifecycleInv'
<1> USE DEF LifecycleInv, CallStart, config, server, dbs, control
<1>1. \/ UNCHANGED vars
      \/ /\ listener = Nil /\ start.pc = "idle" /\ start'.pc = "config"
         /\ start' \in StartThread /\ start'.result = start.result
         /\ starts < MaxStarts
  BY StartAtEffect DEF TypeOK, vars
<1>2. TypeOK' /\ ThreadBounds'
  BY <1>1 DEF TypeOK, ThreadBounds, vars
<1> SUFFICES ASSUME ~disturbed' PROVE Undisturbed'
  BY <1>2
<1>3. /\ Undisturbed /\ starts \in 0..MaxStarts
      /\ phase \in {"running", "stopped"} /\ stop.pc \in {"idle", "poll"}
  BY <1>1 DEF TypeOK, StopThread
<1> USE <1>3 DEF Undisturbed
<1> HIDE DEF LifecycleInv
<1> USE DEF Nil
<1>4. SocketsInv'
  BY <1>1 DEF SocketsInv, vars
<1>5. StartInv'
  BY <1>1 DEF StartInv, Starting, SocketsInv, StopInv, vars
<1>6. StopInv'
  BY <1>1 DEF StopInv, SocketsInv, StartInv, vars
<1>7. ServeInv'
  BY <1>1 DEF ServeInv, Live, Stopping, StartInv, vars
<1>8. LoadInv'
  BY <1>1, LoadFrame DEF LoadInv, StartInv, vars
<1>9. DatabaseInv'
  BY <1>1, LoadFrame DEF DatabaseInv, Released, StartInv, StopInv, vars
<1>10. QED
  BY <1>4, <1>5, <1>6, <1>7, <1>8, <1>9

LEMMA FailStartKeeps == ASSUME LifecycleInv, FailStart PROVE LifecycleInv'
<1> USE DEF LifecycleInv, FailStart, config, server, dbs, control
<1>1. /\ start.pc = "closeDB" /\ open' = open \ ({DefaultCA} \cup caMap)
      /\ start' \in StartThread /\ start'.pc = "idle" /\ start'.result = "error"
  BY ReturnEffect DEF CloseDB
<1>2. TypeOK' /\ ThreadBounds'
  BY <1>1 DEF TypeOK, ThreadBounds
<1> SUFFICES ASSUME ~disturbed' PROVE Undisturbed'
  BY <1>2
<1>3. /\ Undisturbed /\ starts \in 0..MaxStarts
      /\ phase \in {"running", "stopped"} /\ stop.pc \in {"idle", "poll"}
  BY <1>1 DEF TypeOK, StopThread
<1> USE <1>3 DEF Undisturbed
<1> HIDE DEF LifecycleInv
<1> USE DEF Nil
<1>4. SocketsInv'
  BY <1>1 DEF SocketsInv
<1>5. StartInv'
  BY <1>1 DEF StartInv, Starting, SocketsInv, StopInv
<1>6. StopInv'
  BY <1>1 DEF StopInv, SocketsInv, StartInv
<1>7. ServeInv'
  BY <1>1 DEF ServeInv, Live, Stopping, StartInv
<1>8. LoadInv'
  BY <1>1, LoadFrame DEF LoadInv, StartInv
<1>9. DatabaseInv'
  BY <1>1, LoadFrame DEF DatabaseInv, Released, StartInv, StopInv
<1>10. QED
  BY <1>4, <1>5, <1>6, <1>7, <1>8, <1>9

LEMMA EnableProfilingKeeps == ASSUME LifecycleInv, EnableProfiling PROVE LifecycleInv'
<1> USE DEF LifecycleInv, EnableProfiling, config, server, dbs, control
<1>1. /\ start.pc = "profile" /\ listener' = Nil /\ sockets' = sockets \ {listener}
      /\ start' \in StartThread /\ start'.pc = "closeDB" /\ start'.result = start.result
  BY StartAtEffect DEF TypeOK, CloseListener
<1>2. TypeOK' /\ ThreadBounds'
  BY <1>1 DEF TypeOK, ThreadBounds, Nil
<1> SUFFICES ASSUME ~disturbed' PROVE Undisturbed'
  BY <1>2
<1>3. /\ Undisturbed /\ starts \in 0..MaxStarts
      /\ phase \in {"running", "stopped"} /\ stop.pc \in {"idle", "poll"}
  BY <1>1 DEF TypeOK, StopThread
<1> USE <1>3 DEF Undisturbed
<1> HIDE DEF LifecycleInv
<1> USE DEF Nil
<1>4. SocketsInv'
  BY <1>1 DEF SocketsInv
<1>5. StartInv'
  BY <1>1 DEF StartInv, Starting, SocketsInv, StopInv
<1>6. StopInv'
  BY <1>1 DEF StopInv, SocketsInv, StartInv
<1>7. ServeInv'
  BY <1>1 DEF ServeInv, Live, Stopping, StartInv
<1>8. LoadInv'
  BY <1>1, LoadFrame DEF LoadInv, StartInv
<1>9. DatabaseInv'
  BY <1>1, LoadFrame DEF DatabaseInv, Released, StartInv, StopInv
<1>10. QED
  BY <1>4, <1>5, <1>6, <1>7, <1>8, <1>9

LEMMA BlockingStartReturnsKeeps == ASSUME LifecycleInv, BlockingStartReturns PROVE LifecycleInv'
<1> USE DEF LifecycleInv, BlockingStartReturns, config, server, dbs, control
<1>1. /\ start.pc = "serving" /\ g[starts].pc = "done" /\ start' \in StartThread
      /\ \/ g[starts].lst = Nil /\ start'.pc = "idle" /\ start'.result = "ok"
         \/ g[starts].lst # Nil /\ start'.pc = "closeDB"
  BY StartAtEffect, ReturnEffect DEF TypeOK
<1>2. TypeOK' /\ ThreadBounds'
  BY <1>1 DEF TypeOK, ThreadBounds
<1> SUFFICES ASSUME ~disturbed' PROVE Undisturbed'
  BY <1>2
<1>3. /\ Undisturbed /\ starts \in 0..MaxStarts
      /\ phase \in {"running", "stopped"} /\ stop.pc \in {"idle", "poll"}
  BY <1>1 DEF TypeOK, StopThread
<1> USE <1>3 DEF Undisturbed
<1> HIDE DEF LifecycleInv
<1> USE DEF Nil
<1>4. SocketsInv'
  BY <1>1 DEF SocketsInv
<1>5. StartInv'
  BY <1>1 DEF StartInv, Starting, SocketsInv, StopInv
<1>6. StopInv'
  BY <1>1 DEF StopInv, SocketsInv, StartInv
<1>7. ServeInv'
  BY <1>1 DEF ServeInv, Live, Stopping, StartInv
<1>8. LoadInv'
  BY <1>1, LoadFrame DEF LoadInv, StartInv
<1>9. DatabaseInv'
  BY <1>1, LoadFrame DEF DatabaseInv, Released, StartInv, StopInv
<1>10. QED
  BY <1>4, <1>5, <1>6, <1>7, <1>8, <1>9

LEMMA RequestKeeps == ASSUME LifecycleInv, Request PROVE LifecycleInv'
<1> USE DEF LifecycleInv, Request, config, server, dbs, control
<1>1. UNCHANGED <<config, server, dbs, start, stop, faults, control>>
      /\ request' = "getCA"
  OBVIOUS
<1>2. TypeOK' /\ ThreadBounds'
  BY <1>1 DEF TypeOK, ThreadBounds
<1> SUFFICES ASSUME ~disturbed' PROVE Undisturbed'
  BY <1>2
<1>3. /\ Undisturbed /\ starts \in 0..MaxStarts
      /\ phase \in {"running", "stopped"} /\ stop.pc \in {"idle", "poll"}
  BY <1>1 DEF TypeOK, StopThread
<1> USE <1>3 DEF Undisturbed
<1> HIDE DEF LifecycleInv
<1> USE DEF Nil
<1>4. SocketsInv'
  BY <1>1 DEF SocketsInv
<1>5. StartInv'
  BY <1>1 DEF StartInv, Starting, SocketsInv, StopInv
<1>6. StopInv'
  BY <1>1 DEF StopInv, SocketsInv, StartInv
<1>7. ServeInv'
  BY <1>1 DEF ServeInv, Live, Stopping, StartInv
<1>8. LoadInv'
  BY <1>1, LoadFrame DEF LoadInv, StartInv
<1>9. DatabaseInv'
  BY <1>1, LoadFrame DEF DatabaseInv, Released, StartInv, StopInv
<1>10. QED
  BY <1>4, <1>5, <1>6, <1>7, <1>8, <1>9

LEMMA RequestEndsKeeps == ASSUME LifecycleInv, RequestEnds PROVE LifecycleInv'
<1> USE DEF LifecycleInv, RequestEnds, config, server, dbs, control
<1>1. UNCHANGED <<config, server, dbs, start, stop, faults, control>>
      /\ request' = "none"
  OBVIOUS
<1>2. TypeOK' /\ ThreadBounds'
  BY <1>1 DEF TypeOK, ThreadBounds
<1> SUFFICES ASSUME ~disturbed' PROVE Undisturbed'
  BY <1>2
<1>3. /\ Undisturbed /\ starts \in 0..MaxStarts
      /\ phase \in {"running", "stopped"} /\ stop.pc \in {"idle", "poll"}
  BY <1>1 DEF TypeOK, StopThread
<1> USE <1>3 DEF Undisturbed
<1> HIDE DEF LifecycleInv
<1> USE DEF Nil
<1>4. SocketsInv'
  BY <1>1 DEF SocketsInv
<1>5. StartInv'
  BY <1>1 DEF StartInv, Starting, SocketsInv, StopInv
<1>6. StopInv'
  BY <1>1 DEF StopInv, SocketsInv, StartInv
<1>7. ServeInv'
  BY <1>1 DEF ServeInv, Live, Stopping, StartInv
<1>8. LoadInv'
  BY <1>1, LoadFrame DEF LoadInv, StartInv
<1>9. DatabaseInv'
  BY <1>1, LoadFrame DEF DatabaseInv, Released, StartInv, StopInv
<1>10. QED
  BY <1>4, <1>5, <1>6, <1>7, <1>8, <1>9

LEMMA RequestGetsCAKeeps == ASSUME LifecycleInv, RequestGetsCA PROVE LifecycleInv'
<1> USE DEF LifecycleInv, RequestGetsCA, config, server, dbs, control
<1>1. /\ request' = "using" /\ open' = open \cup {DefaultCA}
      /\ reopened' = IF DefaultCA \in open THEN reopened ELSE reopened \cup {DefaultCA}
  OBVIOUS
<1>2. TypeOK' /\ ThreadBounds'
  BY <1>1 DEF TypeOK, ThreadBounds
<1> SUFFICES ASSUME ~disturbed' PROVE Undisturbed'
  BY <1>2
<1>3. /\ Undisturbed /\ starts \in 0..MaxStarts
      /\ phase \in {"running", "stopped"} /\ stop.pc \in {"idle", "poll"}
  BY <1>1 DEF TypeOK, StopThread
<1> USE <1>3 DEF Undisturbed
<1> HIDE DEF LifecycleInv
<1> USE DEF Nil
<1>4. SocketsInv'
  BY <1>1 DEF SocketsInv
<1>5. StartInv'
  BY <1>1 DEF StartInv, Starting, SocketsInv, StopInv
<1>6. StopInv'
  BY <1>1 DEF StopInv, SocketsInv, StartInv
<1>7. ServeInv'
  BY <1>1 DEF ServeInv, Live, Stopping, StartInv
<1>8. LoadInv'
  BY <1>1, LoadFrame DEF LoadInv, StartInv
<1>9. DatabaseInv'
  BY <1>1, LoadFrame DEF DatabaseInv, Released, StartInv, StopInv
<1>10. QED
  BY <1>4, <1>5, <1>6, <1>7, <1>8, <1>9

(* A database is opened or missing; none is closed.                        *)
LEMMA InitDBEffect ==
    ASSUME NEW ca, initDB(ca), faults \in 0..MaxFaults
    PROVE  /\ open' \subseteq open \cup {ca} /\ ca \in open' \cup missing'
           /\ open \subseteq open' /\ missing \subseteq missing'
           /\ missing' \subseteq missing \cup {ca} /\ faults' \in 0..MaxFaults
<1>1. faults' \in 0..MaxFaults
  BY LifecycleConstantsOK DEF initDB, OK, Fails, LifecycleConstantsOK
<1>2. QED
  BY <1>1 DEF initDB

LEMMA InitDefaultCAKeeps == ASSUME LifecycleInv, InitDefaultCA PROVE LifecycleInv'
<1> USE DEF LifecycleInv, InitDefaultCA, config, server, dbs, control
<1>1. /\ start.pc = "default" /\ start' \in StartThread
      /\ open' \subseteq open \cup {DefaultCA} /\ open \cup missing \subseteq open' \cup missing'
      /\ DefaultCA \in open' \cup missing' /\ missing' \subseteq missing \cup {DefaultCA}
      /\ faults' \in 0..MaxFaults
      /\ \/ /\ DefaultCA \notin cfg.broken /\ ~Conflict(DefaultCA)
            /\ caMap' = caMap \cup {DefaultCA} /\ start'.pc = "listen"
         \/ caMap' = caMap /\ start'.pc = "closeDB"
  <2>1. /\ open' \subseteq open \cup {DefaultCA} /\ DefaultCA \in open' \cup missing'
        /\ open \subseteq open' /\ missing \subseteq missing'
        /\ missing' \subseteq missing \cup {DefaultCA} /\ faults' \in 0..MaxFaults
    BY InitDBEffect DEF TypeOK
  <2>2. QED
    BY <2>1, StartAtEffect DEF TypeOK
<1>2. TypeOK' /\ ThreadBounds'
  BY <1>1 DEF TypeOK, ThreadBounds
<1> SUFFICES ASSUME ~disturbed' PROVE Undisturbed'
  BY <1>2
<1>3. /\ Undisturbed /\ starts \in 0..MaxStarts
      /\ phase \in {"running", "stopped"} /\ stop.pc \in {"idle", "poll"}
  BY <1>1 DEF TypeOK, StopThread
<1> USE <1>3 DEF Undisturbed
<1>4. (start'.pc = "listen" => Loaded') /\ \A m \in Starts : ~Live(m)
  BY <1>1, <1>3, LoadFrame DEF ServeInv, StartInv, Starting, DatabaseInv, Loaded,
       DefaultLoads, Conflict, compareDN, Clash
<1> HIDE DEF LifecycleInv
<1> USE DEF Nil
<1>5. SocketsInv'
  BY <1>1, <1>4 DEF SocketsInv
<1>6. StartInv'
  BY <1>1, <1>4 DEF StartInv, Starting, SocketsInv, StopInv
<1>7. StopInv'
  BY <1>1, <1>4 DEF StopInv, SocketsInv, StartInv
<1>8. ServeInv'
  BY <1>1, <1>4 DEF ServeInv, Live, Stopping, StartInv
<1>9. LoadInv'
  BY <1>1, <1>4, LoadFrame DEF LoadInv, StartInv
<1>10. DatabaseInv'
  BY <1>1, <1>4, LoadFrame DEF DatabaseInv, Released, StartInv, StopInv, Live
<1>11. QED
  BY <1>5, <1>6, <1>7, <1>8, <1>9, <1>10

LEMMA ListenKeeps == ASSUME LifecycleInv, Listen PROVE LifecycleInv'
<1> USE DEF LifecycleInv, Listen, config, server, dbs, control
<1>1. /\ start.pc = "listen" /\ tlsCert' \in BOOLEAN /\ faults' \in 0..MaxFaults
      /\ start' \in StartThread /\ starts + 1 \in Starts /\ starts + 1 \in 1..MaxStarts
      /\ \/ /\ starts' = starts + 1 /\ listener' = starts'
            /\ sockets' = sockets \cup {starts'} /\ start'.pc = "profile"
         \/ UNCHANGED <<starts, listener, sockets>> /\ start'.pc = "closeDB"
  BY StartAtEffect, LifecycleConstantsOK DEF TypeOK, autoGenerateTLSCertificateKey, OK, Fails,
      LifecycleConstantsOK, ThreadBounds, Starts
<1>2. TypeOK' /\ ThreadBounds'
  BY <1>1 DEF TypeOK, ThreadBounds, Nil
<1> SUFFICES ASSUME ~disturbed' PROVE Undisturbed'
  BY <1>2
<1>3. /\ Undisturbed /\ starts \in 0..MaxStarts
      /\ phase \in {"running", "stopped"} /\ stop.pc \in {"idle", "poll"}
  BY <1>1 DEF TypeOK, StopThread
<1> USE <1>3 DEF Undisturbed
<1>4. /\ \A m \in Starts : ~Live(m)
      /\ g[starts + 1].pc = "none"
  BY <1>1, <1>3, LifecycleConstantsOK DEF LifecycleConstantsOK, ServeInv, StartInv,
       Starting, Starts, ThreadBounds
<1> HIDE DEF LifecycleInv
<1> USE DEF Nil
<1>5. SocketsInv'
  BY <1>1, <1>4 DEF SocketsInv, StartInv, Starting
<1>6. StartInv'
  BY <1>1, <1>4 DEF StartInv, Starting, SocketsInv, StopInv, ServeInv, Starts
<1>7. StopInv'
  BY <1>1, <1>4 DEF StopInv, SocketsInv, StartInv
<1>8. ServeInv'
  BY <1>1, <1>4 DEF ServeInv, Live, Stopping, StartInv, Starts
<1>9. LoadInv'
  BY <1>1, <1>4, LoadFrame DEF LoadInv, StartInv
<1>10. DatabaseInv'
  BY <1>1, <1>4, LoadFrame DEF DatabaseInv, Released, StartInv, StopInv
<1>11. QED
  BY <1>5, <1>6, <1>7, <1>8, <1>9, <1>10

LEMMA StartServingKeeps == ASSUME LifecycleInv, StartServing PROVE LifecycleInv'
<1> USE DEF LifecycleInv, StartServing, config, server, dbs, control
<1>1. /\ start.pc = "profile" /\ profiling' \in BOOLEAN /\ phase' = "running"
      /\ start' \in StartThread /\ starts \in Starts
      /\ IF cfg.blocking THEN start'.pc = "serving" /\ wait' = wait
         ELSE start'.pc = "idle" /\ start'.result = "ok" /\ wait' = starts
      /\ g' \in [Starts -> Goroutine] /\ \A m \in Starts \ {starts} : g'[m] = g[m]
      /\ g'[starts].pc = "begin"
  <2>1. starts \in Starts /\ At(starts, "begin")
    BY DEF TypeOK, ThreadBounds, Starts, At
  <2>2. profiling' \in BOOLEAN
    BY LifecycleConstantsOK DEF LifecycleConstantsOK, TypeOK, Config
  <2>3. QED
    BY <2>1, <2>2, StartAtEffect, ReturnEffect, AtEffect DEF TypeOK
<1>2. TypeOK' /\ ThreadBounds'
  BY <1>1 DEF TypeOK, ThreadBounds, Nil, Starts
<1> SUFFICES ASSUME ~disturbed' PROVE Undisturbed'
  BY <1>2
<1>3. /\ Undisturbed /\ starts \in 0..MaxStarts
      /\ phase \in {"running", "stopped"} /\ stop.pc \in {"idle", "poll"}
  BY <1>1 DEF TypeOK, StopThread
<1> USE <1>3 DEF Undisturbed
<1>4. \A m \in Starts : ~Live(m)
  BY <1>1, <1>3 DEF ServeInv, StartInv, Starting
<1> HIDE DEF LifecycleInv
<1> USE DEF Nil
<1>5. SocketsInv'
  BY <1>1, <1>4 DEF SocketsInv
<1>6. StartInv'
  BY <1>1, <1>4 DEF StartInv, Starting, SocketsInv, StopInv
<1>7. StopInv'
  BY <1>1, <1>4 DEF StopInv, SocketsInv, StartInv
<1>8. ServeInv'
  BY <1>1, <1>4 DEF ServeInv, Live, Stopping, StartInv
<1>9. LoadInv'
  BY <1>1, <1>4, LoadFrame DEF LoadInv, StartInv
<1>10. DatabaseInv'
  BY <1>1, <1>4, LoadFrame DEF DatabaseInv, Released, StartInv, StopInv
<1>11. QED
  BY <1>5, <1>6, <1>7, <1>8, <1>9, <1>10

LEMMA CallStopKeeps == ASSUME LifecycleInv, CallStop PROVE LifecycleInv'
<1> USE DEF LifecycleInv, CallStop, config, server, dbs, control
<1>1. /\ stop.pc = "idle" /\ start.pc \in {"idle", "serving"} /\ phase' = "stopped"
      /\ stop' \in StopThread /\ faults' \in 0..MaxFaults
      /\ \/ /\ listener = Nil /\ stop'.pc = "idle" /\ stop'.result = "error"
            /\ UNCHANGED <<listener, sockets, disturbed>>
         \/ /\ listener # Nil /\ listener' = Nil /\ sockets' = sockets \ {listener}
            /\ IF wait = Nil THEN stop'.pc = "idle" /\ stop'.result = "notWaiting"
                            ELSE stop'.pc = "poll" /\ stop'.result = "none"
            /\ disturbed' = disturbed
         \/ /\ listener' = Nil /\ sockets' = sockets /\ stop'.pc = "idle"
            /\ disturbed' = TRUE
  BY StopReturnsEffect, LifecycleConstantsOK DEF TypeOK, OK, Fails,
       LifecycleConstantsOK, CloseListener, StopThread
<1>2. TypeOK' /\ ThreadBounds'
  BY <1>1 DEF TypeOK, ThreadBounds, Starts, Nil
<1> SUFFICES ASSUME ~disturbed' PROVE Undisturbed'
  BY <1>2
<1>3. /\ Undisturbed /\ starts \in 0..MaxStarts
      /\ phase \in {"running", "stopped"} /\ stop.pc \in {"idle", "poll"}
  BY <1>1 DEF TypeOK, StopThread
<1> USE <1>3 DEF Undisturbed
<1> HIDE DEF LifecycleInv
<1> USE DEF Nil
<1>4. SocketsInv'
  BY <1>1 DEF SocketsInv
<1>5. StartInv'
  BY <1>1 DEF StartInv, Starting, SocketsInv, StopInv
<1>6. StopInv'
  BY <1>1 DEF StopInv, SocketsInv, StartInv
<1>7. ServeInv'
  BY <1>1 DEF ServeInv, Live, Stopping, StartInv
<1>8. LoadInv'
  BY <1>1, LoadFrame DEF LoadInv, StartInv
<1>9. DatabaseInv'
  BY <1>1, LoadFrame DEF DatabaseInv, Released, StartInv, StopInv
<1>10. QED
  BY <1>4, <1>5, <1>6, <1>7, <1>8, <1>9

LEMMA StopTimesOutKeeps == ASSUME LifecycleInv, StopTimesOut PROVE LifecycleInv'
<1> USE DEF LifecycleInv, StopTimesOut, config, server, dbs, control
<1>1. /\ disturbed' = TRUE /\ open' \subseteq open /\ stop' \in StopThread
  BY StopReturnsEffect DEF CloseDB
<1>2. TypeOK' /\ ThreadBounds'
  BY <1>1 DEF TypeOK, ThreadBounds
<1>3. QED
  BY <1>1, <1>2

LEMMA ServeReturnsKeeps ==
    ASSUME LifecycleInv, NEW n \in Starts, ServeReturns(n) PROVE LifecycleInv'
<1> USE DEF LifecycleInv, ServeReturns, config, server, dbs, control
<1>1. /\ g[n].pc = "serving" /\ faults' \in 0..MaxFaults
      /\ (g[n].lst \notin sockets /\ disturbed' = disturbed) \/ disturbed' = TRUE
      /\ g' \in [Starts -> Goroutine] /\ \A m \in Starts \ {n} : g'[m] = g[m]
      /\ g'[n].pc = "closeListener" /\ g'[n].lst = g[n].lst /\ g'[n].chan = g[n].chan
  BY AtEffect, LifecycleConstantsOK DEF TypeOK, OK, Fails, LifecycleConstantsOK
<1>2. TypeOK' /\ ThreadBounds'
  BY <1>1 DEF TypeOK, ThreadBounds
<1> SUFFICES ASSUME ~disturbed' PROVE Undisturbed'
  BY <1>2
<1>3. /\ Undisturbed /\ starts \in 0..MaxStarts
      /\ phase \in {"running", "stopped"} /\ stop.pc \in {"idle", "poll"}
  BY <1>1 DEF TypeOK, StopThread
<1> USE <1>3 DEF Undisturbed
<1>4. /\ n = starts /\ g[n].lst = n /\ closed \subseteq Starts
      /\ g[n].lst \notin sockets /\ phase = "stopped" /\ start.pc \in {"idle", "serving"}
  BY <1>1, <1>3 DEF ServeInv, Live, Stopping, StartInv, StopInv, SocketsInv, Nil,
       TypeOK, LifecycleInv
<1> HIDE DEF LifecycleInv
<1> USE DEF Nil
<1>5. SocketsInv'
  BY <1>1, <1>4 DEF SocketsInv
<1>6. StartInv'
  BY <1>1, <1>4 DEF StartInv, Starting, SocketsInv, StopInv
<1>7. StopInv'
  BY <1>1, <1>4 DEF StopInv, SocketsInv, StartInv
<1>8. ServeInv'
  BY <1>1, <1>4 DEF ServeInv, Live, Stopping, StartInv
<1>9. LoadInv'
  BY <1>1, <1>4, LoadFrame DEF LoadInv, StartInv
<1>10. DatabaseInv'
  BY <1>1, <1>4, LoadFrame DEF DatabaseInv, Released, StartInv, StopInv
<1>11. QED
  BY <1>5, <1>6, <1>7, <1>8, <1>9, <1>10

LEMMA ServeClosesListenerKeeps ==
    ASSUME LifecycleInv, NEW n \in Starts, ServeClosesListener(n) PROVE LifecycleInv'
<1> USE DEF LifecycleInv, ServeClosesListener, config, server, dbs, control
<1>1. /\ g[n].pc = "closeListener"
      /\ listener' = Nil /\ sockets' = sockets \ {listener}
      /\ g' \in [Starts -> Goroutine] /\ \A m \in Starts \ {n} : g'[m] = g[m]
      /\ g'[n].pc = "closeDB" /\ g'[n].lst = g[n].lst /\ g'[n].chan = g[n].chan
  BY AtEffect DEF TypeOK, CloseListener
<1>2. TypeOK' /\ ThreadBounds'
  BY <1>1 DEF TypeOK, ThreadBounds, Nil
<1> SUFFICES ASSUME ~disturbed' PROVE Undisturbed'
  BY <1>2
<1>3. /\ Undisturbed /\ starts \in 0..MaxStarts
      /\ phase \in {"running", "stopped"} /\ stop.pc \in {"idle", "poll"}
  BY <1>1 DEF TypeOK, StopThread
<1> USE <1>3 DEF Undisturbed
<1>4. /\ n = starts /\ g[n].lst = n /\ closed \subseteq Starts
      /\ listener = Nil /\ sockets = {} /\ phase = "stopped" /\ start.pc \in {"idle", "serving"}
  BY <1>1, <1>3 DEF ServeInv, Live, Stopping, StartInv, StopInv, SocketsInv, Nil,
       TypeOK, LifecycleInv
<1> HIDE DEF LifecycleInv
<1> USE DEF Nil
<1>5. SocketsInv'
  BY <1>1, <1>4 DEF SocketsInv, ServeInv, Live, Stopping, StartInv, StopInv
<1>6. StartInv'
  BY <1>1, <1>4 DEF StartInv, Starting, SocketsInv, StopInv
<1>7. StopInv'
  BY <1>1, <1>4 DEF StopInv, SocketsInv, StartInv
<1>8. ServeInv'
  BY <1>1, <1>4 DEF ServeInv, Live, Stopping, StartInv
<1>9. LoadInv'
  BY <1>1, <1>4, LoadFrame DEF LoadInv, StartInv
<1>10. DatabaseInv'
  BY <1>1, <1>4, LoadFrame DEF DatabaseInv, Released, StartInv, StopInv
<1>11. QED
  BY <1>5, <1>6, <1>7, <1>8, <1>9, <1>10

LEMMA ServeClosesDBKeeps ==
    ASSUME LifecycleInv, NEW n \in Starts, ServeClosesDB(n) PROVE LifecycleInv'
<1> USE DEF LifecycleInv, ServeClosesDB, config, server, dbs, control
<1>1. /\ g[n].pc = "closeDB" /\ open' = open \ ({DefaultCA} \cup caMap)
      /\ g' \in [Starts -> Goroutine] /\ \A m \in Starts \ {n} : g'[m] = g[m]
      /\ g'[n].pc = "notify" /\ g'[n].lst = g[n].lst /\ g'[n].chan = g[n].chan
  BY AtEffect DEF TypeOK, CloseDB
<1>2. TypeOK' /\ ThreadBounds'
  BY <1>1 DEF TypeOK, ThreadBounds
<1> SUFFICES ASSUME ~disturbed' PROVE Undisturbed'
  BY <1>2
<1>3. /\ Undisturbed /\ starts \in 0..MaxStarts
      /\ phase \in {"running", "stopped"} /\ stop.pc \in {"idle", "poll"}
  BY <1>1 DEF TypeOK, StopThread
<1> USE <1>3 DEF Undisturbed
<1>4. /\ n = starts /\ g[n].lst = n /\ closed \subseteq Starts
      /\ phase = "stopped" /\ start.pc \in {"idle", "serving"}
  BY <1>1, <1>3 DEF ServeInv, Live, Stopping, StartInv, StopInv, SocketsInv, Nil,
       TypeOK, LifecycleInv
<1> HIDE DEF LifecycleInv
<1> USE DEF Nil
<1>5. SocketsInv'
  BY <1>1, <1>4 DEF SocketsInv
<1>6. StartInv'
  BY <1>1, <1>4 DEF StartInv, Starting, SocketsInv, StopInv
<1>7. StopInv'
  BY <1>1, <1>4 DEF StopInv, SocketsInv, StartInv
<1>8. ServeInv'
  BY <1>1, <1>4 DEF ServeInv, Live, Stopping, StartInv
<1>9. LoadInv'
  BY <1>1, <1>4, LoadFrame DEF LoadInv, StartInv, ServeInv, Live, Stopping, StopInv
<1>10. DatabaseInv'
  BY <1>1, <1>4, LoadFrame DEF DatabaseInv, Released, StartInv, StopInv, ServeInv, Live, Stopping
<1>11. QED
  BY <1>5, <1>6, <1>7, <1>8, <1>9, <1>10

LEMMA SendPanicsKeeps ==
    ASSUME LifecycleInv, NEW n \in Starts, SendPanics(n) PROVE LifecycleInv'
<1> USE DEF LifecycleInv, SendPanics, config, server, dbs, control
<1>1. /\ g[n].pc = "sending" /\ g[n].chan \in closed
      /\ g' \in [Starts -> Goroutine] /\ \A m \in Starts \ {n} : g'[m] = g[m]
      /\ g'[n].pc = "panic" /\ g'[n].lst = g[n].lst /\ g'[n].chan = g[n].chan
  BY AtEffect DEF TypeOK
<1>2. TypeOK' /\ ThreadBounds'
  BY <1>1 DEF TypeOK, ThreadBounds
<1> SUFFICES ASSUME ~disturbed' PROVE Undisturbed'
  BY <1>2
<1>3. /\ Undisturbed /\ starts \in 0..MaxStarts
      /\ phase \in {"running", "stopped"} /\ stop.pc \in {"idle", "poll"}
  BY <1>1 DEF TypeOK, StopThread
<1> USE <1>3 DEF Undisturbed
<1>4. FALSE
  BY <1>1, <1>3 DEF ServeInv, StopInv
<1>5. QED
  BY <1>4

LEMMA ServeBeginsKeeps ==
    ASSUME LifecycleInv, NEW n \in Starts, ServeBegins(n) PROVE LifecycleInv'
<1> USE DEF LifecycleInv, ServeBegins, config, server, dbs, control
<1>1. /\ g[n].pc = "begin" /\ g' \in [Starts -> Goroutine]
      /\ \A m \in Starts \ {n} : g'[m] = g[m]
      /\ g'[n].pc = (IF listener = Nil THEN "done" ELSE "serving") /\ g'[n].lst = listener
  <2> DEFINE x == [g[n] EXCEPT !.pc = IF listener = Nil THEN "done" ELSE "serving",
                            !.lst = listener]
  <2>1. x \in Goroutine /\ g' = [g EXCEPT ![n] = x]
    BY DEF TypeOK, Goroutine
  <2>2. x.pc = (IF listener = Nil THEN "done" ELSE "serving") /\ x.lst = listener
    BY DEF TypeOK, Goroutine
  <2> HIDE DEF x
  <2>3. QED
    BY <2>1, <2>2, GoroutineEffect DEF TypeOK
<1>2. TypeOK' /\ ThreadBounds'
  BY <1>1 DEF TypeOK, ThreadBounds
<1> SUFFICES ASSUME ~disturbed' PROVE Undisturbed'
  BY <1>2
<1>3. /\ Undisturbed /\ starts \in 0..MaxStarts
      /\ phase \in {"running", "stopped"} /\ stop.pc \in {"idle", "poll"}
  BY <1>1 DEF TypeOK, StopThread
<1> USE <1>3 DEF Undisturbed
<1>4. /\ n = starts /\ closed \subseteq Starts \ {n}
      /\ listener \in {Nil, n} /\ start.pc \in {"idle", "serving"}
      /\ listener = Nil => phase = "stopped"
  BY <1>1, <1>3 DEF ServeInv, Live, StartInv, StopInv, SocketsInv, Starting, TypeOK, Starts, Nil
<1> HIDE DEF LifecycleInv
<1> USE DEF Nil
<1>5. SocketsInv'
  BY <1>1, <1>4 DEF SocketsInv
<1>6. StartInv'
  BY <1>1, <1>4 DEF StartInv, Starting, SocketsInv, StopInv
<1>7. StopInv'
  BY <1>1, <1>4 DEF StopInv, SocketsInv, StartInv
<1>8. ServeInv'
  BY <1>1, <1>4 DEF ServeInv, Live, Stopping, StartInv
<1>9. LoadInv'
  BY <1>1, <1>4, LoadFrame DEF LoadInv, StartInv
<1>10. DatabaseInv'
  BY <1>1, <1>4, LoadFrame DEF DatabaseInv, Released, StartInv, StopInv
<1>11. QED
  BY <1>5, <1>6, <1>7, <1>8, <1>9, <1>10

LEMMA ServeNotifiesKeeps ==
    ASSUME LifecycleInv, NEW n \in Starts, ServeNotifies(n) PROVE LifecycleInv'
<1> USE DEF LifecycleInv, ServeNotifies, config, server, dbs, control
<1>1. /\ g[n].pc = "notify" /\ g' \in [Starts -> Goroutine]
      /\ \A m \in Starts \ {n} : g'[m] = g[m]
      /\ g'[n].pc = (IF wait = Nil THEN "done" ELSE "sending")
      /\ g'[n].lst = g[n].lst /\ g'[n].chan = wait
  <2> DEFINE x == [g[n] EXCEPT !.pc = IF wait = Nil THEN "done" ELSE "sending", !.chan = wait]
  <2>1. x \in Goroutine /\ g' = [g EXCEPT ![n] = x]
    BY DEF TypeOK, Goroutine
  <2>2. /\ x.pc = (IF wait = Nil THEN "done" ELSE "sending")
        /\ x.lst = g[n].lst /\ x.chan = wait
    BY DEF TypeOK, Goroutine
  <2> HIDE DEF x
  <2>3. QED
    BY <2>1, <2>2, GoroutineEffect DEF TypeOK
<1>2. TypeOK' /\ ThreadBounds'
  BY <1>1 DEF TypeOK, ThreadBounds
<1> SUFFICES ASSUME ~disturbed' PROVE Undisturbed'
  BY <1>2
<1>3. /\ Undisturbed /\ starts \in 0..MaxStarts
      /\ phase \in {"running", "stopped"} /\ stop.pc \in {"idle", "poll"}
  BY <1>1 DEF TypeOK, StopThread
<1> USE <1>3 DEF Undisturbed
<1>4. /\ n = starts /\ closed \subseteq Starts \ {n} /\ g[n].lst = n
      /\ wait \in {Nil, n} /\ start.pc \in {"idle", "serving"}
      /\ phase = "stopped" /\ Released
  BY <1>1, <1>3 DEF ServeInv, Live, Stopping, StartInv, StopInv, DatabaseInv, TypeOK, Starts, Nil
<1> HIDE DEF LifecycleInv
<1> USE DEF Nil
<1>5. SocketsInv'
  BY <1>1, <1>4 DEF SocketsInv
<1>6. StartInv'
  BY <1>1, <1>4 DEF StartInv, Starting, SocketsInv, StopInv
<1>7. StopInv'
  BY <1>1, <1>4 DEF StopInv, SocketsInv, StartInv
<1>8. ServeInv'
  BY <1>1, <1>4 DEF ServeInv, Live, Stopping, StartInv
<1>9. LoadInv'
  BY <1>1, <1>4, LoadFrame DEF LoadInv, StartInv
<1>10. DatabaseInv'
  BY <1>1, <1>4, LoadFrame DEF DatabaseInv, Released, StartInv, StopInv
<1>11. QED
  BY <1>5, <1>6, <1>7, <1>8, <1>9, <1>10

LEMMA PollKeeps == ASSUME LifecycleInv, Poll PROVE LifecycleInv'
<1> USE DEF LifecycleInv, Poll, config, server, dbs, control
<1> DEFINE Received(n) ==
             /\ g[n].pc = "sending" /\ g[n].chan = wait
             /\ g'[n].pc = "done" /\ g'[n].lst = g[n].lst
             /\ \A m \in Starts \ {n} : g'[m] = g[m]
             /\ closed' = closed \cup {wait} /\ wait' = Nil
             /\ stop'.pc = "idle" /\ stop'.result = "drained"
<1>1. /\ stop.pc = "poll" /\ stop' \in StopThread /\ g' \in [Starts -> Goroutine]
      /\ wait \in Starts /\ wait' \in {Nil, wait} /\ closed' \subseteq Starts
      /\ \/ \E n \in Starts : Received(n)
         \/ /\ stop'.pc = "poll" /\ stop'.result = stop.result
            /\ UNCHANGED <<g, closed, wait>>
  <2>1. wait \in Starts /\ stop.pc = "poll"
    BY DEF TypeOK, ThreadBounds, Nil
  <2>2. CASE \E n \in Starts : /\ g[n].pc = "sending" /\ g[n].chan = wait /\ At(n, "done")
                               /\ closed' = closed \cup {wait} /\ wait' = Nil
                               /\ StopReturns("drained")
    <3>1. PICK n \in Starts : /\ g[n].pc = "sending" /\ g[n].chan = wait /\ At(n, "done")
                              /\ closed' = closed \cup {wait} /\ wait' = Nil
                              /\ StopReturns("drained")
      BY <2>2
    <3>2. /\ g' \in [Starts -> Goroutine] /\ g'[n].pc = "done" /\ g'[n].lst = g[n].lst
          /\ \A m \in Starts \ {n} : g'[m] = g[m]
      BY <3>1, AtEffect DEF TypeOK
    <3>3. stop' \in StopThread /\ stop'.pc = "idle" /\ stop'.result = "drained"
      BY <3>1, StopReturnsEffect
    <3>4. Received(n)
      BY <3>1, <3>2, <3>3
    <3>5. QED
      BY <2>1, <3>1, <3>2, <3>3, <3>4 DEF TypeOK
  <2>3. CASE /\ stop' = [stop EXCEPT !.tries = @ + 1]
             /\ UNCHANGED <<g, closed, wait>>
    <3>1. /\ stop' \in StopThread
          /\ stop'.pc = "poll" /\ stop'.result = stop.result
      BY <2>3, LifecycleConstantsOK DEF LifecycleConstantsOK, TypeOK, StopThread
    <3>2. QED
      BY <2>1, <2>3, <3>1 DEF TypeOK
  <2>4. QED
    BY <2>2, <2>3
<1>2. TypeOK' /\ ThreadBounds'
  BY <1>1 DEF TypeOK, ThreadBounds, Nil
<1> SUFFICES ASSUME ~disturbed' PROVE Undisturbed'
  BY <1>2
<1>3. /\ Undisturbed /\ starts \in 0..MaxStarts
      /\ phase \in {"running", "stopped"} /\ stop.pc \in {"idle", "poll"}
  BY <1>1 DEF TypeOK, StopThread
<1> USE <1>3 DEF Undisturbed
<1>4. /\ \A n \in Starts : Received(n) => n = wait /\ Released
      /\ closed \subseteq Starts /\ wait = starts
  BY <1>1, <1>3 DEF ServeInv, StopInv, DatabaseInv, TypeOK
<1> HIDE DEF LifecycleInv
<1> USE DEF Nil
<1>5. SocketsInv'
  BY <1>1, <1>4 DEF SocketsInv
<1>6. StartInv'
  BY <1>1, <1>4 DEF StartInv, Starting, SocketsInv, StopInv
<1>7. StopInv'
  BY <1>1, <1>4 DEF StopInv, SocketsInv, StartInv
<1>8. ServeInv'
  BY <1>1, <1>4 DEF ServeInv, Live, Stopping, StartInv
<1>9. LoadInv'
  BY <1>1, <1>4, LoadFrame DEF LoadInv, StartInv
<1>10. DatabaseInv'
  BY <1>1, <1>4, LoadFrame DEF DatabaseInv, Released, StartInv, StopInv
<1>11. QED
  BY <1>5, <1>6, <1>7, <1>8, <1>9, <1>10

(* A Start that finds databases open repeats the one that opened them: the *)
(* configuration files are the same ones, and all of them can be loaded.   *)
LEMMA InitMultiCAConfigKeeps == ASSUME LifecycleInv, InitMultiCAConfig PROVE LifecycleInv'
<1> USE DEF LifecycleInv, InitMultiCAConfig, server, control
<1>1. cfg.generated \in Seq(CAs) /\ cafiles \in Seq(CAs)
  BY LifecycleConstantsOK DEF LifecycleConstantsOK, TypeOK, Config
<1>2. \/ /\ start'.pc = "closeDB" /\ start' \in StartThread
         /\ start'.result = start.result /\ UNCHANGED <<cafiles, caMap>>
      \/ /\ cfg.generated = <<>> \/ cafiles = <<>>
         /\ cafiles' = cafiles \o cfg.generated /\ caMap' = {}
         /\ cafiles' \in Seq(CAs) /\ start'.todo = cafiles' /\ start' \in StartThread
         /\ start'.result = start.result
         /\ start'.pc = IF cafiles' = <<>> THEN "default" ELSE "load"
  <2>1. CASE cfg.generated # <<>> /\ (cafiles # <<>> \/ cfg.intermediate)
    BY <2>1, StartAtEffect DEF TypeOK
  <2>2. CASE ~(cfg.generated # <<>> /\ (cafiles # <<>> \/ cfg.intermediate))
    <3>1. /\ cafiles' = cafiles \o cfg.generated /\ caMap' = {}
          /\ start' = [start EXCEPT !.todo = cafiles', !.pc =
                            IF cafiles' = <<>> THEN "default" ELSE "load"]
      BY <2>2 DEF createDefaultCAConfigs
    <3>2. cafiles' \in Seq(CAs)
      BY <1>1, <3>1
    <3>3. /\ start'.todo = cafiles' /\ start' \in StartThread /\ start'.result = start.result
          /\ start'.pc = IF cafiles' = <<>> THEN "default" ELSE "load"
      BY <3>1, <3>2 DEF TypeOK, StartThread
    <3>4. QED
      BY <2>2, <3>1, <3>2, <3>3
  <2>3. QED
    BY <2>1, <2>2
<1>3. TypeOK' /\ ThreadBounds'
  <2>1. cafiles' \in Seq(CAs) /\ caMap' \subseteq CAs \cup {DefaultCA}
    BY <1>1, <1>2 DEF TypeOK
  <2>2. QED
    BY <1>2, <2>1 DEF TypeOK, ThreadBounds
<1> SUFFICES ASSUME ~disturbed' PROVE Undisturbed'
  BY <1>3
<1>4. Undisturbed /\ start.pc = "config" /\ reopened \subseteq {DefaultCA}
  BY DEF TypeOK
<1> HIDE DEF LifecycleInv
<1> USE DEF Undisturbed
<1>5. \A m \in Starts : ~Live(m)
  BY <1>4 DEF ServeInv, StartInv, Starting
<1>6. SocketsInv' /\ StartInv' /\ StopInv' /\ ServeInv'
  <2>1. SocketsInv'
    BY <1>2, <1>4 DEF SocketsInv
  <2>2. StartInv'
    BY <1>2, <1>4 DEF StartInv, Starting
  <2>3. StopInv'
    BY <1>2, <1>4 DEF StopInv
  <2>4. ServeInv'
    BY <1>2, <1>4, <1>5 DEF ServeInv, Live, Stopping
  <2>5. QED
    BY <2>1, <2>2, <2>3, <2>4
<1>7. CASE start'.pc = "closeDB"
  <2>1. UNCHANGED <<cafiles, caMap>>
    BY <1>2, <1>7
  <2>2. LoadInv' /\ DatabaseInv'
    BY <1>4, <1>5, <1>7, <2>1 DEF LoadInv, DatabaseInv, Released, StartInv, Starting, Live
  <2>3. QED
    BY <1>6, <2>2
<1>8. CASE start'.pc # "closeDB"
  <2>1. /\ cfg.generated = <<>> \/ cafiles = <<>>
        /\ cafiles' = cafiles \o cfg.generated /\ caMap' = {}
        /\ start'.todo = cafiles'
        /\ start'.pc = IF cafiles' = <<>> THEN "default" ELSE "load"
    BY <1>2, <1>8
  <2>2. \/ open \subseteq {DefaultCA}
        \/ /\ cafiles' = cafiles /\ open \subseteq Files \cup {DefaultCA}
           /\ PrefixLoads(Len(cafiles)) /\ DefaultLoads
    <3>1. CASE Released
      BY <1>4, <3>1 DEF Released
    <3>2. CASE Loaded
      <4>1. cfg.generated = <<>>
        BY <1>4, <2>1, <3>2 DEF DatabaseInv, Loaded
      <4>2. cafiles' = cafiles
        BY <1>1, <2>1, <4>1
      <4>3. QED
        BY <1>4, <3>2, <4>2 DEF DatabaseInv, Loaded
    <3>3. QED
      BY <1>4, <3>1, <3>2 DEF DatabaseInv
  <2>3. cafiles' \in Seq(CAs) /\ (cafiles' = <<>> => cfg.generated = <<>>)
    BY <1>1, <2>1
  <2>4. PrefixLoads(0)'
    BY DEF PrefixLoads
  <2>5. LoadInv'
    <3>1. CASE cafiles' = <<>>
      BY <2>1, <3>1 DEF LoadInv
    <3>2. CASE cafiles' # <<>>
      <4>1. /\ Len(start'.todo) > 0 /\ Len(cafiles') - Len(start'.todo) = 0
            /\ \A i \in 1..Len(start'.todo) : start'.todo[i] = cafiles'[0 + i]
        BY <2>1, <2>3, <3>2
      <4>2. caMap' = {cafiles'[i] : i \in 1..0}
        BY <2>1
      <4>3. \/ open \subseteq caMap' \cup {DefaultCA}
            \/ /\ open \subseteq Files' \cup {DefaultCA}
               /\ PrefixLoads(Len(cafiles))' /\ DefaultLoads'
        BY <2>1, <2>2, LoadFrame
      <4>4. QED
        BY <2>4, <4>1, <4>2, <4>3 DEF LoadInv
    <3>3. QED
      BY <3>1, <3>2
  <2>6. cafiles' = <<>> => Files' = {} /\ open \subseteq {DefaultCA} /\ PrefixLoads(Len(cafiles))'
    BY <2>2, <2>4 DEF Files
  <2>7. DatabaseInv'
    BY <1>4, <1>5, <2>1, <2>3, <2>6 DEF DatabaseInv, StartInv, Starting, Live
  <2>8. QED
    BY <1>6, <2>5, <2>7
<1>9. QED
  BY <1>7, <1>8

LEMMA TailFacts ==
    ASSUME NEW s \in Seq(CAs), s # <<>>
    PROVE  /\ Tail(s) \in Seq(CAs) /\ Len(s) \in Nat /\ Len(s) > 0
           /\ Head(s) = s[1] /\ s[1] \in CAs
           /\ Len(Tail(s)) = Len(s) - 1
           /\ \A i \in 1..Len(Tail(s)) : Tail(s)[i] = s[i + 1]
           /\ Len(s) > 1 => Tail(s) # <<>>
  OBVIOUS

(* The CAs are added in the order of the files.                            *)
LEMMA LoadCAKeeps == ASSUME LifecycleInv, LoadCA PROVE LifecycleInv'
<1> USE DEF LifecycleInv, LoadCA, config, server, control
<1> DEFINE ca == Head(start.todo)
<1>1. /\ start.pc = "load" /\ start.todo \in Seq(CAs) /\ start.todo # <<>>
      /\ cafiles \in Seq(CAs) /\ ca \in CAs
  <2>1. start.pc = "load" /\ start.todo \in Seq(CAs) /\ start.todo # <<>> /\ cafiles \in Seq(CAs)
    BY DEF TypeOK, ThreadBounds, StartThread
  <2>2. QED
    BY <2>1
<1>0. faults' \in 0..MaxFaults /\ missing' \subseteq missing \cup {ca}
  BY InitDBEffect DEF TypeOK
<1>2. \/ /\ ca \notin cfg.broken /\ ~Conflict(ca)
         /\ caMap' = caMap \cup {ca}
         /\ open' \subseteq open \cup {ca} /\ ca \in open' \cup missing'
         /\ open \subseteq open' /\ missing \subseteq missing'
         /\ start' \in StartThread /\ start'.todo = Tail(start.todo)
         /\ start'.pc = IF Len(start.todo) > 1 THEN "load" ELSE "default"
      \/ /\ ca \in cfg.broken \/ Conflict(ca)
         /\ open' = open \ {ca} /\ caMap' = caMap
         /\ start' \in StartThread /\ start'.pc = "closeDB"
  <2>1. CASE ca \notin cfg.broken /\ ~Conflict(ca)
    <3>1. start' = [start EXCEPT !.todo = Tail(@), !.pc =
                            IF Len(start.todo) > 1 THEN "load" ELSE "default"]
      BY <2>1
    <3>2. Tail(start.todo) \in Seq(CAs)
      BY <1>1
    <3>3. /\ start' \in StartThread /\ start'.todo = Tail(start.todo)
          /\ start'.pc = IF Len(start.todo) > 1 THEN "load" ELSE "default"
      BY <3>1, <3>2 DEF TypeOK, StartThread
    <3>4. initDB(ca)
      BY <2>1
    <3>5. /\ open' \subseteq open \cup {ca} /\ ca \in open' \cup missing'
          /\ open \subseteq open' /\ missing \subseteq missing'
      BY <3>4, InitDBEffect DEF TypeOK
    <3>6. QED
      BY <2>1, <3>3, <3>5
  <2>2. CASE ca \in cfg.broken \/ Conflict(ca)
    BY <2>2, StartAtEffect DEF TypeOK
  <2>3. QED
    BY <2>1, <2>2
<1>3. TypeOK' /\ ThreadBounds'
  <2>1. start'.pc = "load" => start'.todo # <<>>
    BY <1>1, <1>2, TailFacts
  <2>2. QED
    BY <1>0, <1>1, <1>2, <2>1 DEF TypeOK, ThreadBounds
<1> SUFFICES ASSUME ~disturbed' PROVE Undisturbed'
  BY <1>3
<1>4. Undisturbed
  OBVIOUS
<1>5. UNCHANGED <<config, server, stop, request, phase, disturbed, reopened>>
  OBVIOUS
<1> HIDE DEF LifecycleInv, LoadCA, ca
<1> USE DEF Undisturbed
<1>6. \A m \in Starts : ~Live(m)
  BY <1>1, <1>4 DEF ServeInv, StartInv, Starting
<1>7. SocketsInv' /\ StartInv' /\ StopInv' /\ ServeInv'
  <2>1. SocketsInv'
    BY <1>1, <1>2, <1>4, <1>5 DEF SocketsInv
  <2>2. StartInv'
    BY <1>1, <1>2, <1>4, <1>5 DEF StartInv, Starting
  <2>3. StopInv'
    BY <1>1, <1>2, <1>4, <1>5 DEF StopInv
  <2>4. ServeInv'
    BY <1>1, <1>2, <1>4, <1>5, <1>6 DEF ServeInv, Live, Stopping
  <2>5. QED
    BY <2>1, <2>2, <2>3, <2>4
<1>8. PICK k \in Nat : k = Len(cafiles) - Len(start.todo)
  <2>1. Len(cafiles) \in Nat /\ Len(start.todo) \in Nat
    BY <1>1, TailFacts
  <2>2. Len(cafiles) - Len(start.todo) >= 0
    BY <1>1, <1>4 DEF LoadInv
  <2>3. Len(cafiles) - Len(start.todo) \in Nat
    BY <2>1, <2>2
  <2>4. QED
    BY <2>3
<1>9. /\ k \in Nat /\ k + 1 \in 1..Len(cafiles) /\ ca = cafiles[k + 1]
      /\ \A i \in 1..Len(start.todo) : start.todo[i] = cafiles[k + i]
      /\ caMap = {cafiles[i] : i \in 1..k} /\ PrefixLoads(k)
      /\ \/ open \subseteq caMap \cup {DefaultCA}
         \/ open \subseteq Files \cup {DefaultCA} /\ PrefixLoads(Len(cafiles)) /\ DefaultLoads
  <2>1. /\ Len(start.todo) \in Nat /\ Len(start.todo) > 0 /\ ca = start.todo[1]
        /\ Len(cafiles) \in Nat
    BY <1>1, TailFacts DEF ca
  <2>2. /\ k >= 0 /\ \A i \in 1..Len(start.todo) : start.todo[i] = cafiles[k + i]
        /\ caMap = {cafiles[i] : i \in 1..k} /\ PrefixLoads(k)
        /\ \/ open \subseteq caMap \cup {DefaultCA}
           \/ open \subseteq Files \cup {DefaultCA} /\ PrefixLoads(Len(cafiles)) /\ DefaultLoads
    BY <1>1, <1>4, <1>8 DEF LoadInv
  <2>3. k \in Nat /\ k + 1 \in 1..Len(cafiles)
    BY <1>8, <2>1, <2>2
  <2>4. ca = cafiles[k + 1]
    BY <2>1, <2>2
  <2>5. QED
    BY <2>2, <2>3, <2>4
<1>10. /\ Files' = Files /\ (DefaultLoads' <=> DefaultLoads)
      /\ \A j : PrefixLoads(j)' <=> PrefixLoads(j)
  BY <1>5, LoadFrame
<1>11. CASE start'.pc = "closeDB"
  <2>1. ca \in cfg.broken \/ Conflict(ca)
    BY <1>2, <1>11
  <2>2. ~PrefixLoads(Len(cafiles))
    <3>1. CASE ca \in cfg.broken
      BY <1>9, <3>1 DEF PrefixLoads
    <3>2. CASE Conflict(ca)
      <4>1. PICK j \in 1..k : Clash(cafiles[j], cafiles[k + 1])
        BY <1>9, <3>2 DEF Conflict, compareDN, Clash
      <4>2. j \in 1..((k + 1) - 1)
        BY <1>9
      <4>3. QED
        BY <1>9, <4>1, <4>2 DEF PrefixLoads
    <3>3. QED
      BY <2>1, <3>1, <3>2
  <2>3. open' \subseteq caMap' \cup {DefaultCA}
    BY <1>2, <1>9, <1>11, <2>2
  <2>4. LoadInv' /\ DatabaseInv'
    BY <1>1, <1>4, <1>5, <1>6, <1>11, <2>3 DEF LoadInv, DatabaseInv, StartInv, Starting, Live
  <2>5. QED
    BY <1>7, <2>4
<1>12. CASE start'.pc # "closeDB"
  <2>1. /\ ca \notin cfg.broken /\ ~Conflict(ca)
        /\ caMap' = caMap \cup {ca}
        /\ open' \subseteq open \cup {ca} /\ ca \in open' \cup missing'
        /\ open \subseteq open' /\ missing \subseteq missing'
        /\ start'.todo = Tail(start.todo)
        /\ start'.pc = IF Len(start.todo) > 1 THEN "load" ELSE "default"
    BY <1>2, <1>12
  <2>2. PrefixLoads(k + 1)
    <3>1. ASSUME NEW j \in 1..k PROVE ~Clash(cafiles[j], cafiles[k + 1])
      BY <1>9, <2>1 DEF Conflict, compareDN, Clash
    <3>2. SUFFICES ASSUME NEW i \in 1..(k + 1)
                   PROVE  /\ cafiles[i] \notin cfg.broken
                          /\ \A j \in 1..(i - 1) : ~Clash(cafiles[j], cafiles[i])
      BY DEF PrefixLoads
    <3>3. CASE i = k + 1
      BY <1>9, <2>1, <3>1, <3>3
    <3>4. CASE i \in 1..k
      BY <1>9, <3>4 DEF PrefixLoads
    <3>5. QED
      BY <1>9, <3>3, <3>4
  <2>3. caMap' = {cafiles[i] : i \in 1..(k + 1)}
    BY <1>9, <2>1
  <2>4. Len(start'.todo) = Len(start.todo) - 1 /\ Len(cafiles') - Len(start'.todo) = k + 1
    <3>1. Len(cafiles) \in Nat /\ Len(start.todo) \in Nat /\ cafiles' = cafiles
      BY <1>1, <1>5
    <3>2. Len(start'.todo) = Len(start.todo) - 1
      BY <1>1, <2>1, TailFacts
    <3>3. QED
      BY <1>8, <3>1, <3>2
  <2>5. ca \in Files /\ caMap \subseteq open \cup missing
    BY <1>1, <1>4, <1>9 DEF Files, DatabaseInv
  <2>6. \/ open' \subseteq caMap' \cup {DefaultCA}
        \/ /\ open' \subseteq Files \cup {DefaultCA}
           /\ PrefixLoads(Len(cafiles)) /\ DefaultLoads
    BY <1>9, <2>1, <2>5
  <2>7. LoadInv'
    <3>1. SUFFICES ASSUME start'.pc = "load" PROVE LoadInv'
      BY DEF LoadInv
    <3>2. Len(start'.todo) > 0
      BY <1>1, <2>1, <2>4, <3>1, TailFacts
    <3>3. \A i \in 1..Len(start'.todo) : start'.todo[i] = cafiles[(k + 1) + i]
      BY <1>1, <1>9, <2>1, <2>4, TailFacts
    <3>4. cafiles' = cafiles
      BY <1>5
    <3>5. /\ PrefixLoads(k + 1)'
          /\ \/ open' \subseteq caMap' \cup {DefaultCA}
             \/ /\ open' \subseteq Files' \cup {DefaultCA}
                /\ PrefixLoads(Len(cafiles))' /\ DefaultLoads'
      BY <1>10, <2>2, <2>6, <3>4
    <3>6. /\ caMap' = {cafiles'[i] : i \in 1..(k + 1)} /\ k + 1 >= 0
          /\ \A i \in 1..Len(start'.todo) : start'.todo[i] = cafiles'[(k + 1) + i]
      BY <1>9, <2>3, <3>3, <3>4
    <3>7. PrefixLoads(Len(cafiles) - Len(start.todo))'
      BY <2>4, <3>5 DEF PrefixLoads
    <3>8. QED
      BY <2>4, <3>2, <3>5, <3>6, <3>7 DEF LoadInv
  <2>8. DatabaseInv'
    <3>1. start'.pc = "default" => k + 1 = Len(cafiles)
      <4>1. Len(cafiles) \in Nat /\ Len(start.todo) \in Nat /\ Len(start.todo) > 0
        BY <1>1, TailFacts
      <4>2. QED
        BY <1>8, <2>1, <4>1
    <3>2. start'.pc = "default" => caMap' = Files
      BY <1>1, <2>3, <3>1 DEF Files
    <3>3. QED
      BY <1>1, <1>4, <1>5, <1>6, <1>10, <2>1, <2>2, <2>5, <2>6, <3>1, <3>2
         DEF DatabaseInv, StartInv, Starting, Live
  <2>9. QED
    BY <1>7, <2>7, <2>8
<1>13. QED
  BY <1>11, <1>12

-----------------------------------------------------------------------------
LEMMA LifecycleInit == Init => LifecycleInv
<1> SUFFICES ASSUME Init PROVE LifecycleInv
  OBVIOUS
<1>1. TypeOK
  BY TypeInit
<1>2. ThreadBounds /\ SocketsInv /\ StartInv /\ StopInv
  BY DEF Init, ThreadBounds, SocketsInv, StartInv, StopInv, Starting
<1>3. ServeInv
  BY DEF Init, ServeInv, Live, Stopping
<1>4. LoadInv /\ DatabaseInv
  BY DEF Init, LoadInv, DatabaseInv, Released
<1>5. QED
  BY <1>1, <1>2, <1>3, <1>4 DEF LifecycleInv, Undisturbed

LEMMA LifecycleStep == LifecycleInv /\ [Next]_vars => LifecycleInv'
<1> SUFFICES ASSUME LifecycleInv, [Next]_vars PROVE LifecycleInv'
  OBVIOUS
<1>1. CASE CallStart \/ CallStop \/ Request
  BY <1>1, CallStartKeeps, CallStopKeeps, RequestKeeps
<1>2. CASE StartStep
  BY <1>2, InitMultiCAConfigKeeps, LoadCAKeeps, InitDefaultCAKeeps, FailStartKeeps,
     ListenKeeps, EnableProfilingKeeps, StartServingKeeps, BlockingStartReturnsKeeps
     DEF StartStep
<1>3. CASE StopStep \/ RequestStep
  BY <1>3, PollKeeps, StopTimesOutKeeps, RequestGetsCAKeeps, RequestEndsKeeps
     DEF StopStep, RequestStep
<1>4. ASSUME NEW n \in Starts, ServeStep(n) PROVE LifecycleInv'
  BY <1>4, ServeBeginsKeeps, ServeReturnsKeeps, ServeClosesListenerKeeps,
     ServeClosesDBKeeps, ServeNotifiesKeeps, SendPanicsKeeps DEF ServeStep
<1>5. CASE UNCHANGED vars
  <2>1. TypeOK' /\ ThreadBounds'
    BY <1>5 DEF vars, LifecycleInv, TypeOK, ThreadBounds
  <2>2. SocketsInv /\ StartInv /\ StopInv => SocketsInv' /\ StartInv' /\ StopInv'
    BY <1>5 DEF vars, SocketsInv, StartInv, StopInv, Starting
  <2>3. ServeInv => ServeInv'
    BY <1>5 DEF vars, ServeInv, Live, Stopping
  <2>4. LoadInv /\ DatabaseInv => LoadInv' /\ DatabaseInv'
    BY <1>5, LoadFrame DEF vars, LoadInv, DatabaseInv, Released
  <2>5. disturbed' = disturbed
    BY <1>5 DEF vars
  <2>6. QED
    BY <2>1, <2>2, <2>3, <2>4, <2>5 DEF LifecycleInv, Undisturbed
<1>6. QED
  BY <1>1, <1>2, <1>3, <1>4, <1>5 DEF Next

(* The invariant implies what the run checks.                              *)
LEMMA LifecycleImplies ==
    LifecycleInv => TypeOK /\ StaysUp /\ FailedStartLeavesNothing /\ DrainedMeansDone
<1> SUFFICES ASSUME LifecycleInv
             PROVE  TypeOK /\ StaysUp /\ FailedStartLeavesNothing /\ DrainedMeansDone
  OBVIOUS
<1> USE DEF LifecycleInv, Undisturbed
<1>1. StaysUp
  BY DEF StaysUp, SocketsInv, StartInv, DatabaseInv, Nil
<1>2. FailedStartLeavesNothing
  BY DEF FailedStartLeavesNothing, SocketsInv, DatabaseInv, Released
<1>3. DrainedMeansDone
  <2> SUFFICES ASSUME stop.result = "drained", phase = "stopped", ~disturbed,
                      start.pc = "idle"
               PROVE  DrainedMeansDone
    BY DEF DrainedMeansDone
  <2>1. stop.pc = "idle" /\ ~cfg.blocking
    BY DEF StopInv, TypeOK, StopThread
  <2>2. \A n \in Starts : g[n].pc \in {"none", "done"}
    BY <2>1 DEF ServeInv, Live
  <2>3. sockets = {} /\ open \subseteq reopened
    BY <2>1 DEF SocketsInv, DatabaseInv, Released
  <2>4. QED
    BY <2>2, <2>3 DEF DrainedMeansDone
<1>4. QED
  BY <1>1, <1>2, <1>3

(* The server object is always in one of the states that Start, Stop and   *)
(* the goroutines move it between, whatever Stop leaves behind.            *)
THEOREM LifecycleTypeCorrect == Spec => []TypeOK
<1>1. Spec => []LifecycleInv
  BY LifecycleInit, LifecycleStep, PTL DEF Spec
<1>2. QED
  BY <1>1, LifecycleImplies, PTL

(* A server that was started keeps its listener and the databases it could *)
(* open until Stop is called, for every configuration and any number of    *)
(* Starts and Stops before, as long as no Stop timed out or failed.        *)
THEOREM StaysUpUntilStop == Spec => []StaysUp
<1>1. Spec => []LifecycleInv
  BY LifecycleInit, LifecycleStep, PTL DEF Spec
<1>2. QED
  BY <1>1, LifecycleImplies, PTL

(* A Start that returns an error has closed its listener and every         *)
(* database, also those that a blocking Start left open before.            *)
THEOREM FailedStartReleases == Spec => []FailedStartLeavesNothing
<1>1. Spec => []LifecycleInv
  BY LifecycleInit, LifecycleStep, PTL DEF Spec
<1>2. QED
  BY <1>1, LifecycleImplies, PTL

(* When Stop has received the message of the goroutine nothing of the      *)
(* server is left that could still close or send.                          *)
THEOREM DrainedLeavesNothing == Spec => []DrainedMeansDone
<1>1. Spec => []LifecycleInv
  BY LifecycleInit, LifecycleStep, PTL DEF Spec
<1>2. QED
  BY <1>1, LifecycleImplies, PTL
=============================================================================
