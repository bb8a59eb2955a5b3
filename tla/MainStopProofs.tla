--------------------------- MODULE MainStopProofs ---------------------------
(***************************************************************************)
(* More proofs about the whole program: what a forwarder that serves has,  *)
(* and that a forwarder that does not serve has left nothing.              *)
(***************************************************************************)
EXTENDS MainProofs


\* main starts in one phase and stops in later ones.
Phases ==
  \A p \in Protocol : /\ phase \in {"start", "wait"} => call[p] \notin StopStates
                      /\ phase # "start" => call[p] \notin StartStates

\* From the bind to the close there is one socket, and the two threads are
\* there together; what has been shut down is never listened on again.
EndsAt(p) ==
  /\ resolver[p] # "none" <=> loop[p] # "none"
  /\ running[p] => resolver[p] # "exit" /\ loop[p] # "exit"
  /\ listening[p] # 0 <=>
       \/ call[p] \in {"store", "spawn", "started", "exchange", "shut", "close", "reset"}
       \/ call[p] = "none" /\ serving[p]
  /\ sockets[p] = IF call[p] = "bind" THEN {left[p]}
                  ELSE IF call[p] = "reset" \/ listening[p] = 0 THEN {} ELSE {listening[p]}
  /\ shut[p] # {} =>
       \/ call[p] \in {"close", "reset", "join", "snapshot", "sessions", "stopped"}
       \/ call[p] = "none" /\ ~serving[p] /\ phase \notin {"start", "wait"}
Ends == \A p \in Protocol : EndsAt(p)

\* What the accept thread and Stop leave when they are done.
Emptied ==
  /\ conn # {} => loop["tcp"] \in {"connect", "insert"}
  /\ table # {} => loop["tcp"] # "none" \/ call["tcp"] \in {"snapshot", "sessions"}
  /\ last => ~running["tcp"] /\ phase \notin {"start", "wait"}

\* main knows every forwarder that serves: it will stop each of them.
Among(p, seq) == \E i \in 1..Len(seq) : seq[i] = p
Served ==
  \A p \in Protocol : serving[p] =>
    /\ phase \in {"start", "wait"} => Among(p, forwarders) \/ (phase = "start" /\ busy /\ p = Head(todo))
    /\ phase = "stop" => Among(p, todo) /\ (busy /\ p = Head(todo) => call[p] # "none")
    /\ phase \notin {"destroy", "exit"}

EInv == SInv /\ Phases /\ Ends /\ Emptied /\ Served
-----------------------------------------------------------------------------
LEMMA InitEnds == Init => EInv
<1> SUFFICES ASSUME Init PROVE Phases /\ Ends /\ Emptied /\ Served
  BY InitInv DEF EInv
<1>1. QED
  BY DEF Init, ForwarderInit, Both, Phases, Ends, EndsAt, Emptied, Served, StartStates, StopStates

\* Between two calls of the facade no forwarder is in a call.
LEMMA ControlQuiet ==
  ASSUME TypeOK, OneCall, Control
  PROVE  UNCHANGED forwarderVars /\ ~busy' /\ \A p \in Protocol : call[p] = "none"
<1>1. CASE StartReturned \/ StopReturned
  BY <1>1 DEF StartReturned, StopReturned, OneCall
<1>2. CASE AllStarted \/ AllStopped \/ AllDestroyed
  BY <1>2 DEF AllStarted, AllStopped, AllDestroyed, OneCall, TypeOK
<1>3. CASE StopRequested
  BY <1>3 DEF StopRequested, OneCall, TypeOK
<1>4. QED
  BY <1>1, <1>2, <1>3 DEF Control

LEMMA PhasesStep == TypeOK /\ OneCall /\ Phases /\ [Next]_vars => Phases'
<1> SUFFICES ASSUME TypeOK, OneCall, Phases, [Next]_vars PROVE Phases'
  OBVIOUS
<1>1. CASE UNCHANGED <<call, phase>>
  BY <1>1 DEF Phases
<1>2. CASE StartForwarder
  BY <1>2 DEF StartForwarder, FacadeStart, Call, Phases, TypeOK, StartStates, StopStates
<1>3. CASE StopForwarder
  BY <1>3 DEF StopForwarder, FacadeStop, Phases, TypeOK, StartStates, StopStates
<1>4. CASE Control
  BY <1>4, ControlQuiet DEF Phases, StartStates, StopStates, forwarderVars, callVars
<1>5. ASSUME NEW p \in Protocol, Start(p), UNCHANGED <<mainVars, asked>> PROVE Phases'
  BY <1>5, StartMoves DEF Phases, mainVars, StartStates, StopStates
<1>6. ASSUME NEW p \in Protocol, Stop(p), UNCHANGED <<mainVars, asked>> PROVE Phases'
  BY <1>6, StopMoves DEF Phases, mainVars, StartStates, StopStates
<1>7. QED
  BY <1>1, <1>2, <1>3, <1>4, <1>5, <1>6, StepCases
     DEF AcceptLoop, Arrival, UdpLoopEnds, ResolverEnds, SessionFinishes, Signal, vars,
         forwarderVars, mainVars, callVars
-----------------------------------------------------------------------------
(* Ends.                                                                   *)
LEMMA EndsStart ==
  ASSUME TypeOK, Numbers, Ready, Ends, NEW p \in Protocol, Start(p), UNCHANGED phase
  PROVE  EndsAt(p)'
<1> USE DEF EndsAt, Ends, TypeOK, Call, socketVars
<1>0. /\ \A v : [call EXCEPT ![p] = v][p] = v
      /\ running[p] \in BOOLEAN /\ serving[p] \in BOOLEAN
  OBVIOUS
<1>1. CASE StartResolve(p)
  <2>1. /\ call[p] = "resolve" /\ call'[p] = "socket"
        /\ UNCHANGED <<serving, running, loop, resolver, sockets, shut, listening>>
    BY <1>0, <1>1 DEF StartResolve
  <2>2. QED
    BY <1>0, <2>1
<1>2. CASE StartNoSocket(p)
  <2>1. /\ call[p] = "socket" /\ call'[p] = "socket"
        /\ UNCHANGED <<serving, running, loop, resolver, sockets, shut, listening>>
    BY <1>0, <1>2 DEF StartNoSocket
  <2>2. QED
    BY <1>0, <2>1
<1>3. CASE StartFails(p)
  <2>1. /\ call[p] = "socket" /\ call'[p] = "none"
        /\ UNCHANGED <<serving, running, loop, resolver, sockets, shut, listening>>
    BY <1>0, <1>3 DEF StartFails
  <2>2. ~serving[p]
    BY <2>1 DEF Ready, StartStates
  <2>3. QED
    BY <1>0, <2>1, <2>2
<1>4. CASE StartSocket(p)
  <2>1. /\ call[p] = "socket" /\ call'[p] = "bind" /\ sockets'[p] = sockets[p] \cup {left[p]}
        /\ UNCHANGED <<serving, running, left, loop, resolver, shut, listening>>
    BY <1>0, <1>4 DEF StartSocket
  <2>2. listening[p] = 0 /\ sockets'[p] = {left[p]}
    BY <2>1
  <2>3. QED
    BY <1>0, <2>1, <2>2
<1>5. CASE StartBindFails(p)
  <2>1. /\ call[p] = "bind" /\ call'[p] = "socket" /\ sockets'[p] = sockets[p] \ {left[p]}
        /\ UNCHANGED <<serving, running, loop, resolver, shut, listening>>
    BY <1>0, <1>5 DEF StartBindFails, CloseCandidate
  <2>2. listening[p] = 0 /\ sockets'[p] = {}
    BY <2>1
  <2>3. QED
    BY <1>0, <2>1, <2>2
<1>6. CASE StartBinds(p)
  <2>1. /\ call[p] = "bind" /\ call'[p] = "store" /\ listening'[p] = left[p]
        /\ UNCHANGED <<serving, running, loop, resolver, sockets, shut, left>>
    BY <1>0, <1>6 DEF StartBinds
  <2>2. left[p] # 0 /\ sockets[p] = {left[p]}
    BY <2>1 DEF Numbers, Socket
  <2>3. QED
    BY <1>0, <2>1, <2>2
<1>7. CASE StartStore(p)
  <2>1. /\ call[p] = "store" /\ call'[p] = "spawn"
        /\ UNCHANGED <<serving, loop, resolver, sockets, shut, listening>>
    BY <1>0, <1>7 DEF StartStore
  <2>2. loop[p] = "none"
    BY <2>1 DEF Ready
  <2>3. QED
    BY <1>0, <2>1, <2>2
<1>8. CASE StartSpawn(p)
  <2>1. /\ call[p] = "spawn" /\ call'[p] = "started" /\ loop'[p] = "top" /\ resolver'[p] = "top"
        /\ UNCHANGED <<serving, running, sockets, shut, listening>>
    BY <1>0, <1>8 DEF StartSpawn
  <2>2. QED
    BY <1>0, <2>1
<1>9. CASE Started(p)
  <2>1. /\ call[p] = "started" /\ call'[p] = "none" /\ serving'[p] = TRUE
        /\ UNCHANGED <<running, loop, resolver, sockets, shut, listening>>
    BY <1>0, <1>9 DEF Started
  <2>2. QED
    BY <1>0, <2>1
<1>10. QED
  BY <1>1, <1>2, <1>3, <1>4, <1>5, <1>6, <1>7, <1>8, <1>9 DEF Start

LEMMA EndsStop ==
  ASSUME TypeOK, Ready, Phases, Ends, NEW p \in Protocol, Stop(p), UNCHANGED phase
  PROVE  EndsAt(p)'
<1> USE DEF EndsAt, Ends, TypeOK, Call, socketVars
<1>0. /\ \A v : [call EXCEPT ![p] = v][p] = v
      /\ running[p] \in BOOLEAN /\ serving[p] \in BOOLEAN
  OBVIOUS
<1>1. CASE StopExchange(p)
  <2>1. /\ call[p] = "exchange" /\ call'[p] = "shut" /\ running'[p] = FALSE
        /\ UNCHANGED <<serving, loop, resolver, sockets, shut, listening>>
    BY <1>0, <1>1 DEF StopExchange, Ready
  <2>2. QED
    BY <1>0, <2>1
<1>2. CASE StopShut(p)
  <2>1. /\ call[p] = "shut" /\ call'[p] = "close"
        /\ UNCHANGED <<serving, running, loop, resolver, sockets, listening>>
    BY <1>0, <1>2 DEF StopShut
  <2>2. QED
    BY <1>0, <2>1
<1>3. CASE StopClose(p)
  <2>1. /\ call[p] = "close" /\ call'[p] = "reset" /\ sockets'[p] = sockets[p] \ {listening[p]}
        /\ UNCHANGED <<serving, running, loop, resolver, shut, listening>>
    BY <1>0, <1>3 DEF StopClose
  <2>2. sockets'[p] = {}
    BY <2>1
  <2>3. QED
    BY <1>0, <2>1, <2>2
<1>4. CASE StopReset(p)
  <2>1. /\ call[p] = "reset" /\ call'[p] = "join" /\ listening'[p] = 0
        /\ UNCHANGED <<serving, running, loop, resolver, sockets, shut>>
    BY <1>0, <1>4 DEF StopReset
  <2>2. sockets[p] = {}
    BY <2>1
  <2>3. QED
    BY <1>0, <2>1, <2>2
<1>5. CASE StopJoin(p)
  <2>1. /\ call[p] = "join" /\ call'[p] = "snapshot" /\ loop'[p] = "none" /\ resolver'[p] = "none"
        /\ UNCHANGED <<serving, running, sockets, shut, listening>>
    BY <1>0, <1>5 DEF StopJoin, LoopExited
  <2>2. QED
    BY <1>0, <2>1
<1>6. CASE StopSnapshot(p) \/ StopClear(p)
  <2>1. /\ call[p] \in {"snapshot", "sessions"} /\ call'[p] \in {"sessions", "stopped"}
        /\ UNCHANGED <<serving, running, loop, resolver, sockets, shut, listening>>
    BY <1>0, <1>6 DEF StopSnapshot, StopClear
  <2>2. QED
    BY <1>0, <2>1
<1>7. CASE Stopped(p)
  <2>1. /\ call[p] = "stopped" /\ call'[p] = "none" /\ serving'[p] = FALSE
        /\ UNCHANGED <<running, loop, resolver, sockets, shut, listening>>
    BY <1>0, <1>7 DEF Stopped
  <2>2. phase \notin {"start", "wait"}
    BY <2>1 DEF Phases, StopStates
  <2>3. QED
    BY <1>0, <2>1, <2>2
<1>8. CASE StopSession(p) \/ JoinSession(p)
  BY <1>0, <1>8 DEF StopSession, JoinSession
<1>9. QED
  BY <1>1, <1>2, <1>3, <1>4, <1>5, <1>6, <1>7, <1>8 DEF Stop

LEMMA EndsOthers ==
  ASSUME TypeOK, Ends, NEW p \in Protocol, Start(p) \/ Stop(p), UNCHANGED phase,
         NEW q \in Protocol \ {p}
  PROVE  EndsAt(q)'
<1> USE DEF Start, Stop, StartResolve, StartSocket, StartNoSocket, StartBindFails,
          StartBinds, StartFails, StartStore, StartSpawn, Started, StopExchange, StopShut,
          StopClose, StopReset, StopJoin, StopSnapshot, StopSession, JoinSession, StopClear,
          Stopped, socketVars
<1>1. resolver'[q] = resolver[q]
  BY DEF TypeOK
<1>2. sockets'[q] = sockets[q]
  BY DEF TypeOK, CloseCandidate
<1>3. shut'[q] = shut[q]
  BY DEF TypeOK, ShutListening
<1>4. /\ call'[q] = call[q] /\ left'[q] = left[q] /\ running'[q] = running[q]
      /\ serving'[q] = serving[q] /\ listening'[q] = listening[q] /\ loop'[q] = loop[q]
  BY OthersKept
<1>5. EndsAt(q)
  BY DEF Ends
<1>6. QED
  BY ONLY <1>1, <1>2, <1>3, <1>4, <1>5, UNCHANGED phase DEF EndsAt

\* The accept thread ends only after a look at running_.
LEMMA ExitSeen ==
  ASSUME TypeOK, Emptied, AcceptLoop \/ Arrival, loop'["tcp"] = "exit", loop["tcp"] # "exit"
  PROVE  ~running["tcp"]
<1> USE DEF TypeOK, Loop
<1>0. "tcp" \in Protocol
  BY DEF Protocol
<1>1. CASE ReapDone
  BY <1>0, <1>1 DEF ReapDone, Emptied
<1>2. CASE LoopTop \/ ReapScan \/ ReapJoin \/ ReadListening \/ EnterAccept
  BY <1>0, <1>2 DEF LoopTop, ReapScan, ReapJoin, ReadListening, EnterAccept
<1>3. CASE AcceptRefused \/ AcceptWoken \/ AcceptError
  BY <1>0, <1>3 DEF AcceptRefused, AcceptWoken, AcceptError, AcceptFailure
<1>4. CASE ConnectFails \/ Connects \/ Insert \/ BeginSession \/ Accepted
  BY <1>0, <1>4 DEF ConnectFails, Connects, Insert, BeginSession, Accepted
<1>5. QED
  BY <1>1, <1>2, <1>3, <1>4 DEF AcceptLoop, Arrival

LEMMA EndsStep == SInv /\ Phases /\ Ends /\ Emptied /\ [Next]_vars => Ends'
<1> SUFFICES ASSUME SInv, Phases, Ends, Emptied, [Next]_vars, NEW q \in Protocol
             PROVE  EndsAt(q)'
  BY DEF Ends
<1> USE DEF SInv
<1>1. CASE UNCHANGED <<forwarderVars, phase>>
  BY <1>1 DEF Ends, EndsAt, forwarderVars, callVars, socketVars
<1>2. CASE StartForwarder \/ StopForwarder
  <2>1. /\ UNCHANGED <<serving, running, left, sockets, shut, listening, resolver, loop, phase>>
        /\ \/ call'[q] = call[q]
           \/ call[q] = "none" /\ ~serving[q] /\ call'[q] = "resolve" /\ phase = "start"
           \/ call[q] = "none" /\ serving[q] /\ call'[q] = "exchange"
    BY <1>2 DEF StartForwarder, StopForwarder, FacadeStart, FacadeStop, Call, OnlyCall,
       socketVars, TypeOK
  <2>2. CASE call'[q] = call[q]
    BY <2>1, <2>2 DEF Ends, EndsAt
  <2>3. CASE call[q] = "none" /\ ~serving[q] /\ call'[q] = "resolve" /\ phase = "start"
    BY <2>1, <2>3 DEF Ends, EndsAt
  <2>4. CASE call[q] = "none" /\ serving[q] /\ call'[q] = "exchange"
    BY <2>1, <2>4 DEF Ends, EndsAt
  <2>5. QED
    BY <2>1, <2>2, <2>3, <2>4
<1>3. CASE Control
  <2>1. UNCHANGED <<call, serving, running, left, sockets, shut, listening, resolver, loop>>
    BY <1>3, ControlQuiet DEF forwarderVars, callVars, socketVars
  <2>2. phase \notin {"start", "wait"} => phase' \notin {"start", "wait"}
    BY <1>3 DEF Control, StartReturned, AllStarted, StopRequested, StopReturned, AllStopped,
       AllDestroyed
  <2>3. QED
    BY <2>1, <2>2 DEF Ends, EndsAt
<1>4. ASSUME NEW p \in Protocol, Start(p) \/ Stop(p), UNCHANGED phase PROVE EndsAt(q)'
  BY <1>4, EndsStart, EndsStop, EndsOthers
<1>5. CASE (AcceptLoop \/ Arrival) /\ UNCHANGED <<mainVars, asked>>
  <2>1. /\ UNCHANGED <<call, serving, running, left, sockets, shut, listening, resolver, phase>>
        /\ loop[q] # "none" <=> loop'[q] # "none"
    BY <1>5, LoopMoves DEF AcceptLoop, Arrival, callVars, socketVars, mainVars
  <2>2. loop'[q] = "exit" => loop[q] = "exit" \/ ~running[q]
    BY <1>5, LoopMoves, ExitSeen
  <2>3. QED
    BY <2>1, <2>2 DEF Ends, EndsAt
<1>6. CASE (UdpLoopEnds \/ \E p \in Protocol : ResolverEnds(p)) /\ UNCHANGED <<mainVars, asked>>
  <2>1. UNCHANGED <<call, serving, running, left, sockets, shut, listening, phase>>
    BY <1>6 DEF UdpLoopEnds, ResolverEnds, callVars, socketVars, mainVars
  <2>2. /\ loop'[q] = loop[q] \/ (loop[q] = "top" /\ ~running[q] /\ loop'[q] = "exit")
        /\ resolver'[q] = resolver[q] \/ (resolver[q] = "top" /\ ~running[q] /\ resolver'[q] = "exit")
    BY <1>6 DEF UdpLoopEnds, ResolverEnds, TypeOK
  <2>3. QED
    BY <2>1, <2>2 DEF Ends, EndsAt
<1>7. ASSUME NEW s \in Session, SessionFinishes(s), UNCHANGED <<mainVars, asked>> PROVE EndsAt(q)'
  BY <1>7 DEF SessionFinishes, mainVars, callVars, socketVars, Ends, EndsAt
<1>8. QED
  BY <1>1, <1>2, <1>3, <1>4, <1>5, <1>6, <1>7, StepCases DEF Signal, vars, mainVars
-----------------------------------------------------------------------------
(* Emptied.                                                                *)
LEMMA EmptiedAccept ==
  ASSUME SInv, Phases, Emptied, AcceptLoop \/ Arrival, UNCHANGED phase
  PROVE  Emptied'
<1> USE DEF SInv, TypeOK, Loop, acceptVars
<1>0. "tcp" \in Protocol /\ UNCHANGED <<call, running>>
  BY DEF Protocol, AcceptLoop, Arrival, callVars
<1>1. (table # {} => loop["tcp"] # "none")'
  BY LoopMoves
<1>2. ~running["tcp"] => phase \notin {"start", "wait"}
  BY <1>0, LoopMoves DEF Ready, Phases, StopStates
<1>3. ((conn # {} => loop["tcp"] \in {"connect", "insert"}) /\ (last => ~running["tcp"]))'
  <2>1. CASE LoopTop \/ ReapScan \/ ReapDone \/ ReadListening \/ EnterAccept
    BY <1>0, <2>1 DEF LoopTop, ReapScan, ReapDone, ReadListening, EnterAccept, Emptied
  <2>2. CASE AcceptRefused \/ AcceptWoken \/ AcceptError
    BY <1>0, <2>2 DEF AcceptRefused, AcceptWoken, AcceptError, AcceptFailure, GoOnAfterFailure,
       Emptied
  <2>3. CASE ConnectFails \/ Connects \/ Insert \/ BeginSession \/ Accepted
    BY <1>0, <2>3 DEF ConnectFails, Connects, Insert, BeginSession, Accepted, Emptied
  <2>4. CASE ReapJoin
    BY <1>0, <2>4 DEF ReapJoin, Emptied
  <2>5. QED
    BY <2>1, <2>2, <2>3, <2>4 DEF AcceptLoop, Arrival
<1>4. QED
  BY <1>0, <1>1, <1>2, <1>3 DEF Emptied

LEMMA EmptiedCall ==
  ASSUME SInv, Phases, Ends, Emptied, NEW p \in Protocol, Start(p) \/ Stop(p), UNCHANGED phase
  PROVE  Emptied'
<1> USE DEF SInv
<1>0. "tcp" \in Protocol /\ UNCHANGED <<conn, last>>
  BY DEF Protocol, Start, Stop, acceptVars
<1>1. CASE p # "tcp"
  <2>1. call'["tcp"] = call["tcp"] /\ loop'["tcp"] = loop["tcp"] /\ running'["tcp"] = running["tcp"]
    BY <1>0, <1>1, OthersKept
  <2>2. table' = table
    BY <1>1 DEF Start, Stop, StopExchange, StopShut, StopClose, StopReset, StopJoin,
       StopSnapshot, StopSession, JoinSession, StopClear, Stopped, tableVars
  <2>3. QED
    BY <1>0, <2>1, <2>2 DEF Emptied
<1>2. CASE Start(p) /\ p = "tcp"
  <2>1. UNCHANGED table /\ call["tcp"] \in StartStates
    BY <1>2, StartMoves DEF Start, tableVars
  <2>2. ~last
    BY <1>0, <2>1 DEF Phases, Emptied
  <2>3. loop' = loop \/ (call["tcp"] = "spawn" /\ loop' = [loop EXCEPT !["tcp"] = "top"])
    BY <1>2 DEF Start, StartResolve, StartSocket, StartNoSocket, StartBindFails, StartBinds,
       StartFails, StartStore, StartSpawn, Started, Call
  <2>4. loop'["tcp"] = loop["tcp"] \/ (loop["tcp"] = "none" /\ loop'["tcp"] = "top")
    BY <1>0, <2>3 DEF Ready, TypeOK
  <2>5. QED
    BY <1>0, <2>1, <2>2, <2>4 DEF Emptied, StartStates
<1>3. CASE Stop(p) /\ p = "tcp"
  <2> USE DEF TypeOK, Call, tableVars
  <2>1. CASE StopExchange(p) \/ StopShut(p) \/ StopClose(p) \/ StopReset(p) \/ Stopped(p)
    <3>1. /\ UNCHANGED <<table, loop>> /\ call["tcp"] \notin {"snapshot", "sessions"}
          /\ running'["tcp"] => running["tcp"]
      BY <1>0, <1>3, <2>1 DEF StopExchange, StopShut, StopClose, StopReset, Stopped
    <3>2. QED
      BY <1>0, <3>1 DEF Emptied
  <2>2. CASE StopJoin(p)
    <3>1. /\ UNCHANGED <<table, running>> /\ loop["tcp"] = "exit" /\ call'["tcp"] = "snapshot"
      BY <1>0, <1>3, <2>2 DEF StopJoin, LoopExited
    <3>2. QED
      BY <1>0, <3>1 DEF Emptied
  <2>3. CASE StopSnapshot(p) \/ StopSession(p) \/ JoinSession(p)
    <3>1. /\ UNCHANGED <<table, running, loop>> /\ call'["tcp"] \in {"snapshot", "sessions"}
      BY <1>0, <1>3, <2>3 DEF StopSnapshot, StopSession, JoinSession
    <3>2. QED
      BY <1>0, <3>1 DEF Emptied
  <2>4. CASE StopClear(p)
    <3>1. table' = {} /\ UNCHANGED <<running, loop>>
      BY <1>3, <2>4 DEF StopClear
    <3>2. QED
      BY <1>0, <3>1 DEF Emptied
  <2>5. QED
    BY <1>3, <2>1, <2>2, <2>3, <2>4 DEF Stop
<1>4. QED
  BY <1>1, <1>2, <1>3

LEMMA EmptiedStep == SInv /\ Phases /\ Ends /\ Emptied /\ [Next]_vars => Emptied'
<1> SUFFICES ASSUME SInv, Phases, Ends, Emptied, [Next]_vars PROVE Emptied'
  OBVIOUS
<1>1. CASE UNCHANGED <<conn, loop, table, call, last, running, phase>>
  BY <1>1 DEF Emptied
<1>2. CASE StartForwarder \/ StopForwarder
  <2>1. /\ UNCHANGED <<conn, loop, table, last, running, phase>>
        /\ call'["tcp"] = call["tcp"] \/ call["tcp"] = "none"
    BY <1>2 DEF StartForwarder, StopForwarder, FacadeStart, FacadeStop, Call, OnlyCall, SInv,
       TypeOK, acceptVars, tableVars, Protocol
  <2>2. QED
    BY <2>1 DEF Emptied
<1>3. CASE Control
  <2>1. UNCHANGED <<conn, loop, table, call, last, running>>
    BY <1>3, ControlQuiet DEF SInv, forwarderVars, callVars, acceptVars, tableVars
  <2>2. phase \notin {"start", "wait"} => phase' \notin {"start", "wait"}
    BY <1>3 DEF Control, StartReturned, AllStarted, StopRequested, StopReturned, AllStopped,
       AllDestroyed
  <2>3. QED
    BY <2>1, <2>2 DEF Emptied
<1>4. CASE UdpLoopEnds /\ UNCHANGED <<mainVars, asked>>
  <2>1. UNCHANGED <<conn, table, call, last, running, phase>> /\ loop'["tcp"] = loop["tcp"]
    BY <1>4 DEF UdpLoopEnds, callVars, acceptVars, tableVars, mainVars, SInv, TypeOK, Protocol
  <2>2. QED
    BY <2>1 DEF Emptied
<1>5. CASE \E p \in Protocol : ResolverEnds(p) /\ UNCHANGED <<mainVars, asked>>
  BY <1>1, <1>5 DEF ResolverEnds, callVars, acceptVars, tableVars, mainVars
<1>6. CASE \E s \in Session : SessionFinishes(s) /\ UNCHANGED <<mainVars, asked>>
  BY <1>1, <1>6 DEF SessionFinishes, callVars, acceptVars, tableVars, mainVars
<1>7. CASE UNCHANGED <<forwarderVars, phase>>
  BY <1>1, <1>7 DEF forwarderVars, callVars, acceptVars, tableVars
<1>8. QED
  BY <1>2, <1>3, <1>4, <1>5, <1>6, <1>7, EmptiedAccept, EmptiedCall, StepCases
     DEF Signal, vars, mainVars
-----------------------------------------------------------------------------
(* Served.                                                                 *)
LEMMA AmongAppend ==
  ASSUME NEW seq \in Seq(Protocol), NEW x \in Protocol, NEW p \in Protocol,
         Among(p, seq) \/ p = x
  PROVE  Among(p, Append(seq, x))
<1>1. CASE Among(p, seq)
  <2>1. PICK i \in 1..Len(seq) : seq[i] = p
    BY <1>1 DEF Among
  <2>2. i \in 1..Len(Append(seq, x)) /\ Append(seq, x)[i] = p
    BY <2>1
  <2>3. QED
    BY <2>2 DEF Among
<1>2. CASE p = x
  <2>1. Len(seq) + 1 \in 1..Len(Append(seq, x)) /\ Append(seq, x)[Len(seq) + 1] = x
    OBVIOUS
  <2>2. QED
    BY <1>2, <2>1 DEF Among
<1>3. QED
  BY <1>1, <1>2

LEMMA AmongTail ==
  ASSUME NEW seq \in Seq(Protocol), NEW p \in Protocol, Among(p, seq), p # Head(seq)
  PROVE  seq # <<>> /\ Among(p, Tail(seq))
<1>1. PICK i \in 1..Len(seq) : seq[i] = p
  BY DEF Among
<1>2. seq # <<>> /\ i # 1
  BY <1>1
<1>3. i - 1 \in 1..Len(Tail(seq)) /\ Tail(seq)[i - 1] = p
  BY <1>1, <1>2
<1>4. QED
  BY <1>2, <1>3 DEF Among

LEMMA AmongNone == \A p : ~Among(p, <<>>)
BY DEF Among

\* A forwarder begins to serve at the end of its Start and ceases to at
\* the end of its Stop.
LEMMA ServingMoves ==
  ASSUME TypeOK, NEW p \in Protocol, Start(p) \/ Stop(p)
  PROVE  \/ UNCHANGED serving /\ call'[p] # "none"
         \/ UNCHANGED serving /\ call[p] = "socket"
         \/ serving' = [serving EXCEPT ![p] = TRUE] /\ call[p] \in StartStates
         \/ serving' = [serving EXCEPT ![p] = FALSE] /\ call[p] \in StopStates
<1> USE DEF TypeOK, Call
<1>1. CASE StartResolve(p) \/ StartSocket(p) \/ StartNoSocket(p) \/ StartBindFails(p)
  BY <1>1 DEF StartResolve, StartSocket, StartNoSocket, StartBindFails
<1>2. CASE StartBinds(p) \/ StartFails(p) \/ StartStore(p) \/ StartSpawn(p)
  BY <1>2 DEF StartBinds, StartFails, StartStore, StartSpawn
<1>3. CASE Started(p)
  BY <1>3 DEF Started, StartStates
<1>4. CASE StopExchange(p) \/ StopShut(p) \/ StopClose(p) \/ StopReset(p) \/ StopJoin(p)
  BY <1>4 DEF StopExchange, StopShut, StopClose, StopReset, StopJoin
<1>5. CASE StopSnapshot(p) \/ StopSession(p) \/ JoinSession(p) \/ StopClear(p)
  BY <1>5 DEF StopSnapshot, StopSession, JoinSession, StopClear
<1>6. CASE Stopped(p)
  BY <1>6 DEF Stopped, StopStates
<1>7. QED
  BY <1>1, <1>2, <1>3, <1>4, <1>5, <1>6 DEF Start, Stop

LEMMA ServedStep == TypeOK /\ OneCall /\ Ready /\ Phases /\ Served /\ [Next]_vars => Served'
<1> SUFFICES ASSUME TypeOK, OneCall, Ready, Phases, Served, [Next]_vars PROVE Served'
  OBVIOUS
<1>1. CASE UNCHANGED <<serving, call, phase, busy, todo, forwarders>>
  BY <1>1 DEF Served
<1>2. CASE StartForwarder
  BY <1>2 DEF StartForwarder, FacadeStart, Served
<1>3. CASE StopForwarder
  BY <1>3 DEF StopForwarder, FacadeStop, Served, TypeOK
<1>4. CASE StartReturned
  <2> DEFINE h == Head(todo)
  <2>1. /\ phase = "start" /\ todo # <<>> /\ h \in Protocol /\ busy' = FALSE /\ UNCHANGED serving
        /\ forwarders \in Seq(Protocol)
    BY <1>4 DEF StartReturned, OneCall, TypeOK, forwarderVars, callVars
  <2>2. \A p \in Protocol : serving[p] => Among(p, forwarders) \/ p = h
    BY <2>1 DEF Served
  <2>3. CASE serving[h]
    <3>1. forwarders' = Append(forwarders, h) /\ UNCHANGED phase
      BY <1>4, <2>3 DEF StartReturned
    <3>2. QED
      BY <2>1, <2>2, <3>1, AmongAppend DEF Served
  <2>4. CASE ~serving[h]
    <3>1. phase' = "stop" /\ todo' = forwarders
      BY <1>4, <2>4 DEF StartReturned
    <3>2. QED
      BY <2>1, <2>2, <2>4, <3>1 DEF Served
  <2>5. QED
    BY <2>3, <2>4
<1>5. CASE StopReturned
  <2>1. /\ todo # <<>> /\ todo \in Seq(Protocol) /\ busy /\ busy' = FALSE /\ todo' = Tail(todo)
        /\ call[Head(todo)] = "none" /\ UNCHANGED <<serving, phase>> /\ phase \in {"stop", "destroy"}
    BY <1>5 DEF StopReturned, OneCall, TypeOK, forwarderVars, callVars
  <2>2. \A p \in Protocol : serving[p] => phase = "stop" /\ Among(p, todo) /\ p # Head(todo)
    BY <2>1 DEF Served
  <2>3. QED
    BY <2>1, <2>2, AmongTail DEF Served
<1>6. CASE AllStarted \/ StopRequested
  <2>1. UNCHANGED <<serving, forwarders>> /\ ~busy' /\ ~busy
    BY <1>6, ControlQuiet DEF Control, AllStarted, StopRequested, OneCall, TypeOK, forwarderVars, callVars
  <2>2. QED
    BY <1>6, <2>1 DEF AllStarted, StopRequested, Served
<1>7. CASE AllStopped
  BY <1>7, AmongNone DEF AllStopped, Served, forwarderVars, callVars
<1>8. CASE AllDestroyed
  BY <1>8 DEF AllDestroyed, Served, forwarderVars, callVars
<1>9. ASSUME NEW p \in Protocol, Start(p) \/ Stop(p), UNCHANGED <<mainVars, asked>> PROVE Served'
  <2>1. busy /\ p = Head(todo) /\ call[p] # "none" /\ UNCHANGED <<phase, busy, todo, forwarders>>
    BY <1>9, StartMoves, StopMoves DEF OneCall, mainVars, StartStates, StopStates
  <2>2. \A q \in Protocol \ {p} : call'[q] = call[q]
    BY <1>9, StartMoves, StopMoves
  <2>3. CASE UNCHANGED serving /\ call'[p] # "none"
    BY <2>1, <2>2, <2>3 DEF Served
  <2>4. CASE UNCHANGED serving /\ call[p] = "socket"
    <3>1. ~serving[p]
      BY <2>4 DEF Ready, StartStates
    <3>2. QED
      BY <2>1, <2>2, <2>4, <3>1 DEF Served
  <2>5. CASE serving' = [serving EXCEPT ![p] = TRUE] /\ call[p] \in StartStates
    <3>1. phase = "start"
      BY <2>5 DEF Phases
    <3>2. QED
      BY <2>1, <2>2, <2>5, <3>1 DEF Served, TypeOK
  <2>6. CASE serving' = [serving EXCEPT ![p] = FALSE] /\ call[p] \in StopStates
    BY <2>1, <2>2, <2>6 DEF Served, TypeOK
  <2>7. QED
    BY <1>9, <2>3, <2>4, <2>5, <2>6, ServingMoves
<1>10. QED
  BY <1>1, <1>2, <1>3, <1>4, <1>5, <1>6, <1>7, <1>8, <1>9, StepCases
     DEF Control, AcceptLoop, Arrival, UdpLoopEnds, ResolverEnds, SessionFinishes, Signal, vars,
         forwarderVars, mainVars, callVars

-----------------------------------------------------------------------------
LEMMA SpecEnds == Spec => []EInv
<1>1. EInv /\ [Next]_vars => EInv'
  <2>1. SInv /\ [Next]_vars => SInv'
    BY TypeStep, OneCallStep, NumbersStep, ReadyStep, KnownStep DEF SInv, KInv
  <2>2. QED
    BY <2>1, PhasesStep, EndsStep, EmptiedStep, ServedStep DEF EInv, SInv
<1>2. QED
  BY <1>1, InitEnds, PTL DEF Spec

LEMMA EmptyHanded ==
  ASSUME EInv, NEW p \in Protocol, ~serving[p], call[p] = "none"
  PROVE  NothingLeft(p)
<1> USE DEF EInv, SInv
<1>1. ~running[p] /\ loop[p] = "none"
  BY DEF Ready
<1>2. resolver[p] = "none" /\ listening[p] = 0 /\ sockets[p] = {}
  BY <1>1 DEF Ends, EndsAt
<1>3. p = "tcp" => conn = {} /\ table = {}
  BY <1>1 DEF Emptied
<1>4. p = "tcp" => \A s \in Session : life[s] # "none" => hold[s] = "destroyed"
  BY <1>1, <1>3 DEF Known, SessionsHeld
<1>5. QED
  BY <1>1, <1>2, <1>3, <1>4 DEF NothingLeft

(* A forwarder that is not serving has left no thread, socket, descriptor  *)
(* or session behind, whichever endpoint its start failed at, whatever was *)
(* rolled back, and for both forwarders when main returns.                 *)
THEOREM NothingIsLeft == Spec => []LeavesNothing
<1>1. EInv => LeavesNothing
  <2> SUFFICES ASSUME EInv, NEW p \in Protocol, phase = "exit" \/ (~serving[p] /\ call[p] = "none")
               PROVE  NothingLeft(p)
    BY DEF LeavesNothing
  <2>1. ~serving[p] /\ call[p] = "none"
    <3>1. CASE phase = "exit"
      <4>1. ~serving[p]
        BY <3>1 DEF EInv, Served
      <4>2. call[p] \notin StartStates /\ call[p] \notin StopStates
        BY <3>1, <4>1 DEF EInv, Phases, SInv, Ready
      <4>3. QED
        BY <4>1, <4>2 DEF EInv, SInv, TypeOK
    <3>2. QED
      BY <3>1
  <2>2. QED
    BY <2>1, EmptyHanded
<1>2. QED
  BY <1>1, SpecEnds, PTL

(* A forwarder that says it is running has its one listening socket, not   *)
(* shut down, and both threads, until it is stopped.                       *)
THEOREM AlwaysServesUntilStopped == Spec => []ServesUntilStopped
<1>1. EInv => ServesUntilStopped
  <2> SUFFICES ASSUME EInv, NEW p \in Protocol, serving[p], call[p] = "none"
               PROVE  /\ running[p] /\ listening[p] \notin shut[p] /\ sockets[p] = {listening[p]}
                      /\ resolver[p] = "top" /\ loop[p] \in LoopStates
                      /\ p = "tcp" => ~last
    BY DEF ServesUntilStopped
  <2> USE DEF EInv, SInv
  <2>1. running[p] /\ loop[p] # "none"
    BY DEF Ready
  <2>2. resolver[p] = "top" /\ loop[p] \in LoopStates
    BY <2>1 DEF Ends, EndsAt, TypeOK
  <2>3. shut[p] = {} /\ sockets[p] = {listening[p]}
    BY DEF Ends, EndsAt
  <2>4. p = "tcp" => ~last
    BY <2>1 DEF Emptied
  <2>5. QED
    BY <2>1, <2>2, <2>3, <2>4
<1>2. QED
  BY <1>1, SpecEnds, PTL
-----------------------------------------------------------------------------
(* The refinement of UdpHalf: what each call does to the UDP loop.         *)
UdpSame == UNCHANGED <<call["udp"], running["udp"], loop["udp"]>>

LEMMA UdpStart ==
  ASSUME SInv, Start("udp")
  PROVE  [Half!HalfNext]_(Half!halfVars)
<1> USE DEF SInv, TypeOK, Call, Half!HalfNext, Half!halfVars, UdpStopping
<1>0. "udp" \in Protocol /\ running["udp"] \in BOOLEAN
  BY DEF Protocol
<1>1. CASE StartResolve("udp") \/ StartSocket("udp") \/ StartNoSocket("udp") \/ StartBindFails("udp")
  <2>1. /\ UNCHANGED <<running, loop>> /\ call["udp"] \in {"resolve", "socket", "bind"}
        /\ call'["udp"] \in {"socket", "bind"}
    BY <1>0, <1>1 DEF StartResolve, StartSocket, StartNoSocket, StartBindFails
  <2>2. QED
    BY <2>1
<1>2. CASE StartBinds("udp") \/ StartFails("udp") \/ Started("udp")
  <2>1. /\ UNCHANGED <<running, loop>> /\ call["udp"] \in {"socket", "bind", "started"}
        /\ call'["udp"] \in {"store", "none"}
    BY <1>0, <1>2 DEF StartBinds, StartFails, Started
  <2>2. QED
    BY <2>1
<1>3. CASE StartStore("udp")
  <2>1. /\ call["udp"] = "store" /\ call'["udp"] = "spawn" /\ UNCHANGED loop
        /\ running'["udp"] = TRUE
    BY <1>0, <1>3 DEF StartStore
  <2>2. ~running["udp"] /\ loop["udp"] = "none"
    BY <1>0, <2>1 DEF Ready
  <2>3. QED
    BY <2>1, <2>2 DEF Half!StoreRunning
<1>4. CASE StartSpawn("udp")
  <2>1. /\ call["udp"] = "spawn" /\ call'["udp"] = "started" /\ UNCHANGED running
        /\ loop'["udp"] = "top"
    BY <1>0, <1>4 DEF StartSpawn
  <2>2. running["udp"] /\ loop["udp"] = "none"
    BY <1>0, <2>1 DEF Ready
  <2>3. UNCHANGED UdpStopping
    BY <2>1
  <2>4. Half!Spawn
    BY <2>1, <2>2, <2>3 DEF Half!Spawn
  <2>5. QED
    BY <2>4
<1>5. QED
  BY <1>1, <1>2, <1>3, <1>4 DEF Start

LEMMA UdpStop ==
  ASSUME SInv, Stop("udp")
  PROVE  [Half!HalfNext]_(Half!halfVars)
<1> USE DEF SInv, TypeOK, Call, Half!HalfNext, Half!halfVars, UdpStopping
<1>0. "udp" \in Protocol /\ running["udp"] \in BOOLEAN
  BY DEF Protocol
<1>1. CASE StopExchange("udp")
  <2>1. call["udp"] = "exchange" /\ UNCHANGED loop /\ running'["udp"] = FALSE
    BY <1>0, <1>1 DEF StopExchange
  <2>2. running["udp"] = TRUE
    BY <1>0, <2>1 DEF Ready
  <2>3. call'["udp"] = "shut"
    BY <1>0, <1>1, <2>2 DEF StopExchange
  <2>4. QED
    BY <2>1, <2>2, <2>3 DEF Half!AskStop
<1>2. CASE StopShut("udp") \/ StopClose("udp") \/ StopReset("udp")
  <2>1. /\ UNCHANGED <<running, loop>> /\ call["udp"] \in {"shut", "close", "reset"}
        /\ call'["udp"] \in {"close", "reset", "join"}
    BY <1>0, <1>2 DEF StopShut, StopClose, StopReset
  <2>2. QED
    BY <2>1
<1>3. CASE StopJoin("udp")
  <2>1. /\ call["udp"] = "join" /\ call'["udp"] = "snapshot" /\ UNCHANGED running
        /\ loop["udp"] = "exit" /\ loop'["udp"] = "none"
    BY <1>0, <1>3 DEF StopJoin, LoopExited
  <2>2. QED
    BY <2>1 DEF Half!Join
<1>4. CASE StopSnapshot("udp") \/ StopSession("udp") \/ JoinSession("udp")
  <2>1. /\ UNCHANGED <<running, loop>> /\ call["udp"] \in {"snapshot", "sessions"}
        /\ call'["udp"] = "sessions"
    BY <1>0, <1>4 DEF StopSnapshot, StopSession, JoinSession
  <2>2. QED
    BY <2>1
<1>5. CASE StopClear("udp")
  <2>1. call["udp"] = "sessions" /\ call'["udp"] = "stopped" /\ UNCHANGED <<running, loop>>
    BY <1>0, <1>5 DEF StopClear
  <2>2. loop["udp"] = "none"
    BY <1>0, <2>1 DEF Ready
  <2>3. QED
    BY <2>1, <2>2 DEF Half!Return
<1>6. CASE Stopped("udp")
  <2>1. UNCHANGED <<running, loop>> /\ call["udp"] = "stopped" /\ call'["udp"] = "none"
    BY <1>0, <1>6 DEF Stopped
  <2>2. QED
    BY <2>1
<1>7. QED
  BY <1>1, <1>2, <1>3, <1>4, <1>5, <1>6 DEF Stop

LEMMA UdpStep ==
  ASSUME SInv, [Next]_vars
  PROVE  [Half!HalfNext]_(Half!halfVars)
<1> USE DEF Half!HalfNext, Half!halfVars, UdpStopping
<1>0. "udp" \in Protocol \ {"tcp"}
  BY DEF Protocol
<1>1. CASE UdpSame
  BY <1>1 DEF UdpSame
<1>2. CASE StartForwarder \/ StopForwarder
  <2>1. PICK p \in Protocol : (FacadeStart(p) \/ FacadeStop(p)) /\ OnlyCall
    BY <1>2 DEF StartForwarder, StopForwarder, SInv, TypeOK
  <2>2. /\ UNCHANGED <<running, loop>>
        /\ \/ call'["udp"] = call["udp"]
           \/ call["udp"] = "none" /\ call'["udp"] \in {"resolve", "exchange"}
    BY <1>0, <2>1 DEF FacadeStart, FacadeStop, Call, OnlyCall, SInv, TypeOK
  <2>3. QED
    BY <2>2
<1>3. ASSUME NEW p \in Protocol, Start(p) \/ Stop(p)
      PROVE  [Half!HalfNext]_(Half!halfVars)
  <2>1. CASE p = "udp"
    BY <1>3, <2>1, UdpStart, UdpStop
  <2>2. CASE p # "udp"
    BY <1>0, <1>1, <1>3, <2>2, OthersKept DEF UdpSame, SInv
  <2>3. QED
    BY <2>1, <2>2
<1>4. CASE AcceptLoop \/ Arrival
  <2>1. UNCHANGED callVars
    BY <1>4 DEF AcceptLoop, Arrival
  <2>2. QED
    BY <1>0, <1>1, <1>4, <2>1, LoopMoves DEF callVars, UdpSame, SInv
<1>5. CASE UdpLoopEnds
  <2>1. /\ loop["udp"] = "top" /\ loop'["udp"] = "exit" /\ ~running["udp"]
        /\ UNCHANGED <<call, running>>
    BY <1>0, <1>5 DEF UdpLoopEnds, callVars, SInv, TypeOK
  <2>2. QED
    BY <2>1 DEF Half!End
<1>6. CASE UNCHANGED <<call, running, loop>>
  BY <1>1, <1>6 DEF UdpSame
<1>7. QED
  BY <1>2, <1>3, <1>4, <1>5, <1>6, StepCases
     DEF Control, StartReturned, AllStarted, StopRequested, StopReturned, AllStopped,
         AllDestroyed, ResolverEnds, SessionFinishes, Signal, vars, forwarderVars, callVars

(* The UDP loop and the Stop that joins it are those that UdpSessions      *)
(* promises: the program counts on nothing else of the UDP half.           *)
THEOREM UdpLoopKeepsPromise == Spec => UdpPromise
<1>1. Init => Half!HalfInit
  BY DEF Init, ForwarderInit, Both, Protocol, Half!HalfInit, UdpStopping
<1>2. QED
  BY <1>1, SpecInv, UdpStep, PTL DEF Spec, UdpPromise, Half!HalfSpec
=============================================================================
