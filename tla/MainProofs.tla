----------------------------- MODULE MainProofs -----------------------------
(***************************************************************************)
(* Proofs about the whole program (Main, Forwarder) for every number of    *)
(* listen endpoints and of clients.                                        *)
(***************************************************************************)
EXTENDS Main, TLAPS

\* The call in progress is the one that main waits for.
OneCall ==
  /\ busy => todo # <<>> /\ phase # "wait"
  /\ \A p \in Protocol : call[p] # "none" => busy /\ p = Head(todo)

\* What the numbers in a call and in the accept thread stand for.
Numbers ==
  /\ \A p \in Protocol :
       /\ call[p] = "bind" => left[p] \in Socket
       /\ running[p] \/ call[p] \in {"store", "shut", "close", "reset"} => listening[p] \in Socket
       /\ call[p] \in {"shut", "close", "reset"} => ~running[p]
  /\ loop["tcp"] = "insert" => nextId < MaxSessions

\* How far a forwarder has come is written in its call: it runs, and has
\* a thread, from the middle of Start to the middle of Stop.
Ready ==
  \A p \in Protocol :
    /\ call[p] \in StartStates => ~serving[p]
    /\ call[p] \in StopStates => serving[p]
    /\ running[p] <=> \/ call[p] \in {"spawn", "started", "exchange"}
                      \/ call[p] = "none" /\ serving[p]
    /\ loop[p] # "none" <=> \/ call[p] \in {"started", "exchange", "shut", "close", "reset", "join"}
                            \/ call[p] = "none" /\ serving[p]

\* Which sessions there are, who is about to start the last one, and who
\* has the table in hand: the accept thread, or Stop after its end.
Known ==
  /\ \A s \in Session :
       /\ life[s] = "none" <=> s > nextId
       /\ life[s] = "none" => hold[s] = "kept"
       /\ life[s] = "new" => s = nextId /\ loop["tcp"] = "begin"
       /\ hold[s] = "stopped" => s \in stopList
  /\ loop["tcp"] = "begin" => nextId \in Session /\ life[nextId] = "new"
  /\ loop["tcp"] # "join" => reaping = {}
  /\ stopList = IF call["tcp"] = "sessions" THEN table ELSE {}
  /\ \A s \in table \cup reaping : life[s] # "none"
  /\ \A s \in reaping : life[s] = "finished" /\ hold[s] \in {"kept", "joined"}
  /\ \A s \in table : s \notin stopList => hold[s] = "kept"
  /\ \A s \in table : hold[s] # "destroyed"
  /\ \A s \in Session : hold[s] \in {"joined", "destroyed"} => life[s] = "finished"

SInv == TypeOK /\ OneCall /\ Numbers /\ Ready /\ Known /\ SessionsHeld
-----------------------------------------------------------------------------
\* The steps that main takes between two calls of the facade.
Control == StartReturned \/ AllStarted \/ StopRequested \/ StopReturned \/ AllStopped \/ AllDestroyed

LEMMA StepCases ==
  ASSUME [Next]_vars
  PROVE  \/ (StartForwarder \/ StopForwarder) /\ UNCHANGED asked
         \/ Control /\ UNCHANGED asked
         \/ \E p \in Protocol : Start(p) /\ UNCHANGED <<mainVars, asked>>
         \/ \E p \in Protocol : Stop(p) /\ UNCHANGED <<mainVars, asked>>
         \/ AcceptLoop /\ UNCHANGED <<mainVars, asked>>
         \/ Arrival /\ UNCHANGED <<mainVars, asked>>
         \/ (UdpLoopEnds \/ \E p \in Protocol : ResolverEnds(p)) /\ UNCHANGED <<mainVars, asked>>
         \/ \E s \in Session : SessionFinishes(s) /\ UNCHANGED <<mainVars, asked>>
         \/ Signal
         \/ UNCHANGED vars
BY DEF Next, MainThread, Threads, Clients, Sessions, Exited, Control

LEMMA InitInv == Init => SInv
<1> SUFFICES ASSUME Init PROVE SInv
  OBVIOUS
<1> USE ForwarderAssumption DEF Init, ForwarderInit, Both
<1>1. TypeOK
  <2>1. "tcp" \in Protocol /\ "udp" \in Protocol
    BY DEF Protocol
  <2>2. <<"tcp">> \in Seq(Protocol) /\ <<"udp">> \in Seq(Protocol) /\ <<"tcp", "udp">> \in Seq(Protocol)
    BY <2>1
  <2>3. todo \in Seq(Protocol) /\ forwarders \in Seq(Protocol)
    <3>1. todo \in {<<"tcp">>, <<"udp">>, <<"tcp", "udp">>} /\ forwarders = <<>>
      OBVIOUS
    <3>2. \A t \in {<<"tcp">>, <<"udp">>, <<"tcp", "udp">>} : t \in Seq(Protocol)
      BY ONLY <2>2, Zenon
    <3>3. <<>> \in Seq(Protocol)
      OBVIOUS
    <3>4. QED
      BY ONLY <3>1, <3>2, <3>3, Zenon
  <2>4. /\ serving \in [Protocol -> BOOLEAN] /\ running \in [Protocol -> BOOLEAN]
        /\ last \in BOOLEAN /\ busy \in BOOLEAN /\ asked \in BOOLEAN
    OBVIOUS
  <2>5. /\ sockets \in [Protocol -> SUBSET Socket] /\ shut \in [Protocol -> SUBSET Socket]
        /\ conn \subseteq {"client", "upstream"} /\ reaping \subseteq Session
        /\ table \subseteq Session /\ stopList \subseteq Session /\ logged \subseteq Session
    OBVIOUS
  <2>6. /\ left \in [Protocol -> 0..Candidates] /\ listening \in [Protocol -> 0..Candidates]
        /\ accepting \in 0..Candidates /\ nextId \in 0..MaxSessions /\ code \in {0, 2}
    OBVIOUS
  <2>7. /\ call \in [Protocol -> {"none"} \cup StartStates \cup StopStates]
        /\ resolver \in [Protocol -> {"none", "top", "exit"}]
        /\ loop \in [Protocol -> {"none", "exit"} \cup LoopStates]
        /\ life \in [Session -> {"none", "new", "running", "finished"}]
        /\ hold \in [Session -> {"kept", "stopped", "joined", "destroyed"}]
        /\ phase \in {"start", "wait", "stop", "destroy", "exit"}
    OBVIOUS
  <2>8. QED
    BY <2>3, <2>4, <2>5, <2>6, <2>7 DEF TypeOK
<1>2. OneCall /\ Numbers /\ Ready
  BY DEF OneCall, Numbers, Ready, Protocol, StartStates, StopStates
<1>3. Known /\ SessionsHeld
  BY DEF Known, SessionsHeld, Protocol, Session
<1>4. QED
  BY <1>1, <1>2, <1>3 DEF SInv

-----------------------------------------------------------------------------
(* Typing, group by group.                                                 *)
LEMMA TypeStart ==
  ASSUME TypeOK, Numbers, NEW p \in Protocol, Start(p), UNCHANGED <<mainVars, asked>>
  PROVE  TypeOK'
<1> USE ForwarderAssumption DEF TypeOK, mainVars, acceptVars, tableVars, sessionVars, socketVars, Call,
          StartStates, StopStates, Start
<1>1. CASE StartResolve(p)
  BY <1>1 DEF StartResolve
<1>2. CASE StartSocket(p)
  BY <1>2 DEF StartSocket, Socket
<1>3. CASE StartNoSocket(p)
  BY <1>3 DEF StartNoSocket
<1>4. CASE StartBindFails(p)
  BY <1>4 DEF StartBindFails, CloseCandidate, Numbers, Socket
<1>5. CASE StartBinds(p)
  BY <1>5 DEF StartBinds
<1>6. CASE StartFails(p)
  BY <1>6 DEF StartFails
<1>7. CASE StartStore(p)
  BY <1>7 DEF StartStore
<1>8. CASE StartSpawn(p)
  BY <1>8 DEF StartSpawn, LoopStates
<1>9. CASE Started(p)
  BY <1>9 DEF Started
<1>10. QED
  BY <1>1, <1>2, <1>3, <1>4, <1>5, <1>6, <1>7, <1>8, <1>9

LEMMA TypeStop ==
  ASSUME TypeOK, Numbers, NEW p \in Protocol, Stop(p), UNCHANGED <<mainVars, asked>>
  PROVE  TypeOK'
<1> USE ForwarderAssumption DEF TypeOK, mainVars, acceptVars, tableVars, sessionVars, socketVars, Call,
          StartStates, StopStates, Stop, Held
<1>1. CASE StopExchange(p)
  BY <1>1 DEF StopExchange
<1>2. CASE StopShut(p)
  BY <1>2 DEF StopShut, ShutListening, Numbers
<1>3. CASE StopClose(p)
  BY <1>3 DEF StopClose
<1>4. CASE StopReset(p)
  BY <1>4 DEF StopReset
<1>5. CASE StopJoin(p)
  BY <1>5 DEF StopJoin
<1>6. CASE StopSnapshot(p)
  BY <1>6 DEF StopSnapshot
<1>7. CASE StopSession(p)
  BY <1>7 DEF StopSession
<1>8. CASE JoinSession(p)
  BY <1>8 DEF JoinSession
<1>9. CASE StopClear(p)
  BY <1>9 DEF StopClear
<1>10. CASE Stopped(p)
  BY <1>10 DEF Stopped
<1>11. QED
  BY <1>1, <1>2, <1>3, <1>4, <1>5, <1>6, <1>7, <1>8, <1>9, <1>10

LEMMA TypeAccept ==
  ASSUME TypeOK, Numbers, AcceptLoop, UNCHANGED <<mainVars, asked>>
  PROVE  TypeOK'
<1> USE ForwarderAssumption DEF TypeOK, mainVars, acceptVars, tableVars, sessionVars, socketVars, callVars,
          Loop, LoopStates
<1>0. "tcp" \in Protocol /\ running["tcp"] \in BOOLEAN
  BY DEF Protocol
<1>1. CASE LoopTop
  BY <1>0, <1>1 DEF LoopTop, AcceptLoop
<1>2. CASE ReapScan
  BY <1>0, <1>2 DEF ReapScan, Finished, EraseFinished, AcceptLoop
<1>3. CASE ReapJoin
  BY <1>0, <1>3 DEF ReapJoin, Held, AcceptLoop
<1>4. CASE ReapDone
  BY <1>0, <1>4 DEF ReapDone, AcceptLoop
<1>5. CASE ReadListening \/ EnterAccept
  <2>1. CASE ReadListening
    BY <1>0, <2>1 DEF ReadListening, AcceptLoop
  <2>2. CASE EnterAccept
    BY <1>0, <2>2 DEF EnterAccept, AcceptLoop
  <2>3. QED
    BY <1>5, <2>1, <2>2
<1>6. CASE AcceptRefused \/ AcceptWoken
  BY <1>0, <1>6 DEF AcceptRefused, AcceptWoken, AcceptFailure, GoOnAfterFailure, AcceptLoop
<1>7. CASE ConnectFails \/ Connects
  BY <1>0, <1>7 DEF ConnectFails, Connects, AcceptLoop
<1>8. CASE Insert
  <2>1. NewId \in Session /\ nextId' \in 0..MaxSessions
    BY <1>8 DEF Insert, NewId, Numbers, Session
  <2>2. QED
    BY <1>0, <1>8, <2>1 DEF Insert, AcceptLoop
<1>9. CASE BeginSession
  BY <1>0, <1>9 DEF BeginSession, AcceptLoop
<1>10. QED
  BY <1>1, <1>2, <1>3, <1>4, <1>5, <1>6, <1>7, <1>8, <1>9 DEF AcceptLoop

LEMMA TypeArrival ==
  ASSUME TypeOK, Arrival, UNCHANGED <<mainVars, asked>>
  PROVE  TypeOK'
<1>1. "tcp" \in Protocol /\ running["tcp"] \in BOOLEAN
  BY DEF TypeOK, Protocol
<1>2. QED
  BY <1>1 DEF Arrival, Accepted, AcceptError, AcceptFailure, GoOnAfterFailure, Loop, LoopStates,
     TypeOK, mainVars, acceptVars, tableVars, sessionVars, socketVars, callVars

LEMMA TypeMain ==
  ASSUME TypeOK, OneCall, StartForwarder \/ StopForwarder \/ Control, UNCHANGED asked
  PROVE  TypeOK'
<1> USE DEF TypeOK, OnlyCall, acceptVars, tableVars, sessionVars, socketVars, callVars,
          forwarderVars, StartStates, StopStates
<1>1. todo # <<>> => Head(todo) \in Protocol /\ Tail(todo) \in Seq(Protocol)
  OBVIOUS
<1>2. CASE StartForwarder
  BY <1>1, <1>2 DEF StartForwarder, FacadeStart, Call
<1>3. CASE StopForwarder
  BY <1>1, <1>3 DEF StopForwarder, FacadeStop
<1>4. CASE StartReturned
  <2>1. todo # <<>>
    BY <1>4 DEF StartReturned, OneCall
  <2>2. Append(forwarders, Head(todo)) \in Seq(Protocol)
    BY <1>1, <2>1
  <2>3. QED
    BY <1>1, <1>4, <2>1, <2>2 DEF StartReturned
<1>5. CASE StopReturned
  BY <1>1, <1>5 DEF StopReturned, OneCall
<1>6. CASE AllStarted \/ StopRequested \/ AllStopped \/ AllDestroyed
  BY <1>6 DEF AllStarted, StopRequested, AllStopped, AllDestroyed
<1>7. QED
  BY <1>2, <1>3, <1>4, <1>5, <1>6 DEF Control

LEMMA TypeStep == TypeOK /\ OneCall /\ Numbers /\ [Next]_vars => TypeOK'
<1> SUFFICES ASSUME TypeOK, OneCall, Numbers, [Next]_vars PROVE TypeOK'
  OBVIOUS
<1>1. CASE UNCHANGED <<forwarderVars, mainVars>> /\ asked' \in BOOLEAN
  BY <1>1 DEF TypeOK, forwarderVars, mainVars, callVars, socketVars, acceptVars, tableVars, sessionVars
<1>2. CASE (UdpLoopEnds \/ \E p \in Protocol : ResolverEnds(p)) /\ UNCHANGED <<mainVars, asked>>
  BY <1>2 DEF UdpLoopEnds, ResolverEnds, TypeOK, mainVars, callVars, socketVars, acceptVars, tableVars, sessionVars
<1>3. ASSUME NEW s \in Session, SessionFinishes(s), UNCHANGED <<mainVars, asked>> PROVE TypeOK'
  BY <1>3 DEF SessionFinishes, TypeOK, mainVars, callVars, socketVars, acceptVars, tableVars
<1>4. QED
  BY <1>1, <1>2, <1>3, TypeStart, TypeStop, TypeAccept, TypeArrival, TypeMain,
     StepCases DEF Signal, vars, TypeOK
-----------------------------------------------------------------------------
(* What a step of a call changes: its own entry, of the same kind.         *)
LEMMA StartMoves ==
  ASSUME TypeOK, NEW p \in Protocol, Start(p)
  PROVE  /\ call[p] \in StartStates /\ call'[p] \in StartStates \cup {"none"}
         /\ \A q \in Protocol \ {p} : call'[q] = call[q]
<1> USE DEF TypeOK, Call, StartStates
<1>1. CASE StartResolve(p) \/ StartSocket(p) \/ StartNoSocket(p) \/ StartBindFails(p)
  BY <1>1 DEF StartResolve, StartSocket, StartNoSocket, StartBindFails
<1>2. CASE StartBinds(p) \/ StartFails(p) \/ StartStore(p) \/ StartSpawn(p) \/ Started(p)
  BY <1>2 DEF StartBinds, StartFails, StartStore, StartSpawn, Started
<1>3. QED
  BY <1>1, <1>2 DEF Start

LEMMA StopMoves ==
  ASSUME TypeOK, NEW p \in Protocol, Stop(p)
  PROVE  /\ call[p] \in StopStates /\ call'[p] \in StopStates \cup {"none"}
         /\ \A q \in Protocol \ {p} : call'[q] = call[q]
<1> USE DEF TypeOK, Call, StopStates
<1>1. CASE StopExchange(p) \/ StopShut(p) \/ StopClose(p) \/ StopReset(p) \/ StopJoin(p)
  BY <1>1 DEF StopExchange, StopShut, StopClose, StopReset, StopJoin
<1>2. CASE StopSnapshot(p) \/ StopSession(p) \/ JoinSession(p) \/ StopClear(p) \/ Stopped(p)
  BY <1>2 DEF StopSnapshot, StopSession, JoinSession, StopClear, Stopped
<1>3. QED
  BY <1>1, <1>2 DEF Stop

LEMMA OneCallStep == TypeOK /\ OneCall /\ [Next]_vars => OneCall'
<1> SUFFICES ASSUME TypeOK, OneCall, [Next]_vars PROVE OneCall'
  OBVIOUS
<1>1. CASE UNCHANGED <<call, busy, todo, phase>>
  BY <1>1 DEF OneCall
<1>2. CASE StartForwarder
  BY <1>2 DEF StartForwarder, FacadeStart, Call, OneCall, TypeOK
<1>3. CASE StopForwarder
  BY <1>3 DEF StopForwarder, FacadeStop, OneCall, TypeOK
<1>4. CASE Control
  <2> USE DEF OneCall, forwarderVars, callVars
  <2>1. CASE StartReturned \/ StopReturned
    <3>1. \A p \in Protocol : call[p] = "none"
      BY <2>1 DEF StartReturned, StopReturned
    <3>2. UNCHANGED call /\ busy' = FALSE
      BY <2>1 DEF StartReturned, StopReturned
    <3>3. QED
      BY <3>1, <3>2
  <2>2. CASE AllStarted \/ StopRequested \/ AllStopped \/ AllDestroyed
    <3>1. ~busy /\ UNCHANGED <<call, busy>>
      BY <2>2 DEF AllStarted, StopRequested, AllStopped, AllDestroyed, TypeOK
    <3>2. QED
      BY <3>1
  <2>3. QED
    BY <1>4, <2>1, <2>2 DEF Control
<1>5. ASSUME NEW p \in Protocol, Start(p), UNCHANGED <<mainVars, asked>> PROVE OneCall'
  BY <1>5, StartMoves DEF OneCall, StartStates, mainVars
<1>6. ASSUME NEW p \in Protocol, Stop(p), UNCHANGED <<mainVars, asked>> PROVE OneCall'
  BY <1>6, StopMoves DEF OneCall, StopStates, mainVars
<1>7. QED
  BY <1>1, <1>2, <1>3, <1>4, <1>5, <1>6, StepCases
     DEF AcceptLoop, Arrival, UdpLoopEnds, ResolverEnds, SessionFinishes, Signal, vars,
         forwarderVars, mainVars, callVars

(* The numbers of a call are its own; main gives a forwarder a call only   *)
(* when it has none.                                                       *)
NumbersAt(p) ==
  /\ call[p] = "bind" => left[p] \in Socket
  /\ running[p] \/ call[p] \in {"store", "shut", "close", "reset"} => listening[p] \in Socket
  /\ call[p] \in {"shut", "close", "reset"} => ~running[p]

\* A call of one forwarder leaves the other's entries alone.
LEMMA OthersKept ==
  ASSUME TypeOK, NEW p \in Protocol, Start(p) \/ Stop(p), NEW q \in Protocol \ {p}
  PROVE  /\ call'[q] = call[q] /\ left'[q] = left[q] /\ running'[q] = running[q]
         /\ serving'[q] = serving[q] /\ listening'[q] = listening[q] /\ loop'[q] = loop[q]
<1> USE DEF TypeOK, Start, Stop, StartResolve, StartSocket, StartNoSocket, StartBindFails,
          StartBinds, StartFails, StartStore, StartSpawn, Started, StopExchange, StopShut,
          StopClose, StopReset, StopJoin, StopSnapshot, StopSession, JoinSession, StopClear,
          Stopped
<1>1. call'[q] = call[q]
  BY StartMoves, StopMoves
<1>2. left'[q] = left[q]
  OBVIOUS
<1>3. running'[q] = running[q]
  OBVIOUS
<1>4. serving'[q] = serving[q]
  OBVIOUS
<1>5. listening'[q] = listening[q]
  BY DEF socketVars
<1>6. loop'[q] = loop[q]
  OBVIOUS
<1>7. QED
  BY <1>1, <1>2, <1>3, <1>4, <1>5, <1>6

LEMMA NumbersStart ==
  ASSUME TypeOK, Numbers, NEW p \in Protocol, Start(p)
  PROVE  NumbersAt(p)'
<1> USE DEF NumbersAt, Numbers, TypeOK, Call, socketVars
<1>0. /\ \A v : [call EXCEPT ![p] = v][p] = v
      /\ running[p] \in BOOLEAN
  OBVIOUS
<1>1. CASE StartResolve(p) \/ StartNoSocket(p)
  BY <1>0, <1>1 DEF StartResolve, StartNoSocket
<1>2. CASE StartFails(p) \/ Started(p)
  BY <1>0, <1>2 DEF StartFails, Started
<1>3. CASE StartSocket(p)
  BY <1>0, <1>3 DEF StartSocket, Socket
<1>4. CASE StartBindFails(p)
  BY <1>0, <1>4 DEF StartBindFails
<1>5. CASE StartBinds(p)
  BY <1>0, <1>5 DEF StartBinds
<1>6. CASE StartStore(p)
  BY <1>0, <1>6 DEF StartStore
<1>7. CASE StartSpawn(p)
  BY <1>0, <1>7 DEF StartSpawn
<1>8. QED
  BY <1>1, <1>2, <1>3, <1>4, <1>5, <1>6, <1>7 DEF Start

LEMMA NumbersStop ==
  ASSUME TypeOK, Numbers, NEW p \in Protocol, Stop(p)
  PROVE  NumbersAt(p)'
<1> USE DEF NumbersAt, Numbers, TypeOK, Call, socketVars
<1>0. /\ \A v : [call EXCEPT ![p] = v][p] = v
      /\ running[p] \in BOOLEAN
  OBVIOUS
<1>1. CASE StopExchange(p)
  BY <1>0, <1>1 DEF StopExchange
<1>2. CASE StopShut(p) \/ StopClose(p)
  BY <1>0, <1>2 DEF StopShut, StopClose
<1>3. CASE StopReset(p)
  BY <1>0, <1>3 DEF StopReset
<1>4. CASE StopJoin(p) \/ StopSnapshot(p) \/ StopClear(p) \/ Stopped(p)
  BY <1>0, <1>4 DEF StopJoin, StopSnapshot, StopClear, Stopped
<1>5. CASE StopSession(p) \/ JoinSession(p)
  BY <1>0, <1>5 DEF StopSession, JoinSession
<1>6. QED
  BY <1>1, <1>2, <1>3, <1>4, <1>5 DEF Stop

LEMMA NumbersCall ==
  ASSUME TypeOK, Numbers, NEW p \in Protocol, Start(p) \/ Stop(p)
  PROVE  \A q \in Protocol : NumbersAt(q)'
<1>1. NumbersAt(p)'
  BY NumbersStart, NumbersStop
<1>2. ASSUME NEW q \in Protocol \ {p} PROVE NumbersAt(q)'
  BY <1>2, OthersKept DEF Numbers, NumbersAt
<1>3. QED
  BY <1>1, <1>2

LEMMA NumbersStep == TypeOK /\ OneCall /\ Numbers /\ [Next]_vars => Numbers'
<1> SUFFICES ASSUME TypeOK, OneCall, Numbers, [Next]_vars PROVE Numbers'
  OBVIOUS
<1>1. \A q \in Protocol : NumbersAt(q)'
  <2>1. CASE UNCHANGED <<call, left, running, listening>>
    BY <2>1 DEF Numbers, NumbersAt
  <2>2. CASE StartForwarder \/ StopForwarder
    BY <2>2 DEF StartForwarder, StopForwarder, FacadeStart, FacadeStop, Call, OnlyCall, socketVars,
       Numbers, NumbersAt, TypeOK
  <2>3. QED
    BY <2>1, <2>2, NumbersCall, StepCases
       DEF Control, StartReturned, AllStarted, StopRequested, StopReturned, AllStopped,
           AllDestroyed, AcceptLoop, Arrival, UdpLoopEnds, ResolverEnds, SessionFinishes, Signal,
           vars, forwarderVars, callVars, socketVars
<1>2. (loop["tcp"] = "insert" => nextId < MaxSessions)'
  <2>1. CASE UNCHANGED <<loop, nextId>>
    BY <2>1 DEF Numbers
  <2>2. CASE StartForwarder \/ StopForwarder \/ Control
    BY <2>1, <2>2 DEF StartForwarder, StopForwarder, OnlyCall, Control, StartReturned, AllStarted,
       StopRequested, StopReturned, AllStopped, AllDestroyed, forwarderVars, tableVars
  <2>3. ASSUME NEW p \in Protocol, Start(p) PROVE (loop["tcp"] = "insert" => nextId < MaxSessions)'
    <3>1. UNCHANGED nextId
      BY <2>3 DEF Start, tableVars
    <3>2. loop' = loop \/ loop' = [loop EXCEPT ![p] = "top"]
      BY <2>3 DEF Start, StartResolve, StartSocket, StartNoSocket, StartBindFails, StartBinds,
         StartFails, StartStore, StartSpawn, Started
    <3>3. loop'["tcp"] = "insert" => loop["tcp"] = "insert"
      BY <3>2 DEF TypeOK, Protocol
    <3>4. QED
      BY <3>1, <3>3 DEF Numbers
  <2>4. ASSUME NEW p \in Protocol, Stop(p) PROVE (loop["tcp"] = "insert" => nextId < MaxSessions)'
    <3>1. UNCHANGED nextId
      BY <2>4 DEF Stop, StopExchange, StopShut, StopClose, StopReset, StopJoin, StopSnapshot,
         StopSession, JoinSession, StopClear, Stopped, tableVars
    <3>2. loop' = loop \/ loop' = [loop EXCEPT ![p] = "none"]
      BY <2>4 DEF Stop, StopExchange, StopShut, StopClose, StopReset, StopJoin, StopSnapshot,
         StopSession, JoinSession, StopClear, Stopped, LoopExited
    <3>3. loop'["tcp"] = "insert" => loop["tcp"] = "insert"
      BY <3>2 DEF TypeOK, Protocol
    <3>4. QED
      BY <3>1, <3>3 DEF Numbers
  <2>5. CASE AcceptLoop \/ Arrival
    <3> USE DEF Loop, TypeOK, tableVars
    <3>0. "tcp" \in Protocol
      BY DEF Protocol
    <3>1. CASE Connects
      BY <3>1 DEF Connects
    <3>2. CASE ReapJoin
      BY <3>2 DEF ReapJoin, Numbers
    <3>3. CASE LoopTop \/ ReapScan \/ ReapDone \/ ReadListening \/ EnterAccept
      BY <3>0, <3>3 DEF LoopTop, ReapScan, ReapDone, ReadListening, EnterAccept
    <3>4. CASE AcceptRefused \/ AcceptWoken \/ AcceptError
      BY <3>0, <3>4 DEF AcceptRefused, AcceptWoken, AcceptError, AcceptFailure
    <3>5. CASE ConnectFails \/ Insert \/ BeginSession \/ Accepted
      BY <3>0, <3>5 DEF ConnectFails, Insert, BeginSession, Accepted
    <3>6. QED
      BY <2>5, <3>1, <3>2, <3>3, <3>4, <3>5 DEF AcceptLoop, Arrival
  <2>6. CASE UdpLoopEnds
    BY <2>6 DEF UdpLoopEnds, tableVars, Numbers, TypeOK, Protocol
  <2>7. QED
    BY <2>1, <2>2, <2>3, <2>4, <2>5, <2>6, StepCases
       DEF ResolverEnds, SessionFinishes, Signal, vars, forwarderVars, tableVars
<1>3. QED
  BY <1>1, <1>2 DEF Numbers, NumbersAt

-----------------------------------------------------------------------------
(* Ready.                                                                  *)
ReadyAt(p) ==
  /\ call[p] \in StartStates => ~serving[p]
  /\ call[p] \in StopStates => serving[p]
  /\ running[p] <=> \/ call[p] \in {"spawn", "started", "exchange"}
                    \/ call[p] = "none" /\ serving[p]
  /\ loop[p] # "none" <=> \/ call[p] \in {"started", "exchange", "shut", "close", "reset", "join"}
                          \/ call[p] = "none" /\ serving[p]

LEMMA ReadyStart ==
  ASSUME TypeOK, Ready, NEW p \in Protocol, Start(p)
  PROVE  ReadyAt(p)'
<1> USE DEF ReadyAt, Ready, TypeOK, Call, socketVars, StartStates, StopStates
<1>0. /\ \A v : [call EXCEPT ![p] = v][p] = v
      /\ running[p] \in BOOLEAN /\ serving[p] \in BOOLEAN
  OBVIOUS
<1>1. CASE StartResolve(p) \/ StartNoSocket(p)
  BY <1>0, <1>1 DEF StartResolve, StartNoSocket
<1>2. CASE StartFails(p)
  BY <1>0, <1>2 DEF StartFails
<1>3. CASE StartSocket(p)
  BY <1>0, <1>3 DEF StartSocket
<1>4. CASE StartBindFails(p)
  BY <1>0, <1>4 DEF StartBindFails
<1>5. CASE StartBinds(p)
  BY <1>0, <1>5 DEF StartBinds
<1>6. CASE StartStore(p)
  BY <1>0, <1>6 DEF StartStore
<1>7. CASE StartSpawn(p)
  BY <1>0, <1>7 DEF StartSpawn
<1>8. CASE Started(p)
  BY <1>0, <1>8 DEF Started
<1>9. QED
  BY <1>1, <1>2, <1>3, <1>4, <1>5, <1>6, <1>7, <1>8 DEF Start

LEMMA ReadyStop ==
  ASSUME TypeOK, Ready, NEW p \in Protocol, Stop(p)
  PROVE  ReadyAt(p)'
<1> USE DEF ReadyAt, Ready, TypeOK, Call, socketVars, StartStates, StopStates
<1>0. /\ \A v : [call EXCEPT ![p] = v][p] = v
      /\ running[p] \in BOOLEAN /\ serving[p] \in BOOLEAN
  OBVIOUS
<1>1. CASE StopExchange(p)
  BY <1>0, <1>1 DEF StopExchange
<1>2. CASE StopShut(p) \/ StopClose(p)
  <2>1. /\ call[p] \in {"shut", "close"} /\ call'[p] \in {"close", "reset"}
        /\ UNCHANGED <<serving, running, loop>>
    BY <1>0, <1>2 DEF StopShut, StopClose
  <2>2. QED
    BY <1>0, <2>1
<1>3. CASE StopReset(p)
  BY <1>0, <1>3 DEF StopReset
<1>4. CASE StopJoin(p)
  BY <1>0, <1>4 DEF StopJoin, LoopExited
<1>5. CASE StopSnapshot(p) \/ StopClear(p)
  <2>1. /\ call[p] \in {"snapshot", "sessions"} /\ call'[p] \in {"sessions", "stopped"}
        /\ UNCHANGED <<serving, running, loop>>
    BY <1>0, <1>5 DEF StopSnapshot, StopClear
  <2>2. QED
    BY <1>0, <2>1
<1>6. CASE Stopped(p)
  BY <1>0, <1>6 DEF Stopped
<1>7. CASE StopSession(p) \/ JoinSession(p)
  BY <1>0, <1>7 DEF StopSession, JoinSession
<1>8. QED
  BY <1>1, <1>2, <1>3, <1>4, <1>5, <1>6, <1>7 DEF Stop

\* The accept thread starts in no other thread's place and ends in a join.
LEMMA LoopMoves ==
  ASSUME TypeOK, AcceptLoop \/ Arrival
  PROVE  /\ loop["tcp"] # "none" /\ loop'["tcp"] # "none"
         /\ \A q \in Protocol \ {"tcp"} : loop'[q] = loop[q]
<1> USE DEF TypeOK, Loop
<1>0. "tcp" \in Protocol
  BY DEF Protocol
<1>1. CASE LoopTop \/ ReapScan \/ ReapDone \/ ReadListening \/ EnterAccept
  BY <1>0, <1>1 DEF LoopTop, ReapScan, ReapDone, ReadListening, EnterAccept
<1>2. CASE AcceptRefused \/ AcceptWoken \/ AcceptError
  BY <1>0, <1>2 DEF AcceptRefused, AcceptWoken, AcceptError, AcceptFailure
<1>3. CASE ConnectFails \/ Connects \/ Insert \/ BeginSession \/ Accepted
  BY <1>0, <1>3 DEF ConnectFails, Connects, Insert, BeginSession, Accepted
<1>4. CASE ReapJoin
  BY <1>0, <1>4 DEF ReapJoin
<1>5. QED
  BY <1>1, <1>2, <1>3, <1>4 DEF AcceptLoop, Arrival

LEMMA ReadyStep == TypeOK /\ OneCall /\ Ready /\ [Next]_vars => Ready'
<1> SUFFICES ASSUME TypeOK, OneCall, Ready, [Next]_vars, NEW q \in Protocol PROVE ReadyAt(q)'
  BY DEF Ready, ReadyAt
<1>1. CASE UNCHANGED <<call, serving, running, loop>>
  BY <1>1 DEF Ready, ReadyAt
<1>2. CASE StartForwarder \/ StopForwarder
  <2>1. PICK p \in Protocol : (FacadeStart(p) \/ FacadeStop(p)) /\ OnlyCall
    BY <1>2 DEF StartForwarder, StopForwarder, TypeOK
  <2>2. CASE q = p
    BY <2>1, <2>2 DEF FacadeStart, FacadeStop, Call, OnlyCall, Ready, ReadyAt, TypeOK,
       StartStates, StopStates
  <2>3. CASE q # p
    BY <2>1, <2>3 DEF FacadeStart, FacadeStop, Call, OnlyCall, Ready, ReadyAt, TypeOK
  <2>4. QED
    BY <2>2, <2>3
<1>3. ASSUME NEW p \in Protocol, Start(p) \/ Stop(p) PROVE ReadyAt(q)'
  <2>1. CASE q = p
    BY <1>3, <2>1, ReadyStart, ReadyStop
  <2>2. CASE q # p
    <3>1. /\ call'[q] = call[q] /\ running'[q] = running[q]
          /\ loop'[q] = loop[q] /\ serving'[q] = serving[q]
      BY <1>3, <2>2, OthersKept
    <3>2. QED
      BY <3>1 DEF Ready, ReadyAt
  <2>3. QED
    BY <2>1, <2>2
<1>4. CASE (AcceptLoop \/ Arrival) /\ UNCHANGED <<mainVars, asked>>
  <2>1. UNCHANGED callVars
    BY <1>4 DEF AcceptLoop, Arrival
  <2>2. CASE q = "tcp"
    BY <1>4, <2>1, <2>2, LoopMoves DEF Ready, ReadyAt, callVars
  <2>3. CASE q # "tcp"
    BY <1>4, <2>1, <2>3, LoopMoves DEF Ready, ReadyAt, callVars
  <2>4. QED
    BY <2>2, <2>3
<1>5. CASE UdpLoopEnds
  BY <1>5 DEF UdpLoopEnds, callVars, Ready, ReadyAt, TypeOK, Protocol
<1>6. QED
  BY <1>1, <1>2, <1>3, <1>4, <1>5, StepCases
     DEF Control, StartReturned, AllStarted, StopRequested, StopReturned, AllStopped,
         AllDestroyed, ResolverEnds, SessionFinishes, Signal, vars, forwarderVars, callVars
-----------------------------------------------------------------------------
(* Known and SessionsHeld.                                                 *)
KInv == Known /\ SessionsHeld

\* Most steps touch no session; what matters then is three control states.
LEMMA KnownFrame ==
  ASSUME KInv, UNCHANGED <<life, hold, nextId, reaping, table, stopList>>,
         (loop["tcp"] = "begin")' <=> loop["tcp"] = "begin",
         loop["tcp"] = "join" => (loop["tcp"] = "join")',
         (call["tcp"] = "sessions")' <=> call["tcp"] = "sessions"
  PROVE  KInv'
BY DEF KInv, Known, SessionsHeld

\* While the accept thread runs, Stop has not looked at the sessions.
LEMMA StopBehind ==
  ASSUME TypeOK, Ready, KInv, loop["tcp"] # "none"
  PROVE  call["tcp"] # "sessions" /\ stopList = {} /\ \A s \in Session : hold[s] # "stopped"
BY DEF Ready, KInv, Known, Protocol

LEMMA KnownAccept ==
  ASSUME TypeOK, Numbers, Ready, KInv, AcceptLoop \/ Arrival
  PROVE  KInv'
<1> USE DEF TypeOK, Loop, tableVars, sessionVars, acceptVars
<1>0. "tcp" \in Protocol /\ UNCHANGED <<call, stopList>> /\ loop["tcp"] # "none"
  BY LoopMoves DEF Protocol, AcceptLoop, Arrival, callVars
<1>a. call["tcp"] # "sessions" /\ stopList = {} /\ \A s \in Session : hold[s] # "stopped"
  BY <1>0, StopBehind
<1>1. CASE LoopTop \/ ReadListening \/ EnterAccept
  BY <1>0, <1>1, KnownFrame DEF LoopTop, ReadListening, EnterAccept
<1>2. CASE AcceptRefused \/ AcceptWoken \/ AcceptError
  BY <1>0, <1>2, KnownFrame DEF AcceptRefused, AcceptWoken, AcceptError, AcceptFailure
<1>3. CASE ConnectFails \/ Connects \/ Accepted
  BY <1>0, <1>3, KnownFrame DEF ConnectFails, Connects, Accepted
<1>4. CASE ReapScan
  BY <1>0, <1>a, <1>4 DEF ReapScan, Finished, IsFinished, EraseFinished, KInv, Known, SessionsHeld
<1>5. CASE ReapJoin
  BY <1>0, <1>a, <1>5 DEF ReapJoin, Held, KInv, Known, SessionsHeld
<1>6. CASE ReapDone
  BY <1>0, <1>a, <1>6 DEF ReapDone, KInv, Known, SessionsHeld
<1>7. CASE Insert
  <2>1. NewId \in Session /\ nextId \in Nat /\ NewId = nextId + 1 /\ nextId' = NewId
    BY <1>7, ForwarderAssumption DEF Insert, NewId, Numbers, Session
  <2>2. /\ life[NewId] = "none" /\ hold[NewId] = "kept" /\ NewId \notin table \cup reaping
        /\ loop["tcp"] = "insert" /\ loop'["tcp"] = "begin"
    BY <1>0, <1>7, <2>1 DEF KInv, Known, Insert, Session
  <2>3. life' = [life EXCEPT ![NewId] = "new"] /\ table' = table \cup {NewId}
        /\ UNCHANGED <<hold, reaping>>
    BY <1>7 DEF Insert
  <2>4. Known'
    BY <1>0, <1>a, <2>1, <2>2, <2>3 DEF KInv, Known, Session
  <2>5. SessionsHeld'
    BY <1>0, <1>a, <2>1, <2>2, <2>3 DEF KInv, Known, SessionsHeld
  <2>6. QED
    BY <2>4, <2>5 DEF KInv
<1>8. CASE BeginSession
  BY <1>0, <1>a, <1>8 DEF BeginSession, KInv, Known, SessionsHeld
<1>9. QED
  BY <1>1, <1>2, <1>3, <1>4, <1>5, <1>6, <1>7, <1>8 DEF AcceptLoop, Arrival

\* Start gives the TCP forwarder its accept thread when it has none.
LEMMA KnownStart ==
  ASSUME TypeOK, Ready, KInv, NEW p \in Protocol, Start(p)
  PROVE  KInv'
<1>0. "tcp" \in Protocol /\ UNCHANGED <<life, hold, nextId, reaping, table, stopList>>
  BY DEF Protocol, Start, acceptVars, tableVars, sessionVars
<1>1. (call["tcp"] = "sessions")' <=> call["tcp"] = "sessions"
  BY <1>0, StartMoves DEF StartStates
<1>2. loop'["tcp"] = loop["tcp"] \/ (loop["tcp"] = "none" /\ loop'["tcp"] = "top")
  <2>1. CASE p = "tcp"
    <3>1. loop' = loop \/ (call[p] = "spawn" /\ loop' = [loop EXCEPT ![p] = "top"])
      BY DEF Start, StartResolve, StartSocket, StartNoSocket, StartBindFails, StartBinds,
         StartFails, StartStore, StartSpawn, Started, Call
    <3>2. QED
      BY <3>1, <2>1 DEF Ready, TypeOK
  <2>2. CASE p # "tcp"
    BY <1>0, <2>2, OthersKept
  <2>3. QED
    BY <2>1, <2>2
<1>3. QED
  BY <1>0, <1>1, <1>2, KnownFrame

\* In a Stop, only the steps of the table and of its sessions touch them,
\* and those of the TCP forwarder come after the accept thread has ended.
LEMMA KnownStop ==
  ASSUME TypeOK, OneCall, Ready, KInv, NEW p \in Protocol, Stop(p)
  PROVE  KInv'
<1> USE DEF TypeOK, Call, tableVars, acceptVars
<1>0. "tcp" \in Protocol /\ UNCHANGED <<life, reaping>>
  BY DEF Stop, Protocol
<1>1. p # "tcp" => call["tcp"] = "none" /\ call'["tcp"] = "none" /\ stopList = {}
  <2>1. call[p] # "none"
    BY StopMoves DEF StopStates
  <2>2. p # "tcp" => call["tcp"] = "none"
    BY <1>0, <2>1 DEF OneCall
  <2>3. QED
    BY <1>0, <2>2, StopMoves DEF KInv, Known
<1>2. CASE StopExchange(p) \/ StopShut(p) \/ StopClose(p) \/ StopReset(p) \/ Stopped(p)
  <2>1. UNCHANGED <<hold, nextId, table, stopList, loop>>
    BY <1>2 DEF StopExchange, StopShut, StopClose, StopReset, Stopped
  <2>2. (call["tcp"] = "sessions")' <=> call["tcp"] = "sessions"
    BY <1>0, <1>2 DEF StopExchange, StopShut, StopClose, StopReset, Stopped
  <2>3. QED
    BY <1>0, <2>1, <2>2, KnownFrame
<1>3. CASE StopJoin(p)
  <2>1. /\ UNCHANGED <<hold, nextId, table, stopList>>
        /\ loop'["tcp"] = loop["tcp"] \/ (loop["tcp"] = "exit" /\ loop'["tcp"] = "none")
        /\ (call["tcp"] = "sessions")' <=> call["tcp"] = "sessions"
    BY <1>0, <1>3 DEF StopJoin, LoopExited
  <2>2. QED
    BY <1>0, <2>1, KnownFrame
<1>4. CASE StopSnapshot(p)
  BY <1>0, <1>1, <1>4 DEF StopSnapshot, KInv, Known, SessionsHeld
<1>5. CASE StopSession(p) \/ JoinSession(p)
  <2>1. p = "tcp" /\ call["tcp"] = "sessions" /\ reaping = {} /\ UNCHANGED <<call, nextId, table, stopList, loop>>
    BY <1>1, <1>5 DEF StopSession, JoinSession, KInv, Known, Ready
  <2>2. PICK s \in stopList :
          \/ (hold[s] = "kept" /\ Held(s, "stopped"))
          \/ (hold[s] = "stopped" /\ life[s] = "finished" /\ Held(s, "joined"))
    BY <1>5 DEF StopSession, JoinSession
  <2>3. QED
    BY <1>0, <2>1, <2>2 DEF Held, KInv, Known, SessionsHeld
<1>6. CASE StopClear(p)
  <2>1. CASE p = "tcp"
    <3>1. /\ stopList = table /\ reaping = {} /\ stopList' = {} /\ table' = {}
          /\ \A s \in table : hold[s] = "joined" /\ life[s] = "finished"
          /\ hold' = [s \in Session |-> IF s \in table THEN "destroyed" ELSE hold[s]]
          /\ UNCHANGED <<loop, nextId>> /\ call'["tcp"] # "sessions"
      BY <1>6, <2>1 DEF StopClear, KInv, Known, Ready
    <3>2. Known'
      BY <1>0, <3>1 DEF KInv, Known
    <3>3. SessionsHeld'
      BY <1>0, <3>1 DEF KInv, SessionsHeld
    <3>4. QED
      BY <3>2, <3>3 DEF KInv
  <2>2. CASE p # "tcp"
    <3>1. hold' = [s \in Session |-> hold[s]] /\ UNCHANGED <<table, loop, nextId>> /\ stopList' = {}
      BY <1>6, <2>2 DEF StopClear
    <3>2. hold' = hold
      BY <3>1
    <3>3. QED
      BY <1>0, <1>1, <2>2, <3>1, <3>2, KnownFrame
  <2>3. QED
    BY <2>1, <2>2
<1>7. QED
  BY <1>2, <1>3, <1>4, <1>5, <1>6 DEF Stop

LEMMA KnownStep == TypeOK /\ OneCall /\ Numbers /\ Ready /\ KInv /\ [Next]_vars => KInv'
<1> SUFFICES ASSUME TypeOK, OneCall, Numbers, Ready, KInv, [Next]_vars PROVE KInv'
  OBVIOUS
<1>1. CASE UNCHANGED <<call, loop, reaping, tableVars, stopList, sessionVars>>
  BY <1>1, KnownFrame DEF tableVars, sessionVars
<1>2. CASE StartForwarder \/ StopForwarder
  <2>1. UNCHANGED <<life, hold, nextId, reaping, table, stopList, loop>>
    BY <1>2 DEF StartForwarder, StopForwarder, OnlyCall, acceptVars, tableVars, sessionVars
  <2>2. (call["tcp"] = "sessions")' <=> call["tcp"] = "sessions"
    BY <1>2 DEF StartForwarder, StopForwarder, FacadeStart, FacadeStop, Call, TypeOK, Protocol
  <2>3. QED
    BY <2>1, <2>2, KnownFrame
<1>3. CASE UdpLoopEnds
  <2>1. /\ UNCHANGED <<call, life, hold, nextId, reaping, table, stopList>>
        /\ loop'["tcp"] = loop["tcp"]
    BY <1>3 DEF UdpLoopEnds, acceptVars, tableVars, sessionVars, callVars, TypeOK, Protocol
  <2>2. QED
    BY <2>1, KnownFrame
<1>4. ASSUME NEW s \in Session, SessionFinishes(s) PROVE KInv'
  <2>1. /\ life[s] = "running" /\ life' = [life EXCEPT ![s] = "finished"]
        /\ UNCHANGED <<call, loop, hold, nextId, reaping, table, stopList>>
    BY <1>4 DEF SessionFinishes, acceptVars, tableVars, callVars
  <2>2. QED
    BY <2>1 DEF KInv, Known, SessionsHeld, TypeOK
<1>5. QED
  BY <1>1, <1>2, <1>3, <1>4, KnownStart, KnownStop, KnownAccept, StepCases
     DEF Control, StartReturned, AllStarted, StopRequested, StopReturned, AllStopped,
         AllDestroyed, ResolverEnds, Signal, vars, forwarderVars, callVars, acceptVars

-----------------------------------------------------------------------------
LEMMA SpecInv == Spec => []SInv
<1>1. SInv /\ [Next]_vars => SInv'
  BY TypeStep, OneCallStep, NumbersStep, ReadyStep, KnownStep DEF SInv, KInv
<1>2. QED
  BY <1>1, InitInv, PTL DEF Spec

(* What a step does to one session: nothing, or one step of its life.      *)
Lived(s) == [Life(s)!LifeNext]_(Life(s)!lifeVars)

LEMMA Untouched ==
  ASSUME NEW s \in Session, life'[s] = life[s], hold'[s] = hold[s]
  PROVE  Lived(s)
BY DEF Lived, Life!lifeVars

LEMMA OneStep ==
  ASSUME NEW s \in Session,
         \/ (life[s] = "none" /\ life'[s] = "new" /\ hold'[s] = hold[s])
         \/ (life[s] = "new" /\ hold[s] = "kept" /\ life'[s] = "running" /\ hold'[s] = hold[s])
         \/ (life[s] = "running" /\ life'[s] = "finished" /\ hold'[s] = hold[s])
         \/ (life[s] \in {"running", "finished"} /\ hold[s] = "kept" /\ hold'[s] = "stopped"
              /\ life'[s] = life[s])
         \/ (life[s] = "finished" /\ hold[s] \in {"kept", "stopped"} /\ hold'[s] = "joined"
              /\ life'[s] = life[s])
         \/ (hold[s] = "joined" /\ hold'[s] = "destroyed" /\ life'[s] = life[s])
  PROVE  Lived(s)
BY DEF Lived, Life!LifeNext, Life!Create, Life!Begin, Life!Finish, Life!AskStop, Life!Join,
   Life!Destroy

LEMMA LivedAccept ==
  ASSUME SInv, AcceptLoop \/ Arrival, NEW s \in Session
  PROVE  Lived(s)
<1> USE DEF SInv, TypeOK, Loop, tableVars, sessionVars, acceptVars
<1>1. CASE LoopTop \/ ReadListening \/ EnterAccept \/ ReapScan
  BY <1>1, Untouched DEF LoopTop, ReadListening, EnterAccept, ReapScan
<1>2. CASE AcceptRefused \/ AcceptWoken \/ AcceptError
  BY <1>2, Untouched DEF AcceptRefused, AcceptWoken, AcceptError, AcceptFailure
<1>3. CASE ConnectFails \/ Connects \/ Accepted
  BY <1>3, Untouched DEF ConnectFails, Connects, Accepted
<1>4. CASE ReapJoin
  <2>1. PICK r \in reaping : hold[r] = "kept" /\ life[r] = "finished" /\ Held(r, "joined")
    BY <1>4 DEF ReapJoin
  <2>2. UNCHANGED life /\ hold' = [hold EXCEPT ![r] = "joined"] /\ r \in Session
    BY <1>4, <2>1 DEF ReapJoin, Held
  <2>3. QED
    BY <2>1, <2>2, Untouched, OneStep
<1>5. CASE ReapDone
  <2>1. /\ UNCHANGED life /\ \A r \in reaping : hold[r] = "joined"
        /\ hold' = [r \in Session |-> IF r \in reaping THEN "destroyed" ELSE hold[r]]
    BY <1>5 DEF ReapDone
  <2>2. QED
    BY <2>1, Untouched, OneStep
<1>6. CASE Insert
  <2>1. UNCHANGED hold /\ life' = [life EXCEPT ![NewId] = "new"] /\ NewId = nextId + 1
    BY <1>6 DEF Insert, NewId
  <2>2. s = NewId => life[s] = "none"
    BY <2>1 DEF Known, Session
  <2>3. QED
    BY <2>1, <2>2, Untouched, OneStep
<1>7. CASE BeginSession
  <2>1. UNCHANGED hold /\ life' = [life EXCEPT ![nextId] = "running"]
        /\ nextId \in Session /\ life[nextId] = "new"
    BY <1>7 DEF BeginSession, Known
  <2>2. hold[nextId] = "kept"
    <3>1. loop["tcp"] # "none" /\ hold[nextId] # "stopped"
      BY <1>7, <2>1, StopBehind DEF BeginSession, KInv
    <3>2. QED
      BY <2>1, <3>1 DEF Known
  <2>3. QED
    BY <2>1, <2>2, Untouched, OneStep
<1>8. QED
  BY <1>1, <1>2, <1>3, <1>4, <1>5, <1>6, <1>7 DEF AcceptLoop, Arrival

LEMMA LivedStop ==
  ASSUME SInv, NEW p \in Protocol, Stop(p), NEW s \in Session
  PROVE  Lived(s)
<1> USE DEF SInv, TypeOK
<1>0. UNCHANGED life
  BY DEF Stop
<1>1. CASE StopExchange(p) \/ StopShut(p) \/ StopClose(p) \/ StopReset(p)
  BY <1>0, <1>1, Untouched DEF StopExchange, StopShut, StopClose, StopReset
<1>2. CASE StopJoin(p) \/ StopSnapshot(p) \/ Stopped(p)
  BY <1>0, <1>2, Untouched DEF StopJoin, StopSnapshot, Stopped
<1>3. CASE StopSession(p)
  <2>1. PICK r \in stopList : hold[r] = "kept" /\ hold' = [hold EXCEPT ![r] = "stopped"]
    BY <1>3 DEF StopSession, Held
  <2>2. r \in Session /\ life[r] \in {"running", "finished"}
    <3>1. r \in table /\ call["tcp"] = "sessions" /\ "tcp" \in Protocol
      BY <2>1 DEF Known, Protocol
    <3>2. life[r] # "none" /\ life[r] # "new" /\ r \in Session
      BY <3>1 DEF Known, Ready
    <3>3. QED
      BY <3>2
  <2>3. QED
    BY <1>0, <2>1, <2>2, Untouched, OneStep
<1>4. CASE JoinSession(p)
  <2>1. PICK r \in stopList : /\ hold[r] = "stopped" /\ life[r] = "finished"
                              /\ hold' = [hold EXCEPT ![r] = "joined"]
    BY <1>4 DEF JoinSession, Held
  <2>2. QED
    BY <1>0, <2>1, Untouched, OneStep
<1>5. CASE StopClear(p)
  <2>1. CASE p = "tcp"
    <3>1. /\ stopList = table /\ \A r \in table : hold[r] = "joined"
          /\ hold' = [r \in Session |-> IF r \in table THEN "destroyed" ELSE hold[r]]
      BY <1>5, <2>1 DEF StopClear, Known, Call
    <3>2. QED
      BY <1>0, <3>1, Untouched, OneStep
  <2>2. CASE p # "tcp"
    <3>1. hold' = [r \in Session |-> hold[r]]
      BY <1>5, <2>2 DEF StopClear
    <3>2. QED
      BY <1>0, <3>1, Untouched
  <2>3. QED
    BY <2>1, <2>2
<1>6. QED
  BY <1>1, <1>2, <1>3, <1>4, <1>5 DEF Stop

LEMMA LivedStep == SInv /\ [Next]_vars => \A s \in Session : Lived(s)
<1> SUFFICES ASSUME SInv, [Next]_vars, NEW s \in Session PROVE Lived(s)
  OBVIOUS
<1>1. CASE UNCHANGED <<life, hold>>
  BY <1>1, Untouched
<1>2. ASSUME NEW r \in Session, SessionFinishes(r) PROVE Lived(s)
  <2>1. life[r] = "running" /\ life' = [life EXCEPT ![r] = "finished"] /\ UNCHANGED hold
    BY <1>2 DEF SessionFinishes
  <2>2. QED
    BY <2>1, Untouched, OneStep DEF SInv, TypeOK
<1>3. QED
  BY <1>1, <1>2, LivedAccept, LivedStop, StepCases
     DEF Control, StartForwarder, StopForwarder, OnlyCall, StartReturned, AllStarted,
         StopRequested, StopReturned, AllStopped, AllDestroyed, Start, ResolverEnds, UdpLoopEnds,
         Signal, vars, forwarderVars, sessionVars

(* The variables of the program stay in their ranges: Start tries only the *)
(* endpoints there are, and a session gets a number of its own.            *)
THEOREM ProgramTypeCorrect == Spec => []TypeOK
BY SpecInv, PTL DEF SInv

(* No session is lost: whatever the order of arrivals, ends and stops, the *)
(* table, the reaping accept thread or Stop still refers to it.            *)
THEOREM SessionsAlwaysHeld == Spec => []SessionsHeld
BY SpecInv, PTL DEF SInv

(* The forwarder keeps the contract of a session with each of its sessions *)
(* (SessionLife), however many there are and wherever a stop finds them.   *)
THEOREM ForwarderKeepsContract == Spec => SessionContract
<1>1. Init => \A s \in Session : Life(s)!LifeInit
  BY DEF Init, ForwarderInit, Life!LifeInit
<1>2. SInv /\ [Next]_vars
        => [\A s \in Session : [Life(s)!LifeNext]_(Life(s)!lifeVars)]_sessionVars
  BY LivedStep DEF Lived
<1>3. QED
  BY <1>1, <1>2, SpecInv, PTL DEF Spec, SessionContract
=============================================================================
