------------------------------ MODULE Forwarder ------------------------------
(***************************************************************************)
(* The forwarders of the program, one per protocol (forwarder.cpp): the    *)
(* facade's Start and Stop, Impl's Start and Stop, the accept loop of the  *)
(* TCP forwarder with its table of sessions, and its reaping of finished   *)
(* sessions.  Main.tla adds the thread that calls Start and Stop.          *)
(*                                                                         *)
(* A session is what SessionLife says.  The resolver threads and the UDP   *)
(* loop, modelled in Targets and UdpSessions, are here threads that run    *)
(* until they see running_ cleared.  The sockets are those of Linux.       *)
(* A definition marked "Slip" is a variant of the one below it.            *)
(***************************************************************************)
EXTENDS Integers

CONSTANTS Candidates,  \* bound: endpoints a listen host resolves to
          MaxSessions  \* bound: clients whose connection to the target succeeds

ASSUME ForwarderAssumption == Candidates \in Nat /\ MaxSessions \in Nat

Protocol == {"tcp", "udp"}
Socket == 1..Candidates  \* the listening socket made for that endpoint
Session == 1..MaxSessions

VARIABLES \* per protocol, of the Forwarder and its Impl
  serving, running, \* the facade's running_ and Impl's
  call,             \* control state of the facade call in progress
  left,             \* Start: the endpoints not tried yet
  sockets, shut,    \* open sockets of listen endpoints; those shut down
  listening,        \* listen_socket_, 0 for kInvalidSocket
  resolver, loop,   \* control states of resolver_thread_ and of
                    \* accept_thread_ or udp_thread_; "none": not joinable
  \* of the accept thread
  accepting,        \* the descriptor it passes to accept
  conn,             \* descriptors no session owns yet
  reaping, last,    \* finished_sessions; the clean-up after the loop
  \* of the TCP sessions
  nextId, table,    \* next_session_id_, sessions_ (with session_peers_)
  stopList,         \* Stop: its copy of the table
  life, hold,       \* of each session, as in SessionLife
  logged            \* sessions reported as disconnected

callVars == <<serving, running, call, left>>
socketVars == <<sockets, shut, listening>>
acceptVars == <<accepting, conn, reaping, last>>
sessionVars == <<life, hold>>
tableVars == <<nextId, table, logged>>
forwarderVars == <<callVars, socketVars, resolver, loop, acceptVars, tableVars, stopList,
                   sessionVars>>

StartStates == {"resolve", "socket", "bind", "store", "spawn", "started"}
StopStates == {"exchange", "shut", "close", "reset", "join", "snapshot", "sessions", "stopped"}
LoopStates == {"top", "scan", "join", "read", "call", "accept", "connect", "insert", "begin"}

Both(v) == [p \in Protocol |-> v]

ForwarderInit ==
  /\ serving = Both(FALSE) /\ running = Both(FALSE) /\ call = Both("none") /\ left = Both(0)
  /\ sockets = Both({}) /\ shut = Both({}) /\ listening = Both(0)
  /\ resolver = Both("none") /\ loop = Both("none")
  /\ accepting = 0 /\ conn = {} /\ reaping = {} /\ last = FALSE
  /\ nextId = 0 /\ table = {} /\ stopList = {} /\ logged = {}
  /\ life = [s \in Session |-> "none"] /\ hold = [s \in Session |-> "kept"]
-----------------------------------------------------------------------------
(* Start: the facade locks state_mutex_, Impl resolves the target and the  *)
(* listen host, takes the first endpoint it can bind, and starts threads.  *)

Call(p, from, to) == call[p] = from /\ call' = [call EXCEPT ![p] = to]

FacadeStart(p) ==
  /\ ~serving[p] /\ Call(p, "none", "resolve")
  /\ UNCHANGED <<serving, running, left>>

\* Without a target or a listen endpoint Start fails.
StartResolve(p) ==
  /\ \E n \in 0..Candidates : /\ left' = [left EXCEPT ![p] = n]
                              /\ Call(p, "resolve", "socket")
  /\ UNCHANGED <<serving, running, socketVars, resolver, loop>>

StartSocket(p) ==
  /\ left[p] > 0 /\ Call(p, "socket", "bind")
  /\ sockets' = [sockets EXCEPT ![p] = @ \cup {left[p]}]
  /\ UNCHANGED <<serving, running, left, shut, listening, resolver, loop>>

StartNoSocket(p) ==
  /\ left[p] > 0 /\ call[p] = "socket" /\ left' = [left EXCEPT ![p] = @ - 1]
  /\ UNCHANGED <<serving, running, call, socketVars, resolver, loop>>

\* Slip: a socket that cannot be bound is left open.
LeaveCandidate(p) == UNCHANGED sockets
CloseCandidate(p) == sockets' = [sockets EXCEPT ![p] = @ \ {left[p]}]

\* SetReuseAddress, bind or listen fails.
StartBindFails(p) ==
  /\ Call(p, "bind", "socket") /\ CloseCandidate(p)
  /\ left' = [left EXCEPT ![p] = @ - 1]
  /\ UNCHANGED <<serving, running, shut, listening, resolver, loop>>

StartBinds(p) ==
  /\ Call(p, "bind", "store") /\ listening' = [listening EXCEPT ![p] = left[p]]
  /\ UNCHANGED <<serving, running, left, sockets, shut, resolver, loop>>

StartFails(p) ==
  /\ left[p] = 0 /\ Call(p, "socket", "none")
  /\ UNCHANGED <<serving, running, left, socketVars, resolver, loop>>

StartStore(p) ==
  /\ Call(p, "store", "spawn") /\ running' = [running EXCEPT ![p] = TRUE]
  /\ UNCHANGED <<serving, left, socketVars, resolver, loop>>

StartSpawn(p) ==
  /\ Call(p, "spawn", "started")
  /\ resolver' = [resolver EXCEPT ![p] = "top"] /\ loop' = [loop EXCEPT ![p] = "top"]
  /\ UNCHANGED <<serving, running, left, socketVars>>

Started(p) ==
  /\ Call(p, "started", "none") /\ serving' = [serving EXCEPT ![p] = TRUE]
  /\ UNCHANGED <<running, left, socketVars, resolver, loop>>

Start(p) ==
  /\ \/ StartResolve(p) \/ StartSocket(p) \/ StartNoSocket(p) \/ StartBindFails(p)
     \/ StartBinds(p) \/ StartFails(p) \/ StartStore(p) \/ StartSpawn(p) \/ Started(p)
  /\ UNCHANGED <<acceptVars, tableVars, stopList, sessionVars>>
-----------------------------------------------------------------------------
(* Stop.                                                                   *)

\* The facade does nothing for a forwarder that is not running.
FacadeStop(p) ==
  /\ call[p] = "none"
  /\ call' = IF serving[p] THEN [call EXCEPT ![p] = "exchange"] ELSE call
  /\ UNCHANGED <<serving, running, left>>

StopExchange(p) ==
  /\ Call(p, "exchange", IF running[p] THEN "shut" ELSE "stopped")
  /\ running' = [running EXCEPT ![p] = FALSE]
  /\ UNCHANGED <<serving, socketVars, resolver, loop, tableVars, stopList, hold>>

\* Slip: the listening socket is closed without a shutdown.
NoShut(p) == UNCHANGED shut
ShutListening(p) == shut' = [shut EXCEPT ![p] = @ \cup {listening[p]}]
StopShut(p) ==
  /\ Call(p, "shut", "close") /\ ShutListening(p)
  /\ UNCHANGED <<serving, running, sockets, listening, resolver, loop, tableVars,
                 stopList, hold>>

StopClose(p) ==
  /\ Call(p, "close", "reset") /\ sockets' = [sockets EXCEPT ![p] = @ \ {listening[p]}]
  /\ UNCHANGED <<serving, running, shut, listening, resolver, loop, tableVars, stopList,
                 hold>>

StopReset(p) ==
  /\ Call(p, "reset", "join") /\ listening' = [listening EXCEPT ![p] = 0]
  /\ UNCHANGED <<serving, running, sockets, shut, resolver, loop, tableVars, stopList, hold>>

\* Slip: Stop does not wait for the accept thread.
LoopNotAwaited(p) == TRUE
LoopExited(p) == loop[p] = "exit"
StopJoin(p) ==
  /\ Call(p, "join", "snapshot") /\ LoopExited(p) /\ resolver[p] = "exit"
  /\ loop' = [loop EXCEPT ![p] = IF @ = "exit" THEN "none" ELSE @]
  /\ resolver' = [resolver EXCEPT ![p] = "none"]
  /\ UNCHANGED <<serving, running, socketVars, tableVars, stopList, hold>>

\* Between the joins and this, the UDP sessions are closed (UdpSessions).
StopSnapshot(p) ==
  /\ Call(p, "snapshot", "sessions") /\ stopList' = IF p = "tcp" THEN table ELSE {}
  /\ UNCHANGED <<serving, running, socketVars, resolver, loop, tableVars, hold>>

Held(s, h) == hold' = [hold EXCEPT ![s] = h]

\* All are stopped, then all are joined.
StopSession(p) ==
  /\ call[p] = "sessions" /\ \E s \in stopList : hold[s] = "kept" /\ Held(s, "stopped")
  /\ UNCHANGED <<serving, running, call, socketVars, resolver, loop, tableVars, stopList>>

JoinSession(p) ==
  /\ call[p] = "sessions" /\ \A s \in stopList : hold[s] # "kept"
  /\ \E s \in stopList : hold[s] = "stopped" /\ life[s] = "finished" /\ Held(s, "joined")
  /\ UNCHANGED <<serving, running, call, socketVars, resolver, loop, tableVars, stopList>>

\* The last references go, and with them the sessions.
StopClear(p) ==
  /\ Call(p, "sessions", "stopped") /\ \A s \in stopList : hold[s] = "joined"
  /\ table' = IF p = "tcp" THEN {} ELSE table
  /\ hold' = [s \in Session |-> IF p = "tcp" /\ s \in table \cup stopList
                                THEN "destroyed" ELSE hold[s]]
  /\ stopList' = {}
  /\ UNCHANGED <<serving, running, socketVars, resolver, loop, nextId, logged>>

Stopped(p) ==
  /\ Call(p, "stopped", "none") /\ serving' = [serving EXCEPT ![p] = FALSE]
  /\ UNCHANGED <<running, socketVars, resolver, loop, tableVars, stopList, hold>>

Stop(p) ==
  /\ \/ StopExchange(p) \/ StopShut(p) \/ StopClose(p) \/ StopReset(p) \/ StopJoin(p)
     \/ StopSnapshot(p) \/ StopSession(p) \/ JoinSession(p) \/ StopClear(p) \/ Stopped(p)
  /\ UNCHANGED <<left, acceptVars, life>>
-----------------------------------------------------------------------------
(* AcceptLoop, the accept thread of the TCP forwarder.                     *)

Loop(from, to) == loop["tcp"] = from /\ loop' = [loop EXCEPT !["tcp"] = to]

\* while (running_): another round, or the clean-up after the loop.
LoopTop ==
  /\ Loop("top", "scan") /\ last' = ~running["tcp"]
  /\ UNCHANGED <<accepting, conn, reaping, tableVars, sessionVars>>

\* Slip: the sessions that were stopped, not those that are finished.
IsStopped(s) == hold[s] = "stopped"
IsFinished(s) == life[s] = "finished"
Finished == {s \in table : IsFinished(s)}

\* Slip: the erase is outside the branch.
EraseAll == table' = {}
EraseFinished == table' = table \ Finished

\* CleanupFinishedSessions: under session_mutex_, then the joins.
ReapScan ==
  /\ Loop("scan", "join") /\ reaping' = Finished /\ EraseFinished
  /\ UNCHANGED <<accepting, conn, last, nextId, logged, sessionVars>>

ReapJoin ==
  /\ loop["tcp"] = "join"
  /\ \E s \in reaping : hold[s] = "kept" /\ life[s] = "finished" /\ Held(s, "joined")
  /\ UNCHANGED <<loop, acceptVars, tableVars, life>>

ReapDone ==
  /\ Loop("join", IF last THEN "exit" ELSE "read")
  /\ \A s \in reaping : hold[s] = "joined"
  /\ hold' = [s \in Session |-> IF s \in reaping THEN "destroyed" ELSE hold[s]]
  /\ logged' = logged \cup reaping /\ reaping' = {}
  /\ UNCHANGED <<accepting, conn, last, nextId, table, life>>

\* listen_socket_ is read, then accept looks the descriptor up and waits.
ReadListening ==
  /\ Loop("read", "call") /\ accepting' = listening["tcp"]
  /\ UNCHANGED <<conn, reaping, last, tableVars, sessionVars>>

EnterAccept ==
  /\ accepting \in sockets["tcp"] /\ Loop("call", "accept")
  /\ UNCHANGED <<acceptVars, tableVars, sessionVars>>

\* Slip: any failure of accept ends the loop.
EndOnFailure == FALSE
GoOnAfterFailure == running["tcp"]
AcceptFailure(at) ==
  /\ Loop(at, IF GoOnAfterFailure THEN "top" ELSE "scan") /\ last' = ~GoOnAfterFailure
  /\ UNCHANGED <<accepting, conn, reaping, tableVars, sessionVars>>

\* The number is closed, or reused for a socket that does not listen.
AcceptRefused == accepting \notin sockets["tcp"] /\ AcceptFailure("call")

\* Only a shutdown wakes an accept that waits; a close does not.
AcceptWoken == accepting \in shut["tcp"] /\ AcceptFailure("accept")

\* The snapshot of the targets is never empty (Targets, TargetsUsable).
ConnectFails ==
  /\ Loop("connect", "top") /\ conn' = {}
  /\ UNCHANGED <<accepting, reaping, last, tableVars, sessionVars>>

Connects ==
  /\ nextId < MaxSessions /\ Loop("connect", "insert") /\ conn' = {"client", "upstream"}
  /\ UNCHANGED <<accepting, reaping, last, tableVars, sessionVars>>

\* Slip: the identifier is the count before the increment.
OldCount == nextId
NewId == nextId + 1

\* Under session_mutex_: the session is in the table before it is started.
Insert ==
  /\ Loop("insert", "begin") /\ nextId' = nextId + 1 /\ table' = table \cup {NewId}
  /\ life' = [life EXCEPT ![NewId] = "new"] /\ conn' = {}
  /\ UNCHANGED <<accepting, reaping, last, logged, hold>>

BeginSession ==
  /\ Loop("begin", "top") /\ life' = [life EXCEPT ![nextId] = "running"]
  /\ UNCHANGED <<acceptVars, tableVars, hold>>

AcceptLoop ==
  /\ \/ LoopTop \/ ReapScan \/ ReapJoin \/ ReapDone \/ ReadListening \/ EnterAccept
     \/ AcceptRefused \/ AcceptWoken \/ ConnectFails \/ Connects \/ Insert \/ BeginSession
  /\ UNCHANGED <<callVars, socketVars, resolver, stopList>>

(* Outside the program: a client arrives, or accept fails for a while      *)
(* (ECONNABORTED, no descriptor left).                                     *)
Waiting == accepting \notin shut["tcp"]

Accepted ==
  /\ Waiting /\ Loop("accept", "connect") /\ conn' = {"client"}
  /\ UNCHANGED <<accepting, reaping, last, tableVars, sessionVars>>

AcceptError == Waiting /\ AcceptFailure("accept")

Arrival == /\ Accepted \/ AcceptError
           /\ UNCHANGED <<callVars, socketVars, resolver, stopList>>
-----------------------------------------------------------------------------
(* The other threads.                                                      *)

ResolverEnds(p) ==
  /\ resolver[p] = "top" /\ ~running[p] /\ resolver' = [resolver EXCEPT ![p] = "exit"]
  /\ UNCHANGED <<callVars, socketVars, loop, acceptVars, tableVars, stopList, sessionVars>>

UdpLoopEnds ==
  /\ loop["udp"] = "top" /\ ~running["udp"] /\ loop' = [loop EXCEPT !["udp"] = "exit"]
  /\ UNCHANGED <<callVars, socketVars, resolver, acceptVars, tableVars, stopList,
                 sessionVars>>

SessionFinishes(s) ==
  /\ life[s] = "running" /\ life' = [life EXCEPT ![s] = "finished"]
  /\ UNCHANGED <<callVars, socketVars, resolver, loop, acceptVars, tableVars, stopList, hold>>
=============================================================================
