-------------------------------- MODULE Main --------------------------------
(***************************************************************************)
(* The program (main.cpp): it starts a forwarder for each protocol asked   *)
(* for, waits for a signal, stops the forwarders and destroys them.  When  *)
(* a start fails, what has been started is stopped again.                  *)
(***************************************************************************)
EXTENDS Forwarder, Sequences

VARIABLES phase,      \* "start", "wait", "stop", "destroy", "exit"
          busy,       \* main is inside Start or Stop of Head(todo)
          todo,       \* the protocols this phase has still to deal with
          forwarders, \* those started, in order
          code,       \* the exit code
          asked       \* g_stop_requested

mainVars == <<phase, busy, todo, forwarders, code>>
vars == <<forwarderVars, mainVars, asked>>

\* --protocol tcp, udp or both
Init ==
  /\ ForwarderInit /\ phase = "start" /\ busy = FALSE /\ forwarders = <<>> /\ code = 0
  /\ todo \in {<<"tcp">>, <<"udp">>, <<"tcp", "udp">>} /\ asked = FALSE

OnlyCall == UNCHANGED <<socketVars, resolver, loop, acceptVars, tableVars, stopList, sessionVars>>

StartForwarder ==
  /\ phase = "start" /\ ~busy /\ todo # <<>> /\ FacadeStart(Head(todo)) /\ OnlyCall
  /\ busy' = TRUE /\ UNCHANGED <<phase, todo, forwarders, code>>

StartReturned ==
  /\ phase = "start" /\ busy /\ call[Head(todo)] = "none" /\ busy' = FALSE
  /\ IF serving[Head(todo)]
     THEN /\ forwarders' = Append(forwarders, Head(todo)) /\ todo' = Tail(todo)
          /\ UNCHANGED <<phase, code>>
     ELSE /\ phase' = "stop" /\ code' = 2 /\ todo' = forwarders /\ UNCHANGED forwarders
  /\ UNCHANGED forwarderVars

AllStarted ==
  /\ phase = "start" /\ todo = <<>> /\ phase' = "wait"
  /\ UNCHANGED <<busy, todo, forwarders, code, forwarderVars>>

StopRequested ==
  /\ phase = "wait" /\ asked /\ phase' = "stop" /\ todo' = forwarders
  /\ UNCHANGED <<busy, forwarders, code, forwarderVars>>

\* Stop, in the loop over the forwarders and again in their destructors.
StopForwarder ==
  /\ phase \in {"stop", "destroy"} /\ ~busy /\ todo # <<>> /\ FacadeStop(Head(todo)) /\ OnlyCall
  /\ busy' = TRUE /\ UNCHANGED <<phase, todo, forwarders, code>>

StopReturned ==
  /\ phase \in {"stop", "destroy"} /\ busy /\ call[Head(todo)] = "none"
  /\ busy' = FALSE /\ todo' = Tail(todo)
  /\ UNCHANGED <<phase, forwarders, code, forwarderVars>>

AllStopped ==
  /\ phase = "stop" /\ todo = <<>> /\ phase' = "destroy" /\ todo' = forwarders
  /\ UNCHANGED <<busy, forwarders, code, forwarderVars>>

AllDestroyed ==
  /\ phase = "destroy" /\ todo = <<>> /\ phase' = "exit"
  /\ UNCHANGED <<busy, todo, forwarders, code, forwarderVars>>

MainThread ==
  /\ \/ StartForwarder \/ StartReturned \/ AllStarted \/ StopRequested
     \/ StopForwarder \/ StopReturned \/ AllStopped \/ AllDestroyed
     \/ (\E p \in Protocol : Start(p) \/ Stop(p)) /\ UNCHANGED mainVars
  /\ UNCHANGED asked

Threads == /\ AcceptLoop \/ UdpLoopEnds \/ \E p \in Protocol : ResolverEnds(p)
           /\ UNCHANGED <<mainVars, asked>>
Clients == Arrival /\ UNCHANGED <<mainVars, asked>>
Sessions == (\E s \in Session : SessionFinishes(s)) /\ UNCHANGED <<mainVars, asked>>
Signal == ~asked /\ asked' = TRUE /\ UNCHANGED <<forwarderVars, mainVars>>
Exited == phase = "exit" /\ UNCHANGED vars

Next == MainThread \/ Threads \/ Clients \/ Sessions \/ Signal \/ Exited

Spec == Init /\ [][Next]_vars

(* Every thread is scheduled; connect and the resolution of a name return  *)
(* in the end; a session that was stopped finishes (RelaySession, StopEnds *)
(* and KeepsContract).  No client has to come and no session to finish of  *)
(* itself.                                                                 *)
FairSpec ==
  /\ Spec /\ WF_vars(MainThread)
  /\ WF_vars(AcceptLoop /\ UNCHANGED <<mainVars, asked>>)
  /\ WF_vars(UdpLoopEnds /\ UNCHANGED <<mainVars, asked>>)
  /\ \A p \in Protocol : WF_vars(ResolverEnds(p) /\ UNCHANGED <<mainVars, asked>>)
  /\ \A s \in Session :
       WF_vars(SessionFinishes(s) /\ hold[s] = "stopped" /\ UNCHANGED <<mainVars, asked>>)
-----------------------------------------------------------------------------
(* The ranges of the variables (Forwarder, Forwarder::Impl, main).         *)
TypeOK ==
  /\ serving \in [Protocol -> BOOLEAN] /\ running \in [Protocol -> BOOLEAN]
  /\ call \in [Protocol -> {"none"} \cup StartStates \cup StopStates]
  /\ left \in [Protocol -> 0..Candidates]
  /\ sockets \in [Protocol -> SUBSET Socket] /\ shut \in [Protocol -> SUBSET Socket]
  /\ listening \in [Protocol -> 0..Candidates]
  /\ resolver \in [Protocol -> {"none", "top", "exit"}]
  /\ loop \in [Protocol -> {"none", "exit"} \cup LoopStates]
  /\ accepting \in 0..Candidates /\ conn \subseteq {"client", "upstream"}
  /\ reaping \subseteq Session /\ last \in BOOLEAN
  /\ nextId \in 0..MaxSessions /\ table \subseteq Session /\ stopList \subseteq Session
  /\ life \in [Session -> {"none", "new", "running", "finished"}]
  /\ hold \in [Session -> {"kept", "stopped", "joined", "destroyed"}]
  /\ logged \subseteq Session
  /\ phase \in {"start", "wait", "stop", "destroy", "exit"} /\ busy \in BOOLEAN
  /\ todo \in Seq(Protocol) /\ forwarders \in Seq(Protocol)
  /\ code \in {0, 2} /\ asked \in BOOLEAN

(* A forwarder that is not serving has left nothing: no thread to join, no *)
(* listening socket, no descriptor of a client, no session in the table.   *)
(* This holds after a start that failed at any endpoint, after a start     *)
(* that was rolled back because the other protocol could not be started,   *)
(* and of both forwarders when main returns (Impl::Start, Impl::Stop).     *)
NothingLeft(p) ==
  /\ ~running[p] /\ loop[p] = "none" /\ resolver[p] = "none"
  /\ sockets[p] = {} /\ listening[p] = 0
  /\ p = "tcp" => /\ conn = {} /\ table = {}
                  /\ \A s \in Session : life[s] # "none" => hold[s] = "destroyed"
LeavesNothing ==
  \A p \in Protocol : phase = "exit" \/ (~serving[p] /\ call[p] = "none") => NothingLeft(p)

(* A forwarder that says it is running does run until it is stopped: its   *)
(* only socket is listening, and neither an accept that fails nor a client *)
(* whose connection fails ends a thread (AcceptLoop, Impl::Start).         *)
ServesUntilStopped ==
  \A p \in Protocol : serving[p] /\ call[p] = "none" =>
    /\ running[p] /\ listening[p] \notin shut[p] /\ sockets[p] = {listening[p]}
    /\ resolver[p] = "top" /\ loop[p] \in LoopStates
    /\ p = "tcp" => ~last

(* A session that still exists is reachable by whoever has to stop or join *)
(* it: the table, the reaping accept thread or Stop refers to it, whatever *)
(* the order of arrivals, ends and stops; each is in one place only.       *)
SessionsHeld ==
  /\ \A s \in Session :
       life[s] # "none" /\ hold[s] # "destroyed" => s \in table \cup reaping \cup stopList
  /\ table \cap reaping = {}

(* The forwarder treats every session as a session demands: started once   *)
(* and before it is stopped, joined before it is destroyed, also when the  *)
(* signal arrives while a client is being accepted (AcceptLoop, Stop).     *)
Life(s) == INSTANCE SessionLife WITH life <- life[s], hold <- hold[s]
SessionContract ==
  /\ \A s \in Session : Life(s)!LifeInit
  /\ [][\A s \in Session : [Life(s)!LifeNext]_(Life(s)!lifeVars)]_sessionVars

(* The UDP loop and the Stop that joins it are those of a UDP half without *)
(* sessions, which is what UdpSessions promises (Impl::Start, Impl::Stop). *)
UdpStopping == call["udp"] \in {"shut", "close", "reset", "join", "snapshot", "sessions"}
Half == INSTANCE UdpHalf WITH
          Object <- {}, running <- running["udp"], thread <- loop["udp"],
          stopping <- UdpStopping, sessions <- {}
UdpPromise == Half!HalfSpec

(* After a signal the program exits, wherever the signal finds it: in the  *)
(* middle of a start, in accept, in connect, with sessions that would      *)
(* never end of themselves (main, Impl::Stop).                             *)
SignalEnds == asked ~> phase = "exit"

(* A finished session is reaped and reported at the latest after the next  *)
(* client, whether that client can be connected or not.                    *)
ReapedWithNext ==
  \A s \in Session : life[s] = "finished" /\ loop["tcp"] = "connect" ~> s \in logged

(* "[tcp] client connected/disconnected" is a run-time log (docs/          *)
(* manual.md:136): a client that disconnects while the program runs is     *)
(* reported.  A request to stop ends the obligation.                       *)
DisconnectLogged == \A s \in Session : life[s] = "finished" ~> s \in logged \/ asked
=============================================================================
