----------------------------- MODULE UdpSessions -----------------------------
(***************************************************************************)
(* The UDP half of a forwarder (forwarder.cpp): UdpLoop receives on the    *)
(* listening socket, keeps a session with a socket and a reply thread per  *)
(* client and cleans sessions up; UdpUpstreamToClientLoop is the reply     *)
(* thread; Impl::Stop ends it all.                                         *)
(*                                                                         *)
(* Time is abstract: a cleanup may find itself due, and a session idle, at *)
(* any moment (UdpIdle has the clock).  A slot is one UdpSession object    *)
(* and is used again once the object is gone.  Descriptors are numbers the *)
(* kernel hands out again after a close.  A definition marked "Slip" is a  *)
(* variant of the one below it.                                            *)
(***************************************************************************)
EXTENDS FiniteSets

CONSTANTS Clients,    \* client endpoints (keys of udp_sessions_)
          Slots,      \* bound: session objects alive at a time
          Fds,        \* bound: descriptors that session sockets can get
          None,       \* no client, no descriptor (kInvalidSocket), no socket
          Other,      \* the owner of a descriptor opened elsewhere in the process
          ForeignFds, \* TRUE: other threads of the process open descriptors
          IdleCloses  \* FALSE: the idle timeout is 0, that is disabled

ASSUME UdpAssumption ==
  /\ ForeignFds \in BOOLEAN /\ IdleCloses \in BOOLEAN
  /\ None \notin Clients \cup Slots \cup Fds /\ Other \notin Slots \cup {None}

VARIABLES
  running, listening, \* running_; listen_socket_ is open
  udp, main,  \* control state of UdpLoop and of the thread in Impl::Stop
  forwarding, \* the session of the datagram in UdpLoop's hands, or None
  mapped,     \* [Clients -> slot or None]  udp_sessions_
  client,     \* [Slots -> client_addr, None when the slot is free]
  sock,       \* [Slots -> Fds or None]  upstream_socket
  marked,     \* [Slots -> BOOLEAN]  marked_for_close
  reply,      \* [Slots -> control state of the reply thread]
  arg,        \* [Slots -> the descriptor it passes to recvfrom]
  source,     \* [Slots -> the socket it reads: that of a slot, Other or None]
  closing,    \* closing_sessions of the cleanup in progress
  current,    \* the session being closed, and what is done next to it
  step,
  owner       \* [Fds -> the slot whose socket it is, Other or None]

loopVars == <<udp, forwarding, main, closing, current, step>>
replyVars == <<reply, arg, source>>
vars == <<running, listening, loopVars, mapped, client, sock, marked, replyVars, owner>>

UdpStates == {"top", "call", "recv", "nothing", "insert", "spawn", "forward", "maybe",
              "cleanup", "lastCleanup", "exit"}
MainStates == {"run", "close", "join", "cleanup", "stopped"}
ReplyStates == {"check", "read", "call", "recv", "send", "mark", "exit"}

Init ==
  /\ running = TRUE /\ listening = TRUE /\ udp = "top" /\ main = "run" /\ forwarding = None
  /\ mapped = [c \in Clients |-> None] /\ client = [s \in Slots |-> None]
  /\ sock = [s \in Slots |-> None] /\ marked = [s \in Slots |-> FALSE]
  /\ reply = [s \in Slots |-> "exit"] /\ arg = [s \in Slots |-> None]
  /\ source = [s \in Slots |-> None]
  /\ closing = {} /\ current = None /\ step = "scan"
  /\ owner = [f \in Fds |-> None]
sessionVars == <<mapped, client, sock, owner>>
stopVars == <<running, listening, main>>
cleanVars == <<closing, current, step>>
-----------------------------------------------------------------------------
(* UdpLoop.  The map is locked for the lookup, for the insertion and for   *)
(* the scan of a cleanup, not in between.                                  *)

UdpStep(from, to) == udp = from /\ udp' = to
SameSessions == UNCHANGED <<sessionVars, marked, replyVars>>
Nothing == UNCHANGED forwarding /\ SameSessions

UdpTop == UdpStep("top", IF running THEN "call" ELSE "lastCleanup") /\ Nothing

\* recvfrom takes the number in listen_socket_.  Once Stop has closed the
\* socket that is EBADF, or what another thread has opened in its place.
EnterReceive == /\ \/ (listening \/ ForeignFds) /\ UdpStep("call", "recv")
                   \/ ~listening /\ UdpStep("call", "nothing")
                /\ Nothing

\* A datagram of a client that has a session.
Known(c) == /\ mapped[c] # None /\ UdpStep("recv", "forward")
            /\ forwarding' = mapped[c] /\ SameSessions

\* A datagram of one that has none: a new object with a new socket.
Create(c, s, f) ==
  /\ mapped[c] = None /\ client[s] = None /\ owner[f] = None
  /\ UdpStep("recv", "insert") /\ forwarding' = s
  /\ client' = [client EXCEPT ![s] = c] /\ marked' = [marked EXCEPT ![s] = FALSE]
  /\ sock' = [sock EXCEPT ![s] = f] /\ owner' = [owner EXCEPT ![f] = s]
  /\ UNCHANGED <<mapped, replyVars>>

\* socket() fails; or recvfrom returns nothing, at the latest after 200 ms.
NoSession == (UdpStep("recv", "maybe") \/ UdpStep("recv", "nothing")) /\ Nothing

Receive == \/ \E c \in Clients : Known(c)
           \/ \E c \in Clients, s \in Slots, f \in Fds : Create(c, s, f)
           \/ NoSession
ReceivedNothing == UdpStep("nothing", IF running THEN "maybe" ELSE "lastCleanup") /\ Nothing

\* emplace; an object whose key has got an entry meanwhile is thrown away.
Sender == client[forwarding]
Emplace == /\ UdpStep("insert", "spawn") /\ mapped[Sender] = None
           /\ mapped' = [mapped EXCEPT ![Sender] = forwarding]
           /\ UNCHANGED <<forwarding, client, sock, owner>>
Discard == /\ UdpStep("insert", "forward") /\ mapped[Sender] # None
           /\ forwarding' = mapped[Sender] /\ UNCHANGED mapped
           /\ client' = [client EXCEPT ![forwarding] = None]
           /\ sock' = [sock EXCEPT ![forwarding] = None]
           /\ owner' = [owner EXCEPT ![sock[forwarding]] = None]
Insert == (Emplace \/ Discard) /\ UNCHANGED <<marked, replyVars>>

Spawn == /\ UdpStep("spawn", "forward") /\ reply' = [reply EXCEPT ![forwarding] = "check"]
         /\ UNCHANGED <<forwarding, sessionVars, marked, arg, source>>

\* sendto on the session's socket; a failure marks the session.
Forward == /\ UdpStep("forward", "maybe") /\ forwarding' = None
           /\ \E failed \in BOOLEAN : marked' = [marked EXCEPT ![forwarding] = @ \/ failed]
           /\ UNCHANGED <<sessionVars, replyVars>>

\* MaybeCleanupIdleUdpSessions: the interval has not, or has, elapsed.
CleanupNotDue == UdpStep("maybe", "top") /\ Nothing
CleanupDue == UdpStep("maybe", "cleanup") /\ Nothing

UdpLoop == /\ \/ UdpTop \/ EnterReceive \/ Receive \/ ReceivedNothing
              \/ Insert \/ Spawn \/ Forward \/ CleanupNotDue
           /\ UNCHANGED <<stopVars, cleanVars>>
Due == CleanupDue /\ UNCHANGED <<stopVars, cleanVars>>
-----------------------------------------------------------------------------
(* CleanupIdleUdpSessions, by UdpLoop or (after it has exited) by Stop.    *)

Cleaning == udp \in {"cleanup", "lastCleanup"} \/ main = "cleanup"
Sessions == {mapped[c] : c \in Clients} \ {None}

\* Slips: clients without a session are visited too; the last cleanup of
\* the loop is one like the others; every visited entry is erased.
AllEntries(idle) == {mapped[c] : c \in Clients}
NotForced(idle) == {s \in Sessions : main = "cleanup" \/ marked[s] \/ s \in idle}
EraseVisited == mapped' = [c \in Clients |-> None]
ToClose(idle) == {s \in Sessions : udp # "cleanup" \/ marked[s] \/ s \in idle}
EraseClosed == mapped' = [c \in Clients |-> IF mapped[c] \in closing' THEN None ELSE mapped[c]]

Scan ==
  /\ Cleaning /\ step = "scan" /\ step' = "next"
  /\ \E idle \in SUBSET (IF IdleCloses THEN Sessions ELSE {}) : closing' = ToClose(idle)
  /\ marked' = [s \in Slots |-> marked[s] \/ s \in closing']
  /\ EraseClosed
  /\ UNCHANGED <<client, sock, owner, current, udp, main>>

NextSession ==
  /\ step = "next" /\ step' = "close"
  /\ \E s \in closing : current' = s /\ closing' = closing \ {s}
  /\ UNCHANGED <<sessionVars, marked, udp, main>>

\* Slip: the descriptor is never closed.
LeakDescriptor == UNCHANGED owner
CloseDescriptor == owner' = [owner EXCEPT ![sock[current]] = None]

CloseUpstream ==
  /\ step = "close" /\ step' = "clear" /\ CloseDescriptor
  /\ UNCHANGED <<mapped, client, sock, marked, closing, current, udp, main>>

ClearUpstream ==
  /\ step = "clear" /\ step' = "join"
  /\ sock' = [sock EXCEPT ![current] = None]
  /\ UNCHANGED <<mapped, client, owner, marked, closing, current, udp, main>>

\* Slip: the reply thread is not joined.
NotJoined == TRUE
ReplyExited == reply[current] = "exit"

JoinReply ==
  /\ step = "join" /\ ReplyExited /\ step' = "next"
  /\ client' = [client EXCEPT ![current] = None] /\ current' = None
  /\ UNCHANGED <<mapped, sock, owner, marked, closing, udp, main>>

CleanupDone ==
  /\ step = "next" /\ closing = {} /\ step' = "scan"
  /\ udp' = IF udp = "cleanup" THEN "top" ELSE "exit"
  /\ main' = IF main = "cleanup" THEN "stopped" ELSE main
  /\ UNCHANGED <<sessionVars, marked, closing, current>>

Cleanup == /\ \/ Scan \/ NextSession \/ CloseUpstream \/ ClearUpstream
              \/ JoinReply \/ CleanupDone
           /\ UNCHANGED <<running, listening, forwarding, replyVars>>
-----------------------------------------------------------------------------
(* UdpUpstreamToClientLoop of session s; arg and source are locals of one  *)
(* iteration.                                                              *)

ReplyStep(s, from, to) == reply[s] = from /\ reply' = [reply EXCEPT ![s] = to]

ReplyCheck(s) ==
  /\ ReplyStep(s, "check", IF running /\ ~marked[s] THEN "read" ELSE "mark")
  /\ source' = [source EXCEPT ![s] = None] /\ UNCHANGED <<marked, arg>>

ReadSocket(s) ==
  /\ ReplyStep(s, "read", "call") /\ arg' = [arg EXCEPT ![s] = sock[s]]
  /\ UNCHANGED <<marked, source>>

\* Entering recvfrom, the kernel resolves the number; a closed one is EBADF.
SocketOf(f) == IF f = None THEN None ELSE owner[f]
CallReceive(s) ==
  /\ ReplyStep(s, "call", IF SocketOf(arg[s]) = None THEN "mark" ELSE "recv")
  /\ source' = [source EXCEPT ![s] = SocketOf(arg[s])]
  /\ arg' = [arg EXCEPT ![s] = None] /\ UNCHANGED marked

\* A datagram; the 200 ms timeout; an error, an empty datagram or a shutdown.
Receives(s) == /\ \E to \in {"send", "check", "mark"} : ReplyStep(s, "recv", to)
               /\ UNCHANGED <<marked, arg, source>>

\* sendto on the number in listen_socket_ may fail; once Stop has closed the
\* socket it succeeds only on what another thread has opened in its place.
SendToClient(s) ==
  /\ \/ (listening \/ ForeignFds) /\ ReplyStep(s, "send", "check")
     \/ ReplyStep(s, "send", "mark")
  /\ UNCHANGED <<marked, arg, source>>

\* Slip: the thread leaves its session unmarked.
LeaveUnmarked(s) == UNCHANGED marked
MarkForClose(s) == marked' = [marked EXCEPT ![s] = TRUE]
ReplyExit(s) == /\ ReplyStep(s, "mark", "exit") /\ MarkForClose(s)
                /\ source' = [source EXCEPT ![s] = None] /\ UNCHANGED arg

Reply(s) == /\ \/ ReplyCheck(s) \/ ReadSocket(s) \/ CallReceive(s)
               \/ Receives(s) \/ SendToClient(s) \/ ReplyExit(s)
            /\ UNCHANGED <<running, listening, loopVars, sessionVars>>
-----------------------------------------------------------------------------
(* Impl::Stop, and descriptors that other threads open and close.          *)

\* Slip: Stop forgets to clear running_.
KeepRunning == UNCHANGED running
ClearRunning == running' = FALSE

StopBegin == main = "run" /\ main' = "close" /\ ClearRunning /\ UNCHANGED listening
StopListening == main = "close" /\ main' = "join" /\ listening' = FALSE /\ UNCHANGED running
StopJoin == main = "join" /\ udp = "exit" /\ main' = "cleanup" /\ UNCHANGED <<running, listening>>
Stop(A) == A /\ UNCHANGED <<udp, forwarding, cleanVars, sessionVars, marked, replyVars>>

Elsewhere(f) ==
  /\ ForeignFds /\ owner[f] \in {None, Other}
  /\ owner' = [owner EXCEPT ![f] = IF @ = None THEN Other ELSE None]
  /\ UNCHANGED <<running, listening, loopVars, mapped, client, sock, marked, replyVars>>

Stopped == main = "stopped" /\ UNCHANGED vars

Next == \/ UdpLoop \/ Due \/ Cleanup \/ \E s \in Slots : Reply(s)
        \/ Stop(StopBegin) \/ Stop(StopListening) \/ Stop(StopJoin)
        \/ \E f \in Fds : Elsewhere(f)
        \/ Stopped

Spec == Init /\ [][Next]_vars

(* Every thread keeps running; receives time out after 200 ms, so none is  *)
(* stuck.  A loop that passes MaybeCleanup again and again finds the       *)
(* interval elapsed again and again.  Nobody has to call Stop.             *)
FairSpec == /\ Spec /\ WF_vars(UdpLoop) /\ SF_vars(Due) /\ WF_vars(Cleanup)
            /\ \A s \in Slots : WF_vars(Reply(s))
            /\ WF_vars(Stop(StopListening)) /\ WF_vars(Stop(StopJoin))
-----------------------------------------------------------------------------
(* The ranges of the variables.                                            *)
TypeOK ==
  /\ running \in BOOLEAN /\ listening \in BOOLEAN
  /\ udp \in UdpStates /\ main \in MainStates /\ forwarding \in Slots \cup {None}
  /\ mapped \in [Clients -> Slots \cup {None}] /\ client \in [Slots -> Clients \cup {None}]
  /\ sock \in [Slots -> Fds \cup {None}] /\ marked \in [Slots -> BOOLEAN]
  /\ reply \in [Slots -> ReplyStates] /\ arg \in [Slots -> Fds \cup {None}]
  /\ source \in [Slots -> Slots \cup {Other, None}]
  /\ closing \subseteq Slots /\ current \in Slots \cup {None}
  /\ step \in {"scan", "next", "close", "clear", "join"}
  /\ owner \in [Fds -> Slots \cup {Other, None}]

(* "[udp] target->client" confirms that a reply of the session's target    *)
(* was forwarded to its client (manual.md:147): what a reply thread sends  *)
(* has been read from its own session's socket, never from a descriptor    *)
(* that was closed under it and handed out again.                          *)
OwnReplies == \A s \in Slots : reply[s] = "send" => source[s] = s

(* manual.md:147 again, when other threads of the process open descriptors *)
(* too: what arrived at one session's socket never goes to the client of   *)
(* another, because the closer joins the reply thread before the number    *)
(* can become the socket of a new session.                                 *)
NoCrossTalk == \A s \in Slots : reply[s] = "send" => source[s] \in {s, Other}

(* No session is lost: one that is neither in udp_sessions_, nor about to  *)
(* be put there, nor being closed would keep its socket and its thread for *)
(* ever (GetOrCreateUdpSession, CleanupIdleUdpSessions).                   *)
NoneForgotten ==
  \A s \in Slots : client[s] # None =>
    \/ mapped[client[s]] = s \/ s \in closing \cup {current}
    \/ udp = "insert" /\ forwarding = s

(* Every session socket belongs to one session that will close it, and no  *)
(* session closes a descriptor that is not its own any more.               *)
SocketsOwned ==
  /\ \A f \in Fds : owner[f] \in Slots => sock[owner[f]] = f
  /\ \A s \in Slots : sock[s] # None /\ ~(current = s /\ step = "clear") => owner[sock[s]] = s

(* When Stop returns no session, session socket or reply thread is left.   *)
StopLeavesNothing ==
  main = "stopped" =>
    /\ \A c \in Clients : mapped[c] = None
    /\ \A s \in Slots : client[s] = None /\ reply[s] = "exit"
    /\ \A f \in Fds : owner[f] \notin Slots

(* The promise on which Forwarder models the UDP loop: no session is       *)
(* opened once the loop has ended, and none is left for Stop to close      *)
(* (UdpLoop, CleanupIdleUdpSessions, Impl::Stop).                          *)
LoopThread == IF main \in {"cleanup", "stopped"} THEN "none" ELSE IF udp = "exit" THEN "exit" ELSE "top"
Half == INSTANCE UdpHalf WITH
          Object <- Slots, thread <- LoopThread, stopping <- main \in {"close", "join", "cleanup"},
          sessions <- {s \in Slots : client[s] # None}
KeepsPromise == Half!HalfSpec

(* Stop returns, whatever the clients and the target send.                 *)
StopReturns == main = "close" ~> main = "stopped"

(* A session whose reply thread has ended (an error, an empty datagram) is *)
(* removed, so that its client gets a working one again.  (The session of  *)
(* the datagram in hand may be one whose thread has yet to be started.)    *)
DeadSessionGoes ==
  \A s \in Slots :
    (client[s] # None /\ reply[s] = "exit" /\ forwarding # s) ~> client[s] = None
=============================================================================
