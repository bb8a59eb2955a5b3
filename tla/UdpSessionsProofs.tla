-------------------------- MODULE UdpSessionsProofs --------------------------
(***************************************************************************)
(* UdpSessions for any set of clients, session objects and descriptors:    *)
(* the inductive invariant behind its safety invariants.                   *)
(***************************************************************************)
EXTENDS UdpSessions, TLAPS

USE UdpAssumption

(* How far the cleanup and Stop have got; only a thread that is cleaning   *)
(* up holds sessions to close, and the last cleanup leaves no entry.       *)
Control ==
  /\ step = "scan" => closing = {}
  /\ step # "scan" => Cleaning
  /\ step \in {"close", "clear", "join"} <=> current # None
  /\ main \in {"cleanup", "stopped"} => udp = "exit"
  /\ udp = "exit" \/ (udp = "lastCleanup" /\ step # "scan") => \A c \in Clients : mapped[c] = None

(* A session in use is in udp_sessions_ or is being closed, not both.      *)
Placed ==
  /\ \A c \in Clients : mapped[c] # None =>
       client[mapped[c]] = c /\ mapped[c] \notin closing \cup {current}
  /\ \A s \in closing \cup {current} : s # None => client[s] # None
  /\ current \notin closing

(* A free slot has no socket and no running reply thread; a session has    *)
(* its socket until ClearUpstream.                                         *)
Held ==
  /\ \A s \in Slots : client[s] = None => sock[s] = None /\ reply[s] = "exit"
  /\ \A s \in Slots : client[s] # None /\ ~(current = s /\ step = "join") => sock[s] # None
  /\ step = "join" => sock[current] = None
  /\ step = "clear" => owner[sock[current]] \notin Slots

(* What a reply thread holds is its own session's socket; once closed by   *)
(* the cleanup the number belongs to nobody, or to another part of the     *)
(* process, until the thread is joined.                                    *)
ClosedUnder(s) == current = s /\ step \in {"clear", "join"} /\ owner[arg[s]] \in {None, Other}
Reading ==
  /\ \A s \in Slots : reply[s] # "call" => arg[s] = None
  /\ \A s \in Slots : arg[s] # None => owner[arg[s]] = s \/ ClosedUnder(s)
  /\ \A s \in Slots : reply[s] \in {"recv", "send"} => source[s] \in {s, Other}

(* The session that UdpLoop is creating: its client still has no entry     *)
(* when it comes to be inserted, and its thread has not been started.      *)
InHand ==
  /\ udp \in {"insert", "spawn", "forward"} <=> forwarding # None
  /\ udp \in {"insert", "spawn"} => Sender # None /\ reply[forwarding] = "exit"
  /\ udp = "insert" => mapped[Sender] = None

(* Without other threads' descriptors no number gets another owner.        *)
NoForeign ==
  ~ForeignFds => /\ \A f \in Fds : owner[f] # Other
                 /\ \A s \in Slots : source[s] # Other

IInv == /\ TypeOK /\ Control /\ Placed /\ NoneForgotten /\ Held /\ SocketsOwned
        /\ Reading /\ InHand /\ NoForeign
-----------------------------------------------------------------------------
LEMMA InitInv == Init => IInv
<1> SUFFICES ASSUME Init PROVE IInv
  OBVIOUS
<1> USE DEF Init
<1>1. TypeOK
  BY DEF TypeOK, UdpStates, MainStates, ReplyStates
<1>2. Control /\ Placed /\ NoneForgotten
  BY DEF Control, Cleaning, Placed, NoneForgotten
<1>3. Held /\ SocketsOwned
  BY DEF Held, SocketsOwned
<1>4. Reading /\ InHand /\ NoForeign
  BY DEF Reading, InHand, NoForeign
<1>5. QED
  BY <1>1, <1>2, <1>3, <1>4 DEF IInv

(* The steps one by one, each with what it leaves alone.                   *)
UdpQuiet == \/ UdpTop \/ EnterReceive \/ NoSession \/ ReceivedNothing
            \/ CleanupNotDue \/ CleanupDue \/ \E c \in Clients : Known(c)
LoopKeeps == UNCHANGED <<running, listening, main, cleanVars>>
CleanupKeeps == UNCHANGED <<running, listening, forwarding, replyVars>>
ReplyKeeps == UNCHANGED <<running, listening, loopVars, sessionVars>>

LEMMA StepCases ==
  ASSUME [Next]_vars
  PROVE  \/ UNCHANGED vars
         \/ UdpQuiet /\ LoopKeeps
         \/ \E c \in Clients, s \in Slots, f \in Fds : Create(c, s, f) /\ LoopKeeps
         \/ Insert /\ LoopKeeps
         \/ Spawn /\ LoopKeeps
         \/ Forward /\ LoopKeeps
         \/ Scan /\ CleanupKeeps
         \/ NextSession /\ CleanupKeeps
         \/ CloseUpstream /\ CleanupKeeps
         \/ ClearUpstream /\ CleanupKeeps
         \/ JoinReply /\ CleanupKeeps
         \/ CleanupDone /\ CleanupKeeps
         \/ \E s \in Slots : Reply(s)
         \/ Stop(StopBegin) \/ Stop(StopListening) \/ Stop(StopJoin)
         \/ \E f \in Fds : Elsewhere(f)
<1>1. CASE UdpLoop
  BY <1>1 DEF UdpLoop, Receive, UdpQuiet, LoopKeeps, stopVars
<1>2. CASE Due
  BY <1>2 DEF Due, UdpQuiet, LoopKeeps, stopVars
<1>3. CASE Cleanup
  BY <1>3 DEF Cleanup, CleanupKeeps
<1>4. QED
  BY <1>1, <1>2, <1>3 DEF Next, Stopped
-----------------------------------------------------------------------------
(* Types.                                                                  *)
LEMMA QuietEffect ==
  ASSUME TypeOK, UdpQuiet
  PROVE  /\ UNCHANGED <<sessionVars, marked, replyVars>> /\ udp' \in UdpStates
         /\ \/ UNCHANGED forwarding /\ udp \notin {"insert", "spawn", "forward"}
               /\ udp' \notin {"insert", "spawn", "forward"}
            \/ forwarding' \in Slots /\ udp = "recv" /\ udp' = "forward"
         /\ udp \in {"top", "call", "recv", "nothing", "maybe"}
         /\ udp' # "exit" /\ (udp' = "lastCleanup" => ~running)
BY DEF UdpQuiet, UdpTop, EnterReceive, NoSession, ReceivedNothing, CleanupNotDue, CleanupDue,
       Known, UdpStep, Nothing, SameSessions, UdpStates, TypeOK

LEMMA LoopTypes ==
  ASSUME TypeOK, InHand, LoopKeeps,
         \/ UdpQuiet \/ Insert \/ Spawn \/ Forward
         \/ \E c \in Clients, s \in Slots, f \in Fds : Create(c, s, f)
  PROVE  TypeOK'
<1> USE DEF TypeOK, LoopKeeps, cleanVars
<1>1. CASE UdpQuiet
  BY <1>1, QuietEffect DEF sessionVars, replyVars
<1>2. CASE \E c \in Clients, s \in Slots, f \in Fds : Create(c, s, f)
  BY <1>2 DEF Create, UdpStep, UdpStates, replyVars
<1>3. CASE Insert
  <2>1. forwarding \in Slots /\ Sender \in Clients /\ mapped[Sender] = None
    BY <1>3 DEF InHand, Insert, Emplace, Discard, UdpStep, Sender
  <2>2. QED
    BY <1>3, <2>1 DEF Insert, Emplace, Discard, UdpStep, UdpStates, replyVars
<1>4. CASE Spawn
  BY <1>4 DEF Spawn, UdpStep, UdpStates, ReplyStates, sessionVars
<1>5. CASE Forward
  BY <1>5 DEF Forward, UdpStep, UdpStates, sessionVars, replyVars
<1>6. QED
  BY <1>1, <1>2, <1>3, <1>4, <1>5

LEMMA CleanupTypes ==
  ASSUME TypeOK, Cleanup PROVE TypeOK'
<1> USE DEF TypeOK, UdpStates, MainStates, CleanupKeeps, sessionVars, replyVars
<1>1. CASE Scan /\ CleanupKeeps
  <2>1. Sessions \subseteq Slots
    BY DEF Sessions
  <2>2. QED
    BY <1>1, <2>1 DEF Scan, ToClose, EraseClosed
<1>2. CASE NextSession /\ CleanupKeeps
  BY <1>2 DEF NextSession
<1>3. CASE CloseUpstream /\ CleanupKeeps
  BY <1>3 DEF CloseUpstream, CloseDescriptor
<1>4. CASE ClearUpstream /\ CleanupKeeps
  BY <1>4 DEF ClearUpstream
<1>5. CASE JoinReply /\ CleanupKeeps
  BY <1>5 DEF JoinReply
<1>6. CASE CleanupDone /\ CleanupKeeps
  BY <1>6 DEF CleanupDone
<1>7. QED
  BY <1>1, <1>2, <1>3, <1>4, <1>5, <1>6 DEF Cleanup

LEMMA ReplyTypes == ASSUME TypeOK, NEW s \in Slots, Reply(s) PROVE TypeOK'
<1> USE DEF TypeOK, ReplyStates, ReplyStep, loopVars, sessionVars
<1>1. UNCHANGED <<running, listening, loopVars, sessionVars>>
  BY DEF Reply
<1>2. CASE ReplyCheck(s) \/ ReadSocket(s)
  BY <1>1, <1>2 DEF ReplyCheck, ReadSocket
<1>3. CASE CallReceive(s)
  BY <1>1, <1>3 DEF CallReceive, SocketOf
<1>4. CASE Receives(s) \/ SendToClient(s)
  BY <1>1, <1>4 DEF Receives, SendToClient
<1>5. CASE ReplyExit(s)
  BY <1>1, <1>5 DEF ReplyExit, MarkForClose
<1>6. QED
  BY <1>2, <1>3, <1>4, <1>5 DEF Reply

LEMMA OtherTypes ==
  ASSUME TypeOK, \/ Stop(StopBegin) \/ Stop(StopListening) \/ Stop(StopJoin)
                 \/ \E f \in Fds : Elsewhere(f)
  PROVE  TypeOK'
<1>1. CASE Stop(StopBegin) \/ Stop(StopListening) \/ Stop(StopJoin)
  BY <1>1 DEF TypeOK, MainStates, Stop, StopBegin, ClearRunning, StopListening, StopJoin,
              cleanVars, sessionVars, replyVars
<1>2. CASE \E f \in Fds : Elsewhere(f)
  BY <1>2 DEF TypeOK, Elsewhere, loopVars, replyVars
<1>3. QED
  BY <1>1, <1>2
-----------------------------------------------------------------------------
(* UdpLoop receiving and forwarding.                                       *)
LEMMA QuietInv == ASSUME IInv, UdpQuiet, LoopKeeps PROVE IInv'
<1>1. UNCHANGED <<running, listening, main, closing, current, step,
                  mapped, client, sock, owner, reply, arg, source>>
  BY QuietEffect DEF IInv, LoopKeeps, cleanVars, sessionVars, replyVars
<1>2. TypeOK' /\ InHand'
  BY <1>1, LoopTypes, QuietEffect DEF IInv, InHand
<1>3. Control'
  BY <1>1, QuietEffect DEF IInv, Control, Cleaning
<1>4. (Placed /\ NoneForgotten)'
  BY <1>1, QuietEffect DEF IInv, Placed, NoneForgotten
<1>5. (Held /\ SocketsOwned)'
  BY <1>1 DEF IInv, Held, SocketsOwned
<1>6. (Reading /\ NoForeign)'
  BY <1>1 DEF IInv, Reading, ClosedUnder, NoForeign
<1>7. QED
  BY <1>2, <1>3, <1>4, <1>5, <1>6 DEF IInv

LEMMA CreateInv ==
  ASSUME IInv, NEW c \in Clients, NEW s \in Slots, NEW f \in Fds, Create(c, s, f), LoopKeeps
  PROVE  IInv'
<1>1. /\ udp = "recv" /\ udp' = "insert" /\ forwarding' = s
      /\ mapped[c] = None /\ client[s] = None /\ owner[f] = None
      /\ client' = [client EXCEPT ![s] = c] /\ sock' = [sock EXCEPT ![s] = f]
      /\ owner' = [owner EXCEPT ![f] = s]
      /\ UNCHANGED <<main, closing, current, step, mapped, reply, arg, source>>
  BY DEF Create, UdpStep, LoopKeeps, cleanVars, replyVars
<1>2. TypeOK /\ TypeOK'
  BY LoopTypes DEF IInv
<1>3. step = "scan" /\ closing = {} /\ current = None /\ main \notin {"cleanup", "stopped"}
  BY <1>1 DEF IInv, Control, Cleaning
<1>4. Control'
  BY <1>1, <1>3 DEF IInv, Control, Cleaning
<1>5. /\ \A t \in Slots : client'[t] = IF t = s THEN c ELSE client[t]
      /\ \A t \in Slots : sock'[t] = IF t = s THEN f ELSE sock[t]
      /\ \A g \in Fds : owner'[g] = IF g = f THEN s ELSE owner[g]
  BY <1>1, <1>2 DEF TypeOK
<1>6. sock[s] = None /\ arg[s] = None /\ \A t \in Slots : sock[t] # f /\ arg[t] # f
  BY <1>1, <1>2, <1>3 DEF IInv, Held, Reading, ClosedUnder, SocketsOwned, TypeOK
<1>7. (Placed /\ NoneForgotten)'
  BY <1>1, <1>2, <1>3, <1>5 DEF IInv, Placed, NoneForgotten, TypeOK
<1>8. (Held /\ InHand)'
  BY <1>1, <1>2, <1>3, <1>5 DEF IInv, Held, InHand, Sender, TypeOK
<1>9. SocketsOwned'
  BY <1>1, <1>2, <1>3, <1>5, <1>6 DEF IInv, SocketsOwned, TypeOK
<1>10. (Reading /\ NoForeign)'
  BY <1>1, <1>2, <1>3, <1>5, <1>6 DEF IInv, Reading, ClosedUnder, NoForeign, TypeOK
<1>11. QED
  BY <1>2, <1>4, <1>7, <1>8, <1>9, <1>10 DEF IInv

(* The insertion never finds an entry: only UdpLoop inserts.               *)
LEMMA InsertInv == ASSUME IInv, Insert, LoopKeeps PROVE IInv'
<1>1. /\ udp = "insert" /\ mapped[Sender] = None /\ Sender # None /\ reply[forwarding] = "exit"
      /\ forwarding # None
  BY DEF IInv, InHand, Insert, Emplace, Discard, UdpStep
<1>2. /\ udp' = "spawn" /\ mapped' = [mapped EXCEPT ![Sender] = forwarding]
      /\ UNCHANGED <<forwarding, main, closing, current, step, client, sock, owner,
                     reply, arg, source>>
  BY <1>1 DEF Insert, Emplace, Discard, UdpStep, LoopKeeps, cleanVars, replyVars
<1>3. TypeOK /\ TypeOK' /\ forwarding \in Slots /\ Sender \in Clients
  BY <1>1, LoopTypes DEF IInv, Sender, TypeOK
<1>4. step = "scan" /\ closing = {} /\ current = None /\ main \notin {"cleanup", "stopped"}
  BY <1>1 DEF IInv, Control, Cleaning
<1>5. \A d \in Clients : mapped'[d] = IF d = Sender THEN forwarding ELSE mapped[d]
  BY <1>2, <1>3 DEF TypeOK
<1>6. Control'
  BY <1>1, <1>2, <1>4 DEF IInv, Control, Cleaning
<1>7. (Placed /\ NoneForgotten)'
  BY <1>1, <1>2, <1>3, <1>4, <1>5 DEF IInv, Placed, NoneForgotten, Sender, TypeOK
<1>8. (Held /\ InHand /\ SocketsOwned)'
  BY <1>1, <1>2 DEF IInv, Held, InHand, Sender, SocketsOwned
<1>9. (Reading /\ NoForeign)'
  BY <1>2 DEF IInv, Reading, ClosedUnder, NoForeign
<1>10. QED
  BY <1>3, <1>6, <1>7, <1>8, <1>9 DEF IInv

LEMMA SpawnInv == ASSUME IInv, Spawn, LoopKeeps PROVE IInv'
<1>1. /\ udp = "spawn" /\ udp' = "forward" /\ reply' = [reply EXCEPT ![forwarding] = "check"]
      /\ UNCHANGED <<forwarding, main, closing, current, step, mapped, client, sock, owner,
                     arg, source>>
  BY DEF Spawn, UdpStep, LoopKeeps, cleanVars, sessionVars
<1>2. TypeOK /\ TypeOK' /\ forwarding \in Slots
  BY <1>1, LoopTypes DEF IInv, InHand, TypeOK
<1>3. client[forwarding] # None /\ reply[forwarding] = "exit"
  BY <1>1 DEF IInv, InHand, Sender
<1>4. \A s \in Slots : reply'[s] = IF s = forwarding THEN "check" ELSE reply[s]
  BY <1>1, <1>2 DEF TypeOK
<1>5. Control'
  BY <1>1 DEF IInv, Control, Cleaning
<1>6. (Placed /\ NoneForgotten)'
  BY <1>1 DEF IInv, Placed, NoneForgotten
<1>7. (Held /\ InHand /\ SocketsOwned)'
  BY <1>1, <1>3, <1>4 DEF IInv, Held, InHand, SocketsOwned
<1>8. (Reading /\ NoForeign)'
  BY <1>1, <1>2, <1>3, <1>4 DEF IInv, Reading, ClosedUnder, NoForeign
<1>9. QED
  BY <1>2, <1>5, <1>6, <1>7, <1>8 DEF IInv

LEMMA ForwardInv == ASSUME IInv, Forward, LoopKeeps PROVE IInv'
<1>1. /\ udp = "forward" /\ udp' = "maybe" /\ forwarding' = None
      /\ UNCHANGED <<main, closing, current, step, mapped, client, sock, owner,
                     reply, arg, source>>
  BY DEF Forward, UdpStep, LoopKeeps, cleanVars, sessionVars, replyVars
<1>2. TypeOK'
  BY LoopTypes DEF IInv
<1>3. Control'
  BY <1>1 DEF IInv, Control, Cleaning
<1>4. (Placed /\ NoneForgotten)'
  BY <1>1 DEF IInv, Placed, NoneForgotten
<1>5. (Held /\ InHand /\ SocketsOwned)'
  BY <1>1 DEF IInv, Held, InHand, SocketsOwned
<1>6. (Reading /\ NoForeign)'
  BY <1>1 DEF IInv, Reading, ClosedUnder, NoForeign
<1>7. QED
  BY <1>2, <1>3, <1>4, <1>5, <1>6 DEF IInv
-----------------------------------------------------------------------------
(* The cleanup: UdpLoop has no datagram in hand then.                      *)
LEMMA CleanupInHand == ASSUME IInv, Cleanup PROVE InHand'
<1>1. UNCHANGED forwarding /\ udp \in {"cleanup", "lastCleanup", "exit"}
  BY DEF Cleanup, Scan, NextSession, CloseUpstream, ClearUpstream, JoinReply, CleanupDone,
         Cleaning, IInv, Control
<1>2. udp' \in {"cleanup", "lastCleanup", "exit", "top"}
  BY <1>1 DEF Cleanup, Scan, NextSession, CloseUpstream, ClearUpstream, JoinReply, CleanupDone
<1>3. QED
  BY <1>1, <1>2 DEF IInv, InHand

LEMMA ScanInv == ASSUME IInv, Scan, CleanupKeeps PROVE IInv'
<1>1. /\ Cleaning /\ step = "scan" /\ step' = "next"
      /\ UNCHANGED <<udp, forwarding, main, client, sock, owner, current, reply, arg, source>>
  BY DEF Scan, CleanupKeeps, replyVars
<1>2. TypeOK /\ TypeOK' /\ closing = {} /\ current = None
  BY <1>1, CleanupTypes DEF IInv, Cleanup, CleanupKeeps, Control
<1>3. /\ closing' \subseteq Sessions /\ (udp # "cleanup" => closing' = Sessions)
      /\ \A c \in Clients : mapped'[c] = IF mapped[c] \in closing' THEN None ELSE mapped[c]
  BY DEF Scan, ToClose, EraseClosed
<1>4. \A s \in closing' : s \in Slots /\ client[s] # None /\ mapped[client[s]] = s
  BY <1>2, <1>3 DEF IInv, Placed, Sessions, TypeOK
<1>5. Control'
  BY <1>1, <1>2, <1>3 DEF IInv, Control, Cleaning, Sessions
<1>6. Placed'
  BY <1>1, <1>2, <1>3, <1>4 DEF IInv, Placed
<1>7. NoneForgotten'
  BY <1>1, <1>2, <1>3 DEF IInv, NoneForgotten, TypeOK
<1>8. (Held /\ SocketsOwned)'
  BY <1>1, <1>2 DEF IInv, Held, SocketsOwned
<1>9. (Reading /\ NoForeign)'
  BY <1>1, <1>2 DEF IInv, Reading, ClosedUnder, NoForeign
<1>10. QED
  BY <1>2, <1>5, <1>6, <1>7, <1>8, <1>9, CleanupInHand DEF IInv, Cleanup, CleanupKeeps

LEMMA NextSessionInv == ASSUME IInv, NextSession, CleanupKeeps PROVE IInv'
<1>1. /\ step = "next" /\ step' = "close" /\ current' \in closing /\ closing' = closing \ {current'}
      /\ UNCHANGED <<udp, forwarding, main, mapped, client, sock, owner, reply, arg, source>>
  BY DEF NextSession, CleanupKeeps, replyVars, sessionVars
<1>2. TypeOK /\ TypeOK' /\ current = None /\ current' # None
  BY <1>1, CleanupTypes DEF IInv, Cleanup, CleanupKeeps, Control, TypeOK
<1>3. Control'
  BY <1>1, <1>2 DEF IInv, Control, Cleaning
<1>4. (Placed /\ NoneForgotten)'
  BY <1>1, <1>2 DEF IInv, Placed, NoneForgotten
<1>5. (Held /\ SocketsOwned)'
  BY <1>1, <1>2 DEF IInv, Held, SocketsOwned
<1>6. (Reading /\ NoForeign)'
  BY <1>1, <1>2 DEF IInv, Reading, ClosedUnder, NoForeign
<1>7. QED
  BY <1>2, <1>3, <1>4, <1>5, <1>6, CleanupInHand DEF IInv, Cleanup, CleanupKeeps

(* The descriptor is closed under the reply thread, which may have read    *)
(* its number already; no other reply thread holds that number.            *)
LEMMA CloseUpstreamInv == ASSUME IInv, CloseUpstream, CleanupKeeps PROVE IInv'
<1>1. /\ step = "close" /\ step' = "clear" /\ owner' = [owner EXCEPT ![sock[current]] = None]
      /\ UNCHANGED <<udp, forwarding, main, mapped, client, sock, closing, current, reply, arg, source>>
  BY DEF CloseUpstream, CloseDescriptor, CleanupKeeps, replyVars
<1>2. TypeOK /\ TypeOK' /\ current \in Slots /\ client[current] # None
  BY <1>1, CleanupTypes DEF IInv, Cleanup, CleanupKeeps, Control, Placed, TypeOK
<1>3. sock[current] \in Fds /\ owner[sock[current]] = current
  BY <1>1, <1>2 DEF IInv, Held, SocketsOwned, TypeOK
<1>4. \A g \in Fds : owner'[g] = IF g = sock[current] THEN None ELSE owner[g]
  BY <1>1, <1>2 DEF TypeOK
<1>5. Control'
  BY <1>1 DEF IInv, Control, Cleaning
<1>6. (Placed /\ NoneForgotten)'
  BY <1>1 DEF IInv, Placed, NoneForgotten
<1>7. (Held /\ SocketsOwned)'
  BY <1>1, <1>2, <1>3, <1>4 DEF IInv, Held, SocketsOwned, TypeOK
<1>8. (Reading /\ NoForeign)'
  BY <1>1, <1>2, <1>3, <1>4 DEF IInv, Reading, ClosedUnder, NoForeign, SocketsOwned, TypeOK
<1>9. QED
  BY <1>2, <1>5, <1>6, <1>7, <1>8, CleanupInHand DEF IInv, Cleanup, CleanupKeeps

LEMMA ClearUpstreamInv == ASSUME IInv, ClearUpstream, CleanupKeeps PROVE IInv'
<1>1. /\ step = "clear" /\ step' = "join" /\ sock' = [sock EXCEPT ![current] = None]
      /\ UNCHANGED <<udp, forwarding, main, mapped, client, owner, closing, current, reply, arg, source>>
  BY DEF ClearUpstream, CleanupKeeps, replyVars
<1>2. TypeOK /\ TypeOK' /\ current \in Slots /\ client[current] # None
  BY <1>1, CleanupTypes DEF IInv, Cleanup, CleanupKeeps, Control, Placed, TypeOK
<1>3. \A s \in Slots : sock'[s] = IF s = current THEN None ELSE sock[s]
  BY <1>1, <1>2 DEF TypeOK
<1>4. Control'
  BY <1>1 DEF IInv, Control, Cleaning
<1>5. (Placed /\ NoneForgotten)'
  BY <1>1 DEF IInv, Placed, NoneForgotten
<1>6. (Held /\ SocketsOwned)'
  BY <1>1, <1>2, <1>3 DEF IInv, Held, SocketsOwned, TypeOK
<1>7. (Reading /\ NoForeign)'
  BY <1>1 DEF IInv, Reading, ClosedUnder, NoForeign
<1>8. QED
  BY <1>2, <1>4, <1>5, <1>6, <1>7, CleanupInHand DEF IInv, Cleanup, CleanupKeeps

(* The object goes after its reply thread, which so holds no number.       *)
LEMMA JoinReplyInv == ASSUME IInv, JoinReply, CleanupKeeps PROVE IInv'
<1>1. /\ step = "join" /\ step' = "next" /\ reply[current] = "exit" /\ current' = None
      /\ client' = [client EXCEPT ![current] = None]
      /\ UNCHANGED <<udp, forwarding, main, mapped, sock, owner, closing, reply, arg, source>>
  BY DEF JoinReply, ReplyExited, CleanupKeeps, replyVars
<1>2. TypeOK /\ TypeOK' /\ current \in Slots /\ sock[current] = None /\ current \notin closing
  BY <1>1, CleanupTypes DEF IInv, Cleanup, CleanupKeeps, Control, Placed, Held, TypeOK
<1>3. \A s \in Slots : client'[s] = IF s = current THEN None ELSE client[s]
  BY <1>1, <1>2 DEF TypeOK
<1>4. arg[current] = None
  BY <1>1, <1>2 DEF IInv, Reading
<1>5. Control'
  BY <1>1 DEF IInv, Control, Cleaning
<1>6. (Placed /\ NoneForgotten)'
  BY <1>1, <1>2, <1>3 DEF IInv, Placed, NoneForgotten, TypeOK
<1>7. (Held /\ SocketsOwned)'
  BY <1>1, <1>2, <1>3 DEF IInv, Held, SocketsOwned, TypeOK
<1>8. (Reading /\ NoForeign)'
  BY <1>1, <1>2, <1>4 DEF IInv, Reading, ClosedUnder, NoForeign
<1>9. QED
  BY <1>2, <1>5, <1>6, <1>7, <1>8, CleanupInHand DEF IInv, Cleanup, CleanupKeeps

LEMMA CleanupDoneInv == ASSUME IInv, CleanupDone, CleanupKeeps PROVE IInv'
<1>1. /\ step = "next" /\ step' = "scan" /\ closing = {}
      /\ udp' = (IF udp = "cleanup" THEN "top" ELSE "exit")
      /\ main' = (IF main = "cleanup" THEN "stopped" ELSE main)
      /\ UNCHANGED <<forwarding, mapped, client, sock, owner, closing, current, reply, arg, source>>
  BY DEF CleanupDone, CleanupKeeps, replyVars, sessionVars
<1>2. TypeOK' /\ current = None /\ udp # "insert"
  BY <1>1, CleanupTypes DEF IInv, Cleanup, CleanupKeeps, Control, Cleaning
<1>3. Control'
  BY <1>1, <1>2 DEF IInv, Control, Cleaning
<1>4. (Placed /\ NoneForgotten)'
  BY <1>1, <1>2 DEF IInv, Placed, NoneForgotten
<1>5. (Held /\ SocketsOwned)'
  BY <1>1, <1>2 DEF IInv, Held, SocketsOwned
<1>6. (Reading /\ NoForeign)'
  BY <1>1, <1>2 DEF IInv, Reading, ClosedUnder, NoForeign
<1>7. QED
  BY <1>2, <1>3, <1>4, <1>5, <1>6, CleanupInHand DEF IInv, Cleanup, CleanupKeeps
-----------------------------------------------------------------------------
(* The reply threads: what a step of one does to it and to nobody else.    *)
LEMMA ReplyEffect ==
  ASSUME TypeOK, NEW s \in Slots, Reply(s)
  PROVE  /\ UNCHANGED <<running, listening, udp, forwarding, main, closing, current, step,
                        mapped, client, sock, owner>>
         /\ \A t \in Slots \ {s} : /\ reply'[t] = reply[t] /\ arg'[t] = arg[t]
                                  /\ source'[t] = source[t]
         /\ reply[s] # "exit"
         /\ \/ reply'[s] \in {"read", "mark", "exit"} /\ source'[s] = None
               /\ arg'[s] = arg[s] /\ reply[s] # "call"
            \/ reply'[s] = "call" /\ source'[s] = source[s] /\ arg'[s] = sock[s]
            \/ reply'[s] \in {"mark", "recv"} /\ arg'[s] = None
               /\ source'[s] = SocketOf(arg[s]) /\ (reply'[s] = "recv" => SocketOf(arg[s]) # None)
            \/ reply'[s] \in {"send", "check", "mark"} /\ source'[s] = source[s]
               /\ arg'[s] = arg[s] /\ reply[s] \in {"recv", "send"}
<1> USE DEF TypeOK, ReplyStep
<1>1. UNCHANGED <<running, listening, udp, forwarding, main, closing, current, step,
                        mapped, client, sock, owner>>
  BY DEF Reply, loopVars, sessionVars
<1>2. CASE ReplyCheck(s) \/ ReplyExit(s)
  BY <1>1, <1>2 DEF ReplyCheck, ReplyExit
<1>3. CASE ReadSocket(s)
  BY <1>1, <1>3 DEF ReadSocket
<1>4. CASE CallReceive(s)
  BY <1>1, <1>4 DEF CallReceive
<1>5. CASE Receives(s) \/ SendToClient(s)
  BY <1>1, <1>5 DEF Receives, SendToClient
<1>6. QED
  BY <1>2, <1>3, <1>4, <1>5 DEF Reply

LEMMA ReplyInv == ASSUME IInv, NEW s \in Slots, Reply(s) PROVE IInv'
<1>1. TypeOK /\ TypeOK' /\ client[s] # None
  BY ReplyTypes, ReplyEffect DEF IInv, Held
<1>2. Control'
  BY <1>1, ReplyEffect DEF IInv, Control, Cleaning
<1>3. (Placed /\ NoneForgotten)'
  BY <1>1, ReplyEffect DEF IInv, Placed, NoneForgotten
<1>4. (Held /\ InHand /\ SocketsOwned)'
  <2>1. reply[forwarding] = "exit" /\ forwarding \in Slots => reply'[forwarding] = "exit"
    BY <1>1, ReplyEffect
  <2>2. InHand'
    BY <1>1, <2>1, ReplyEffect DEF IInv, InHand, Sender, TypeOK
  <2>3. QED
    BY <1>1, <2>2, ReplyEffect DEF IInv, Held, SocketsOwned
<1>5. \A t \in Slots : reply'[t] # "call" => arg'[t] = None
  BY <1>1, ReplyEffect DEF IInv, Reading
<1>6. \A t \in Slots : arg'[t] # None => owner'[arg'[t]] = t \/ ClosedUnder(t)'
  <2>1. UNCHANGED <<owner, current, step>> /\ \A t \in Slots \ {s} : arg'[t] = arg[t]
    BY <1>1, ReplyEffect
  <2>2. arg'[s] \in {arg[s], sock[s], None}
    BY <1>1, ReplyEffect
  <2>3. sock[s] # None => owner[sock[s]] = s \/ (current = s /\ step = "clear" /\ owner[sock[s]] \notin Slots)
    BY <1>1 DEF IInv, SocketsOwned, Held
  <2>4. sock[s] # None /\ owner[sock[s]] \notin Slots => owner[sock[s]] \in {None, Other}
    BY <1>1 DEF TypeOK
  <2>5. QED
    BY <2>1, <2>2, <2>3, <2>4 DEF IInv, Reading, ClosedUnder
<1>7. \A t \in Slots : reply'[t] \in {"recv", "send"} => source'[t] \in {t, Other}
  <2>1. arg[s] # None => owner[arg[s]] \in {s, Other, None}
    BY DEF IInv, Reading, ClosedUnder
  <2>2. QED
    BY <1>1, <2>1, ReplyEffect DEF IInv, Reading, SocketOf
<1>8. NoForeign'
  <2>1. ~ForeignFds => SocketOf(arg[s]) # Other
    BY <1>1 DEF IInv, NoForeign, SocketOf, TypeOK
  <2>2. QED
    BY <1>1, <2>1, ReplyEffect DEF IInv, NoForeign
<1>9. QED
  BY <1>1, <1>2, <1>3, <1>4, <1>5, <1>6, <1>7, <1>8 DEF IInv, Reading
-----------------------------------------------------------------------------
(* Stop, and descriptors elsewhere.                                        *)
LEMMA StopInv ==
  ASSUME IInv, Stop(StopBegin) \/ Stop(StopListening) \/ Stop(StopJoin) PROVE IInv'
<1>1. /\ UNCHANGED <<udp, forwarding, closing, current, step, mapped, client, sock, owner,
                     reply, arg, source>>
      /\ main \in {"run", "close", "join"} /\ main' \in {"close", "join", "cleanup"}
      /\ main' = "cleanup" => udp = "exit"
  BY DEF Stop, StopBegin, StopListening, StopJoin, cleanVars, sessionVars, replyVars
<1>2. TypeOK'
  BY OtherTypes DEF IInv
<1>3. Control'
  BY <1>1 DEF IInv, Control, Cleaning
<1>4. (Placed /\ NoneForgotten)'
  BY <1>1 DEF IInv, Placed, NoneForgotten
<1>5. (Held /\ SocketsOwned)'
  BY <1>1 DEF IInv, Held, SocketsOwned
<1>6. (Reading /\ InHand /\ NoForeign)'
  BY <1>1 DEF IInv, Reading, ClosedUnder, InHand, Sender, NoForeign
<1>7. QED
  BY <1>2, <1>3, <1>4, <1>5, <1>6 DEF IInv

LEMMA ElsewhereInv == ASSUME IInv, NEW f \in Fds, Elsewhere(f) PROVE IInv'
<1>1. /\ ForeignFds /\ owner[f] \in {None, Other}
      /\ owner' = [owner EXCEPT ![f] = IF @ = None THEN Other ELSE None]
      /\ UNCHANGED <<udp, forwarding, main, closing, current, step, mapped, client, sock,
                     reply, arg, source>>
  BY DEF Elsewhere, loopVars, replyVars
<1>2. TypeOK /\ TypeOK'
  BY OtherTypes DEF IInv
<1>3. owner'[f] \in {None, Other} /\ \A g \in Fds \ {f} : owner'[g] = owner[g]
  BY <1>1, <1>2 DEF TypeOK
<1>4. Control'
  BY <1>1 DEF IInv, Control, Cleaning
<1>5. (Placed /\ NoneForgotten)'
  BY <1>1 DEF IInv, Placed, NoneForgotten
<1>6. (Held /\ SocketsOwned)'
  BY <1>1, <1>2, <1>3 DEF IInv, Held, SocketsOwned, Control, TypeOK
<1>7. (Reading /\ InHand /\ NoForeign)'
  BY <1>1, <1>2, <1>3 DEF IInv, Reading, ClosedUnder, InHand, Sender, NoForeign, TypeOK
<1>8. QED
  BY <1>2, <1>4, <1>5, <1>6, <1>7 DEF IInv

LEMMA StepInv == IInv /\ [Next]_vars => IInv'
<1> SUFFICES ASSUME IInv, [Next]_vars PROVE IInv'
  OBVIOUS
<1>1. CASE UNCHANGED vars
  BY <1>1 DEF vars, loopVars, replyVars, IInv, TypeOK, Control, Cleaning, Placed, NoneForgotten,
              Held, SocketsOwned, Reading, ClosedUnder, InHand, Sender, NoForeign
<1>2. QED
  BY <1>1, StepCases, QuietInv, CreateInv, InsertInv, SpawnInv, ForwardInv, ScanInv, NextSessionInv, CloseUpstreamInv,
     ClearUpstreamInv, JoinReplyInv, CleanupDoneInv, ReplyInv, StopInv, ElsewhereInv

LEMMA Invariance == Spec => []IInv
BY InitInv, StepInv, PTL DEF Spec
-----------------------------------------------------------------------------
(* Every variable of the UDP half keeps its range.                         *)
THEOREM TypeCorrect == Spec => []TypeOK
<1>1. IInv => TypeOK
  BY DEF IInv
<1>2. QED
  BY <1>1, Invariance, PTL

(* Every session in use is in udp_sessions_ or about to be closed.         *)
THEOREM SessionsKept == Spec => []NoneForgotten
<1>1. IInv => NoneForgotten
  BY DEF IInv
<1>2. QED
  BY <1>1, Invariance, PTL

(* Every session socket has one session, which still has to close it.      *)
THEOREM SocketsHaveOwners == Spec => []SocketsOwned
<1>1. IInv => SocketsOwned
  BY DEF IInv
<1>2. QED
  BY <1>1, Invariance, PTL

(* When Stop returns, all sessions, sockets and reply threads are gone.    *)
THEOREM NothingLeft == Spec => []StopLeavesNothing
<1>1. ASSUME IInv, main = "stopped" PROVE
        /\ \A c \in Clients : mapped[c] = None
        /\ \A s \in Slots : client[s] = None /\ reply[s] = "exit"
        /\ \A f \in Fds : owner[f] \notin Slots
  <2>1. /\ closing = {} /\ current = None /\ udp = "exit"
        /\ \A c \in Clients : mapped[c] = None
    BY <1>1 DEF IInv, Control, Cleaning
  <2>2. \A s \in Slots : client[s] = None
    BY <1>1, <2>1 DEF IInv, NoneForgotten, TypeOK
  <2>3. \A s \in Slots : reply[s] = "exit" /\ sock[s] = None
    BY <1>1, <2>2 DEF IInv, Held
  <2>4. \A f \in Fds : owner[f] \notin Slots
    BY <1>1, <2>3 DEF IInv, SocketsOwned
  <2>5. QED
    BY <2>1, <2>2, <2>3, <2>4
<1>2. IInv => StopLeavesNothing
  BY <1>1 DEF StopLeavesNothing
<1>3. QED
  BY <1>2, Invariance, PTL

(* A reply thread never forwards what arrived at another session's socket. *)
THEOREM RepliesStayApart == Spec => []NoCrossTalk
<1>1. IInv => NoCrossTalk
  BY DEF IInv, Reading, NoCrossTalk
<1>2. QED
  BY <1>1, Invariance, PTL

(* It forwards only its own session's replies as long as no other thread   *)
(* of the process opens descriptors.                                       *)
THEOREM RepliesAreOwn == ASSUME ~ForeignFds PROVE Spec => []OwnReplies
<1>1. IInv => OwnReplies
  BY DEF IInv, Reading, NoForeign, OwnReplies
<1>2. QED
  BY <1>1, Invariance, PTL
-----------------------------------------------------------------------------
(* The refinement of UdpHalf.  The loop ends only once running_ is cleared *)
(* and leaves nothing to close.                                            *)
Ended ==
  /\ running <=> main = "run"
  /\ udp \in {"lastCleanup", "exit"} => ~running
  /\ udp = "exit" => closing = {} /\ current = None

LEMMA EndedStep == IInv /\ Ended /\ [Next]_vars => Ended'
<1> SUFFICES ASSUME IInv, Ended, [Next]_vars PROVE Ended'
  OBVIOUS
<1>1. CASE UNCHANGED vars
  BY <1>1 DEF vars, loopVars, Ended
<1>2. CASE UdpQuiet /\ LoopKeeps
  BY <1>2, QuietEffect DEF IInv, Ended, LoopKeeps, cleanVars
<1>3. CASE \/ (Insert \/ Spawn \/ Forward) /\ LoopKeeps
           \/ \E c \in Clients, s \in Slots, f \in Fds : Create(c, s, f) /\ LoopKeeps
  BY <1>3 DEF Ended, Insert, Emplace, Discard, Spawn, Forward, Create, UdpStep, LoopKeeps, cleanVars
<1>4. CASE Scan /\ CleanupKeeps
  <2>1. udp = "exit" => closing' = {}
    BY <1>4 DEF Scan, ToClose, Sessions, IInv, Control
  <2>2. QED
    BY <1>4, <2>1 DEF Ended, Scan, CleanupKeeps
<1>5. CASE (NextSession \/ CloseUpstream \/ ClearUpstream \/ JoinReply) /\ CleanupKeeps
  BY <1>5 DEF Ended, NextSession, CloseUpstream, ClearUpstream, JoinReply, CleanupKeeps
<1>6. CASE CleanupDone /\ CleanupKeeps
  BY <1>6 DEF Ended, CleanupDone, CleanupKeeps, IInv, Control, Cleaning
<1>7. ASSUME NEW s \in Slots, Reply(s) PROVE Ended'
  BY <1>7 DEF Ended, Reply, loopVars
<1>8. CASE Stop(StopBegin) \/ Stop(StopListening) \/ Stop(StopJoin)
  BY <1>8 DEF Ended, Stop, StopBegin, ClearRunning, StopListening, StopJoin, cleanVars
<1>9. ASSUME NEW f \in Fds, Elsewhere(f) PROVE Ended'
  BY <1>9 DEF Ended, Elsewhere, loopVars
<1>10. QED
  BY <1>1, <1>2, <1>3, <1>4, <1>5, <1>6, <1>7, <1>8, <1>9, StepCases

LEMMA AlwaysEnded == Spec => []Ended
<1>1. Init => Ended
  BY DEF Init, Ended
<1>2. QED
  BY <1>1, EndedStep, Invariance, PTL DEF Spec

Used == {s \in Slots : client[s] # None}

LEMMA StepKeepsPromise ==
  ASSUME IInv, Ended, [Next]_vars PROVE [Half!HalfNext]_(Half!halfVars)
<1> USE DEF Half!HalfNext, Half!halfVars, LoopThread
<1>1. CASE UNCHANGED <<running, main, udp, client>>
  BY <1>1
<1>2. CASE (UdpQuiet \/ Insert \/ Spawn \/ Forward) /\ LoopKeeps
  <2>1. UNCHANGED <<running, main, client>>
    BY <1>2, QuietEffect DEF IInv, InHand, Insert, Emplace, Discard, UdpStep, Spawn, Forward,
                             LoopKeeps, sessionVars
  <2>2. udp # "exit" /\ udp' # "exit"
    BY <1>2, QuietEffect DEF IInv, Insert, Emplace, Discard, UdpStep, Spawn, Forward
  <2>3. QED
    BY <2>1, <2>2
<1>3. ASSUME NEW c \in Clients, NEW s \in Slots, NEW f \in Fds, Create(c, s, f), LoopKeeps
      PROVE  Half!Open
  <2>1. /\ UNCHANGED <<running, main>> /\ udp # "exit" /\ udp' # "exit"
        /\ client[s] = None /\ client' = [client EXCEPT ![s] = c] /\ c # None
    BY <1>3 DEF Create, UdpStep, LoopKeeps
  <2>2. main \notin {"cleanup", "stopped"}
    BY <2>1 DEF IInv, Control
  <2>3. s \in Slots \ Used /\ Used' = Used \cup {s}
    BY <2>1 DEF Used, IInv, TypeOK
  <2>4. QED
    BY <2>1, <2>2, <2>3 DEF Half!Open, Used
<1>4. CASE JoinReply /\ CleanupKeeps
  <2>1. /\ UNCHANGED <<running, main, udp>> /\ step = "join" /\ current \in Slots
        /\ client' = [client EXCEPT ![current] = None]
    BY <1>4 DEF JoinReply, CleanupKeeps, IInv, Control, TypeOK
  <2>2. udp # "exit" /\ main \notin {"cleanup", "stopped"}
    BY <2>1 DEF Ended, IInv, Control
  <2>3. current \in Used /\ Used' = Used \ {current}
    BY <2>1 DEF Used, IInv, Placed, TypeOK
  <2>4. QED
    BY <2>1, <2>2, <2>3 DEF Half!Close, Used
<1>5. CASE CleanupDone /\ CleanupKeeps
  <2>1. UNCHANGED <<running, client>> /\ closing = {} /\ current = None /\ Cleaning
    BY <1>5 DEF CleanupDone, CleanupKeeps, sessionVars, IInv, Control
  <2>2. CASE udp = "cleanup"
    BY <1>5, <2>1, <2>2 DEF CleanupDone, IInv, Control
  <2>3. CASE udp = "lastCleanup"
    <3>1. Used = {}
      BY <1>5, <2>1, <2>3 DEF CleanupDone, Used, IInv, Control, NoneForgotten, TypeOK
    <3>2. main \notin {"cleanup", "stopped"} /\ main' = main /\ udp' = "exit" /\ ~running
      BY <1>5, <2>3 DEF CleanupDone, IInv, Control, Ended
    <3>3. QED
      BY <2>1, <2>3, <3>1, <3>2 DEF Half!End, Used
  <2>4. CASE main = "cleanup"
    BY <1>5, <2>1, <2>4 DEF CleanupDone, Half!Return
  <2>5. QED
    BY <2>1, <2>2, <2>3, <2>4 DEF Cleaning
<1>6. CASE Stop(StopBegin)
  BY <1>6 DEF Stop, StopBegin, ClearRunning, sessionVars, Ended, Half!AskStop
<1>7. CASE Stop(StopListening)
  BY <1>7 DEF Stop, StopListening, sessionVars
<1>8. CASE Stop(StopJoin)
  BY <1>8 DEF Stop, StopJoin, sessionVars, Half!Join
<1>9. CASE (Scan \/ NextSession \/ CloseUpstream \/ ClearUpstream) /\ CleanupKeeps
  BY <1>1, <1>9 DEF Scan, NextSession, CloseUpstream, ClearUpstream, CleanupKeeps, sessionVars
<1>10. QED
  BY <1>1, <1>2, <1>3, <1>4, <1>5, <1>6, <1>7, <1>8, <1>9, StepCases
     DEF vars, loopVars, sessionVars, Reply, Elsewhere

(* The UDP half is what its owner takes it for: its loop ends when asked   *)
(* to, with its last session.                                              *)
THEOREM HalfKeepsPromise == Spec => KeepsPromise
<1>1. ASSUME Init PROVE Half!HalfInit
  <2>1. running = TRUE /\ LoopThread = "top" /\ main = "run"
    BY <1>1 DEF Init, LoopThread
  <2>2. \A s \in Slots : client[s] = None
    BY <1>1 DEF Init
  <2>3. QED
    BY <2>1, <2>2 DEF Half!HalfInit
<1>2. QED
  BY <1>1, StepKeepsPromise, AlwaysEnded, Invariance, PTL DEF Spec, KeepsPromise, Half!HalfSpec
=============================================================================
