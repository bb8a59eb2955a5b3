---------------------------- MODULE RelaySession ----------------------------
(***************************************************************************)
(* One ForwardSession (forward_session.cpp): two relay threads that copy   *)
(* bytes between the client and the upstream socket, the worker thread     *)
(* that joins them and closes the sockets, and the owner (accept loop or   *)
(* Impl::Stop) that stops, joins and destroys the session.                 *)
(*                                                                         *)
(* A byte is its position in the stream of the peer that wrote it.  The    *)
(* sockets behave as Linux TCP sockets do; SigpipeKills says whether       *)
(* SIGPIPE has its default disposition, which ends the process.  A         *)
(* definition marked "Slip" is a variant of the one below it.              *)
(***************************************************************************)
EXTENDS Integers, Sequences

CONSTANTS MaxBytes,     \* bound: bytes each peer writes
          BufSize,      \* bytes one recv can take (the 16 KiB relay buffer)
          SockCap,      \* bytes the send path to a peer holds before it blocks
          SigpipeKills  \* TRUE: a send that raises SIGPIPE ends the process

Side == {"client", "upstream"}
Other(s) == IF s = "client" THEN "upstream" ELSE "client"

ASSUME RelayAssumption ==
  /\ MaxBytes \in [Side -> Nat] /\ BufSize \in Nat \ {0} /\ SockCap \in Nat \ {0}
  /\ SigpipeKills \in BOOLEAN

VARIABLES \* the peers; all but the last six groups are functions of Side
  produced, fin, \* bytes of the peer that reached its socket; it closed its end
  rst,           \* its reset: "no", "pending" (not yet returned), "taken"
  drained,       \* bytes the peer has read
  taken,         \* bytes the relay has received from the socket
  out,           \* the bytes the relay has sent to the socket
  rdShut, wrShut, \* local shutdown of each half
  open, handle,  \* the descriptor is open; the member is not kInvalidSocket
  relay,         \* control state of the relay thread that reads that side
  size, sent,    \* SendAll's argument and progress
  mutex,         \* who holds socket_mutex_
  stopping, finished, \* the two atomics
  worker,        \* control state of Run after it has started the relays
  owner, destroying, \* of the owning thread; it is inside ~ForwardSession
  stray,         \* a call was made on a descriptor the session had closed
  alive          \* the process has not been killed by a signal

peerVars  == <<produced, fin, drained>>
flowVars  == <<taken, out, size, sent>>
shutVars  == <<rdShut, wrShut>>
fdVars    == <<open, handle>>
ownerVars == <<stopping, owner, destroying>>
vars == <<peerVars, rst, flowVars, shutVars, fdVars, relay, mutex, finished, worker,
          ownerVars, stray, alive>>

RelayStates == {"recv", "send", "eof", "error", "abortSource", "abortDest", "done"}
WorkerStates == {"join", "closeClient", "clearClient", "closeUpstream", "clearUpstream",
                 "finish", "exit"}
OwnerStates == {"idle", "stop", "lock", "shutClient", "shutUpstream", "join", "gone"}

Each(v) == [s \in Side |-> v]

Init ==
  /\ produced = Each(0) /\ drained = Each(0) /\ taken = Each(0) /\ out = Each(<<>>)
  /\ fin = Each(FALSE) /\ rst = Each("no")
  /\ rdShut = Each(FALSE) /\ wrShut = Each(FALSE) /\ open = Each(TRUE) /\ handle = Each(TRUE)
  /\ relay = Each("recv") /\ size = Each(0) /\ sent = Each(0)
  /\ mutex = "free" /\ worker = "join" /\ owner = "idle"
  /\ stopping = FALSE /\ finished = FALSE /\ destroying = FALSE
  /\ stray = FALSE /\ alive = TRUE
-----------------------------------------------------------------------------
(* The peers and the network, beyond the session's control.                *)

Unread(s) == produced[s] - taken[s]
Space(s) == SockCap - (Len(out[s]) - drained[s])

\* Data after shutdown(SHUT_RD) resets the connection: that is PeerReset.
PeerSend(s) ==
  /\ open[s] /\ ~fin[s] /\ rst[s] = "no" /\ ~rdShut[s] /\ produced[s] < MaxBytes[s]
  /\ produced' = [produced EXCEPT ![s] = @ + 1]
  /\ UNCHANGED <<fin, drained, rst>>

PeerFin(s) ==
  /\ open[s] /\ ~fin[s] /\ rst[s] = "no"
  /\ fin' = [fin EXCEPT ![s] = TRUE]
  /\ UNCHANGED <<produced, drained, rst>>

\* A connection closed by both ends takes no reset any more.
PeerReset(s) ==
  /\ open[s] /\ rst[s] = "no" /\ ~(fin[s] /\ wrShut[s])
  /\ rst' = [rst EXCEPT ![s] = "pending"]
  /\ UNCHANGED peerVars

PeerRead(s) ==
  /\ drained[s] < Len(out[s])
  /\ drained' = [drained EXCEPT ![s] = @ + 1]
  /\ UNCHANGED <<produced, fin, rst>>

PeerStep(A) == A /\ UNCHANGED <<flowVars, shutVars, fdVars, relay, mutex, finished, worker,
                                ownerVars, stray, alive>>
Peer(s) == PeerStep(PeerSend(s) \/ PeerFin(s) \/ PeerReset(s) \/ PeerRead(s))
-----------------------------------------------------------------------------
(* RelayOneDirection(s, Other(s)), one step per socket call.               *)

GoTo(s, l) == relay' = [relay EXCEPT ![s] = l]
Touch(s) == stray' = (stray \/ ~open[s])

\* Slip: the read half is left open.
ShutWriteOnly(s) == wrShut' = [wrShut EXCEPT ![s] = TRUE] /\ UNCHANGED rdShut
ShutBoth(s) == wrShut' = [wrShut EXCEPT ![s] = TRUE] /\ rdShut' = [rdShut EXCEPT ![s] = TRUE]

\* Slip: recv is given more room than the buffer has.
RecvSizesUnbounded(s) == 1..Unread(s)
RecvSizes(s) == {n \in 1..BufSize : n <= Unread(s)}

\* Queued bytes come before an error or the end of the stream.
RecvData(s) ==
  /\ relay[s] = "recv"
  /\ \E n \in RecvSizes(s) : /\ taken' = [taken EXCEPT ![s] = @ + n]
                            /\ size' = [size EXCEPT ![s] = n]
  /\ sent' = [sent EXCEPT ![s] = 0]
  /\ GoTo(s, "send") /\ Touch(s) /\ UNCHANGED <<out, rst, shutVars, alive>>

\* recv returns 0: the peer's FIN, the local SHUT_RD, or a reset whose error
\* an earlier call has collected.
RecvEof(s) ==
  /\ relay[s] = "recv" /\ Unread(s) = 0
  /\ fin[s] \/ (rst[s] # "pending" /\ (rdShut[s] \/ rst[s] = "taken"))
  /\ GoTo(s, "eof") /\ Touch(s) /\ UNCHANGED <<flowVars, rst, shutVars, alive>>

RecvError(s) ==
  /\ relay[s] = "recv" /\ Unread(s) = 0 /\ rst[s] = "pending" /\ ~fin[s]
  /\ rst' = [rst EXCEPT ![s] = "taken"]
  /\ GoTo(s, "error") /\ Touch(s) /\ UNCHANGED <<flowVars, shutVars, alive>>

SendFails(d) == wrShut[d] \/ rst[d] # "no"
SendSizes(s) == {n \in 1..(size[s] - sent[s]) : n <= Space(Other(s))}

\* The byte at index i of the relay buffer; what send copies from data + sent.
BufferByte(s, i) == taken[s] - size[s] + i
\* Slip: every send starts at data.
ChunkFromStart(s, n) == [i \in 1..n |-> BufferByte(s, i)]
Chunk(s, n) == [i \in 1..n |-> BufferByte(s, sent[s] + i)]

SendData(s) ==
  LET d == Other(s) IN
  /\ relay[s] = "send" /\ sent[s] < size[s] /\ ~SendFails(d)
  /\ \E n \in SendSizes(s) : /\ out' = [out EXCEPT ![d] = @ \o Chunk(s, n)]
                            /\ sent' = [sent EXCEPT ![s] = @ + n]
  /\ Touch(d) /\ UNCHANGED <<taken, size, relay, rst, shutVars, alive>>

\* Slip: a short send counts as a whole one.
AnySent(s) == sent[s] > 0
AllSent(s) == sent[s] = size[s]

SendAllReturns(s) ==
  /\ relay[s] = "send" /\ AllSent(s) /\ GoTo(s, "recv")
  /\ UNCHANGED <<flowVars, rst, shutVars, stray, alive>>

\* A pending ECONNRESET is returned without a signal; EPIPE, which is also
\* what a reset after the peer's FIN leaves, raises SIGPIPE.
RaisesSigpipe(d) == ~(rst[d] = "pending" /\ ~fin[d])

SendError(s) ==
  LET d == Other(s) IN
  /\ relay[s] = "send" /\ sent[s] < size[s] /\ SendFails(d)
  /\ rst' = [rst EXCEPT ![d] = IF @ = "pending" THEN "taken" ELSE @]
  /\ alive' = ~(SigpipeKills /\ RaisesSigpipe(d))
  /\ GoTo(s, "abortSource") /\ Touch(d) /\ UNCHANGED <<flowVars, shutVars>>

\* Slips: the end of a stream shuts both halves, of one or of both sockets.
EofShutBoth(d) == ShutBoth(d)
EofShutAll(d) == rdShut' = Each(TRUE) /\ wrShut' = Each(TRUE)
EofShut(d) == wrShut' = [wrShut EXCEPT ![d] = TRUE] /\ UNCHANGED rdShut
\* Slip: an error is passed on like the end of a stream.
ErrorShutWrite(d) == ShutWriteOnly(d)
ErrorShut(d) == ShutBoth(d)

ForwardEof(s) == relay[s] = "eof" /\ EofShut(Other(s)) /\ Touch(Other(s)) /\ GoTo(s, "done")
ForwardError(s) == relay[s] = "error" /\ ErrorShut(Other(s)) /\ Touch(Other(s)) /\ GoTo(s, "done")
AbortSource(s) == relay[s] = "abortSource" /\ ShutBoth(s) /\ Touch(s) /\ GoTo(s, "abortDest")
AbortDest(s) == relay[s] = "abortDest" /\ ShutBoth(Other(s)) /\ Touch(Other(s)) /\ GoTo(s, "done")

ShutStep(s) == /\ ForwardEof(s) \/ ForwardError(s) \/ AbortSource(s) \/ AbortDest(s)
               /\ UNCHANGED <<flowVars, rst, alive>>

Relay(s) == /\ \/ RecvData(s) \/ RecvEof(s) \/ RecvError(s)
               \/ SendData(s) \/ SendAllReturns(s) \/ SendError(s) \/ ShutStep(s)
            /\ UNCHANGED <<peerVars, fdVars, mutex, finished, worker, ownerVars>>
-----------------------------------------------------------------------------
(* Run after the spawn: join both relays, CloseSockets under socket_mutex_ *)
(* (close a descriptor, then reset the member), publish finished_, exit.   *)

WorkerStep(from, to) == worker = from /\ worker' = to

JoinRelays ==
  /\ WorkerStep("join", "closeClient") /\ \A s \in Side : relay[s] = "done"
  /\ mutex = "free" /\ mutex' = "worker" /\ UNCHANGED <<fdVars, finished>>

CloseOne(s, from, to) ==
  /\ WorkerStep(from, to)
  /\ open' = [open EXCEPT ![s] = @ /\ ~handle[s]]
  /\ UNCHANGED <<handle, mutex, finished>>

ClearOne(s, from, to) ==
  /\ WorkerStep(from, to)
  /\ handle' = [handle EXCEPT ![s] = FALSE]
  /\ mutex' = IF to = "finish" THEN "free" ELSE mutex
  /\ UNCHANGED <<open, finished>>

CloseSockets == \/ CloseOne("client", "closeClient", "clearClient")
                \/ ClearOne("client", "clearClient", "closeUpstream")
                \/ CloseOne("upstream", "closeUpstream", "clearUpstream")
                \/ ClearOne("upstream", "clearUpstream", "finish")

Finish == WorkerStep("finish", "exit") /\ finished' = TRUE /\ UNCHANGED <<fdVars, mutex>>

Run == /\ JoinRelays \/ CloseSockets \/ Finish
       /\ UNCHANGED <<peerVars, rst, flowVars, shutVars, relay, ownerVars, stray, alive>>
-----------------------------------------------------------------------------
(* The owner: Impl::Stop (Stop, Join, destroy) or the accept loop reaping  *)
(* a finished session (IsFinished, Join, destroy).  ~ForwardSession calls  *)
(* Stop and Join again.                                                    *)

OwnerStep(from, to) == owner = from /\ owner' = to
ownerRest == <<peerVars, rst, flowVars, fdVars, relay, finished, worker, alive>>

AskStop == OwnerStep("idle", "stop")
           /\ UNCHANGED <<ownerRest, shutVars, mutex, stopping, destroying, stray>>
AskReap == OwnerStep("idle", "join") /\ finished
           /\ UNCHANGED <<shutVars, mutex, stopping, destroying, stray>>

StopExchange == /\ OwnerStep("stop", IF stopping THEN "join" ELSE "lock") /\ stopping' = TRUE
                /\ UNCHANGED <<shutVars, mutex, destroying, stray>>

\* Slip: Stop does not take socket_mutex_.
LockIgnored == TRUE
LockAvailable == mutex = "free"
StopLock == /\ OwnerStep("lock", "shutClient") /\ LockAvailable /\ mutex' = "owner"
            /\ UNCHANGED <<shutVars, stopping, destroying, stray>>

\* ShutdownBoth on a member: nothing happens once it is kInvalidSocket.
ShutMember(s) == IF handle[s] THEN ShutBoth(s) /\ Touch(s) ELSE UNCHANGED <<shutVars, stray>>

StopShutClient == /\ OwnerStep("shutClient", "shutUpstream") /\ ShutMember("client")
                  /\ UNCHANGED <<mutex, stopping, destroying>>
StopShutUpstream == /\ OwnerStep("shutUpstream", "join") /\ ShutMember("upstream")
                    /\ mutex' = "free" /\ UNCHANGED <<stopping, destroying>>

\* Slip: Join does not wait for the worker.
JoinSkipped == TRUE
JoinReturns == worker = "exit"
Join == /\ OwnerStep("join", IF destroying THEN "gone" ELSE "stop") /\ JoinReturns
        /\ destroying' = TRUE /\ UNCHANGED <<shutVars, mutex, stopping, stray>>

Owner == /\ \/ AskReap \/ StopExchange \/ StopLock
            \/ StopShutClient \/ StopShutUpstream \/ Join
         /\ UNCHANGED ownerRest
-----------------------------------------------------------------------------
\* The session is destroyed; what its peers still read does not matter.
Gone == owner = "gone" /\ UNCHANGED vars

Next == \/ alive /\ ((\E s \in Side : Relay(s)) \/ Run \/ AskStop \/ Owner)
        \/ \E s \in Side : Peer(s)
        \/ Gone

Spec == Init /\ [][Next]_vars

(* The scheduler runs every thread of the process.  Nobody has to stop the *)
(* session or to reap it (that takes another accept), but the owner goes   *)
(* through with what it has begun; the peers owe it nothing.               *)
FairSpec == /\ Spec
            /\ \A s \in Side : WF_vars(alive /\ Relay(s))
            /\ WF_vars(alive /\ Run) /\ WF_vars(alive /\ owner # "idle" /\ Owner)

(* Peers that keep reading what they are sent.                             *)
Reading == \A s \in Side : WF_vars(PeerStep(PeerRead(s)))
-----------------------------------------------------------------------------
(* The ranges of the variables; a relay never holds more than its buffer,  *)
(* nor sends past what recv returned (RelayOneDirection, SendAll).         *)
TypeOK ==
  /\ produced \in [Side -> Nat] /\ drained \in [Side -> Nat]
  /\ fin \in [Side -> BOOLEAN] /\ rst \in [Side -> {"no", "pending", "taken"}]
  /\ taken \in [Side -> Nat] /\ out \in [Side -> Seq(Nat)]
  /\ rdShut \in [Side -> BOOLEAN] /\ wrShut \in [Side -> BOOLEAN]
  /\ open \in [Side -> BOOLEAN] /\ handle \in [Side -> BOOLEAN]
  /\ relay \in [Side -> RelayStates]
  /\ size \in [Side -> 0..BufSize] /\ sent \in [Side -> 0..BufSize]
  /\ mutex \in {"free", "worker", "owner"}
  /\ stopping \in BOOLEAN /\ finished \in BOOLEAN /\ destroying \in BOOLEAN
  /\ worker \in WorkerStates /\ owner \in OwnerStates
  /\ stray \in BOOLEAN /\ alive \in BOOLEAN

Broken == stopping \/ \E s \in Side : rst[s] # "no"

(* Each peer receives exactly a prefix of what the other peer wrote: no    *)
(* byte is lost, repeated or reordered by partial sends (SendAll).         *)
InOrder == \A s \in Side : \A i \in 1..Len(out[s]) : out[s][i] = i

(* A peer that is told the stream is over (FIN) has been sent all of it,   *)
(* also when the other direction ended first, unless a reset or a stop cut *)
(* the session (ShutdownWrite at end of stream, not ShutdownBoth).         *)
CompleteAtEnd ==
  \A s \in Side : wrShut[Other(s)] /\ ~Broken =>
    fin[s] /\ Len(out[Other(s)]) = produced[s]

(* No shutdown, recv or send reaches a descriptor that CloseSockets has    *)
(* closed, whose number another thread may have been given: socket_mutex_  *)
(* and the reset to kInvalidSocket guard Stop, the joins guard the relays. *)
OwnDescriptors == ~stray

(* When the session object is gone no thread of it is left and both        *)
(* sockets are closed: the destructor's Stop and Join suffice.             *)
GoneLeavesNothing ==
  owner = "gone" => /\ worker = "exit" /\ mutex = "free"
                    /\ \A s \in Side : relay[s] = "done" /\ ~open[s]

(* Each direction of the session is a byte pipe: the request stream and    *)
(* the answer stream (RelayOneDirection, both threads of Run).             *)
Request == INSTANCE BytePipe WITH
  written <- produced["client"], closed <- fin["client"], delivered <- out["upstream"],
  ended <- wrShut["upstream"], cut <- Broken
Answer == INSTANCE BytePipe WITH
  written <- produced["upstream"], closed <- fin["upstream"], delivered <- out["client"],
  ended <- wrShut["client"], cut <- Broken
IsPipe == Request!PipeSpec /\ Answer!PipeSpec

(* The session keeps the contract that its owner relies on: Join returns   *)
(* only when the session has published that it is finished, and the object *)
(* goes only after a Join, also when the owner reaps a session that has    *)
(* finished of itself (IsFinished, Join, ~ForwardSession).                 *)
SessionHold == IF owner = "gone" THEN "destroyed"
               ELSE IF destroying THEN "joined"
               ELSE IF stopping \/ owner = "stop" THEN "stopped" ELSE "kept"
Contract == INSTANCE SessionLife WITH
  life <- IF finished THEN "finished" ELSE "running", hold <- SessionHold
KeepsContract == Contract!LifeSpec

(* A session that is stopped ends and is destroyed, whatever the peers do: *)
(* shutting both sockets down unblocks recv and send (Stop, Join).         *)
StopEnds == owner = "stop" ~> owner = "gone"

(* With peers that go on reading, the end of both streams, or a reset of   *)
(* one that had not ended, ends the session without anybody stopping it.   *)
(* (A reset after the peer's FIN is seen only when something is sent.)     *)
PeersEnd ==
  Reading =>
    (((\A s \in Side : fin[s]) \/ (\E s \in Side : rst[s] # "no" /\ ~fin[s])) ~> finished)

(* With peers that go on reading, every byte written gets to the other     *)
(* peer unless a reset or a stop cuts the session: neither a full socket   *)
(* buffer nor the end of the other direction holds it up, nor is it        *)
(* dropped.  (A peer writes finitely much, so the session catches up with  *)
(* it.)  The Stop in the destructor of a finished session is no cut.       *)
CutShort == (stopping /\ ~destroying) \/ \E s \in Side : rst[s] # "no"
Behind(s) == Len(out[Other(s)]) < produced[s]
Delivers ==
  Reading => \A s \in Side : (Behind(s) /\ ~Broken) ~> (~Behind(s) \/ CutShort)

(* "Press Ctrl+C to stop." (main.cpp:243): nothing a peer does ends the    *)
(* process, a failed send ends one session (forward_session.cpp:34-38).    *)
EndsOnlyOnRequest == alive
=============================================================================
