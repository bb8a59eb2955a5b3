------------------------- MODULE RelaySessionProofs -------------------------
(***************************************************************************)
(* RelaySession for every MaxBytes, BufSize and SockCap: the inductive     *)
(* invariant behind its safety invariants, and the refinement of BytePipe. *)
(***************************************************************************)
EXTENDS RelaySession, TLAPS

USE RelayAssumption

(* Every byte received is sent, or waits between sent and size.            *)
AccountedAt(s) ==
  /\ sent[s] <= size[s] /\ size[s] <= taken[s] /\ taken[s] <= produced[s]
  /\ Len(out[Other(s)]) = taken[s] - size[s] + sent[s]
  /\ relay[s] = "recv" => sent[s] = size[s]
Accounted == \A s \in Side : AccountedAt(s)

(* Until the session is broken, a relay ends only after a whole stream.    *)
WholeStream(s) == fin[s] /\ taken[s] = produced[s] /\ sent[s] = size[s]
UnbrokenAt(s) ==
  /\ ~rdShut[s] /\ relay[s] \notin {"error", "abortSource", "abortDest"}
  /\ relay[s] = "eof" => WholeStream(s)
  /\ wrShut[Other(s)] => relay[s] = "done" /\ WholeStream(s)
Unbroken == ~Broken => \A s \in Side : UnbrokenAt(s)

(* Who holds the mutex, and how far CloseSockets has got.                  *)
Locking ==
  /\ mutex = "worker" <=>
       worker \in {"closeClient", "clearClient", "closeUpstream", "clearUpstream"}
  /\ mutex = "owner" <=> owner \in {"shutClient", "shutUpstream"}
  /\ owner \in {"lock", "shutClient", "shutUpstream"} => stopping
Closing ==
  /\ worker # "join" => \A s \in Side : relay[s] = "done"
  /\ open["client"] <=> worker \in {"join", "closeClient"}
  /\ handle["client"] <=> worker \in {"join", "closeClient", "clearClient"}
  /\ open["upstream"] <=> worker \in {"join", "closeClient", "clearClient", "closeUpstream"}
  /\ handle["upstream"] <=> worker \notin {"finish", "exit"}
  /\ owner = "gone" => worker = "exit"
  /\ ~stray

IInv == TypeOK /\ Accounted /\ InOrder /\ Unbroken /\ Locking /\ Closing
-----------------------------------------------------------------------------
LEMMA OtherSide == \A s \in Side : Other(s) \in Side /\ Other(s) # s /\ Other(Other(s)) = s
BY DEF Side, Other

(* What appending a chunk does to the bytes delivered.                     *)
LEMMA AppendChunk ==
  ASSUME NEW q \in Seq(Nat), NEW n \in Nat, NEW b \in Nat
  PROVE  LET c == [i \in 1..n |-> b + i] IN
         /\ q \o c \in Seq(Nat) /\ Len(q \o c) = Len(q) + n
         /\ \A i \in 1..Len(q) : (q \o c)[i] = q[i]
         /\ \A i \in 1..n : (q \o c)[Len(q) + i] = b + i
<1> DEFINE c == [i \in 1..n |-> b + i]
<1>1. c \in Seq(Nat) /\ Len(c) = n
  OBVIOUS
<1>2. QED
  BY <1>1

LEMMA InitInv == Init => IInv
<1> SUFFICES ASSUME Init PROVE IInv
  OBVIOUS
<1> USE DEF Init, Each
<1>1. TypeOK
  <2>1. out \in [Side -> Seq(Nat)]
    OBVIOUS
  <2>2. size \in [Side -> 0..BufSize] /\ sent \in [Side -> 0..BufSize]
    OBVIOUS
  <2>3. QED
    BY <2>1, <2>2 DEF TypeOK, RelayStates, WorkerStates, OwnerStates
<1>2. Accounted /\ InOrder
  BY OtherSide DEF Accounted, AccountedAt, InOrder
<1>3. Unbroken
  BY OtherSide DEF Unbroken, UnbrokenAt
<1>4. Locking /\ Closing
  BY DEF Locking, Closing, Side
<1>5. QED
  BY <1>1, <1>2, <1>3, <1>4 DEF IInv
-----------------------------------------------------------------------------
(* The steps, with what each group leaves alone.                           *)
LEMMA StepCases ==
  ASSUME [Next]_vars
  PROVE  \/ \E s \in Side : Relay(s)
         \/ Run \/ AskStop \/ Owner
         \/ \E s \in Side : Peer(s)
         \/ UNCHANGED vars
BY DEF Next, Gone

(* A send appends to what its peer was sent the bytes that come next.      *)
LEMMA SendAppends ==
  ASSUME TypeOK, Accounted, NEW s \in Side, SendData(s)
  PROVE  LET d == Other(s) IN
         \E n \in 1..(size[s] - sent[s]) :
           /\ sent' = [sent EXCEPT ![s] = sent[s] + n]
           /\ out' = [out EXCEPT ![d] = out[d] \o [i \in 1..n |-> Len(out[d]) + i]]
           /\ out'[d] \in Seq(Nat) /\ Len(out'[d]) = Len(out[d]) + n
           /\ \A i \in 1..Len(out[d]) : out'[d][i] = out[d][i]
           /\ \A i \in 1..n : out'[d][Len(out[d]) + i] = Len(out[d]) + i
<1> DEFINE d == Other(s)
           b == Len(out[d])
<1>1. PICK n \in SendSizes(s) : /\ out' = [out EXCEPT ![d] = out[d] \o Chunk(s, n)]
                               /\ sent' = [sent EXCEPT ![s] = sent[s] + n]
  BY DEF SendData
<1>2. n \in Nat /\ n \in 1..(size[s] - sent[s])
  BY DEF SendSizes
<1>3. d \in Side /\ out[d] \in Seq(Nat) /\ b \in Nat
  BY OtherSide DEF TypeOK
<1>4. b = taken[s] - size[s] + sent[s] /\ taken[s] \in Nat /\ size[s] \in Nat /\ sent[s] \in Nat
  BY DEF Accounted, AccountedAt, TypeOK
<1>5. Chunk(s, n) = [i \in 1..n |-> b + i]
  BY <1>4, <1>2 DEF Chunk, BufferByte
<1>6. out'[d] = out[d] \o [i \in 1..n |-> b + i]
  BY <1>1, <1>3, <1>5 DEF TypeOK
<1> HIDE DEF b, d
<1>7. /\ out'[d] \in Seq(Nat) /\ Len(out'[d]) = Len(out[d]) + n
      /\ \A i \in 1..Len(out[d]) : out'[d][i] = out[d][i]
      /\ \A i \in 1..n : out'[d][Len(out[d]) + i] = b + i
  BY <1>2, <1>3, <1>6, AppendChunk
<1>8. QED
  BY <1>1, <1>2, <1>5, <1>7 DEF b, d

LEMMA TypeStep == TypeOK /\ Accounted /\ [Next]_vars => TypeOK'
<1> SUFFICES ASSUME TypeOK, Accounted, [Next]_vars PROVE TypeOK'
  OBVIOUS
<1> USE DEF TypeOK, peerVars, flowVars, shutVars, fdVars, ownerVars
<1>1. ASSUME NEW s \in Side, Relay(s) PROVE TypeOK'
  <2> USE <1>1 DEF Relay, GoTo, Touch, RelayStates
  <2>1. CASE RecvData(s)
    BY <2>1 DEF RecvData, RecvSizes
  <2>2. CASE RecvEof(s)
    BY <2>2 DEF RecvEof
  <2>3. CASE RecvError(s)
    BY <2>3 DEF RecvError
  <2>4. CASE SendData(s)
    <3>1. out' \in [Side -> Seq(Nat)]
      BY <2>4, SendAppends
    <3>2. sent' \in [Side -> 0..BufSize]
      <4>1. PICK n \in 1..(size[s] - sent[s]) : sent' = [sent EXCEPT ![s] = sent[s] + n]
        BY <2>4, SendAppends
      <4>2. QED
        BY <4>1
    <3>3. QED
      BY <2>4, <3>1, <3>2 DEF SendData
  <2>5. CASE SendAllReturns(s)
    BY <2>5 DEF SendAllReturns
  <2>6. CASE SendError(s)
    BY <2>6 DEF SendError
  <2>7. CASE ShutStep(s)
    <3> USE <2>7 DEF ShutStep, ShutBoth
    <3>1. CASE ForwardEof(s)
      BY <3>1 DEF ForwardEof, EofShut
    <3>2. CASE ForwardError(s)
      BY <3>2 DEF ForwardError, ErrorShut
    <3>3. CASE AbortSource(s)
      BY <3>3 DEF AbortSource
    <3>4. CASE AbortDest(s)
      BY <3>4 DEF AbortDest
    <3>5. QED
      BY <3>1, <3>2, <3>3, <3>4
  <2>8. QED
    BY <2>1, <2>2, <2>3, <2>4, <2>5, <2>6, <2>7
<1>2. CASE Run
  <2> USE <1>2 DEF Run, WorkerStep, WorkerStates
  <2>1. CASE JoinRelays
    BY <2>1 DEF JoinRelays
  <2>2. CASE CloseSockets
    BY <2>2 DEF CloseSockets, CloseOne, ClearOne, Side
  <2>3. CASE Finish
    BY <2>3 DEF Finish
  <2>4. QED
    BY <2>1, <2>2, <2>3
<1>3. CASE AskStop \/ Owner
  <2> USE DEF OwnerStep, ownerRest, OwnerStates
  <2>1. CASE AskStop
    BY <2>1 DEF AskStop
  <2>2. CASE Owner /\ (AskReap \/ StopExchange \/ StopLock \/ Join)
    BY <2>2 DEF Owner, AskReap, StopExchange, StopLock, Join
  <2>6. ASSUME NEW s \in Side, ShutMember(s)
        PROVE  /\ rdShut' \in [Side -> BOOLEAN] /\ wrShut' \in [Side -> BOOLEAN]
               /\ stray' \in BOOLEAN
    BY <2>6 DEF ShutMember, ShutBoth, Touch
  <2>3. CASE Owner /\ StopShutClient
    BY <2>3, <2>6 DEF Owner, StopShutClient, Side
  <2>4. CASE Owner /\ StopShutUpstream
    BY <2>4, <2>6 DEF Owner, StopShutUpstream, Side
  <2>5. QED
    BY <1>3, <2>1, <2>2, <2>3, <2>4 DEF Owner
<1>4. ASSUME NEW s \in Side, Peer(s) PROVE TypeOK'
  <2> USE <1>4 DEF Peer, PeerStep
  <2>1. CASE PeerSend(s)
    BY <2>1 DEF PeerSend
  <2>2. CASE PeerFin(s)
    BY <2>2 DEF PeerFin
  <2>3. CASE PeerReset(s)
    BY <2>3 DEF PeerReset
  <2>4. CASE PeerRead(s)
    BY <2>4 DEF PeerRead
  <2>5. QED
    BY <2>1, <2>2, <2>3, <2>4
<1>5. CASE UNCHANGED vars
  BY <1>5 DEF vars
<1>6. QED
  BY <1>1, <1>2, <1>3, <1>4, <1>5, StepCases
-----------------------------------------------------------------------------
LEMMA AccountedStep == TypeOK /\ Accounted /\ [Next]_vars => Accounted'
<1> SUFFICES ASSUME TypeOK, Accounted, [Next]_vars PROVE Accounted'
  OBVIOUS
<1>1. CASE UNCHANGED <<produced, flowVars, relay>>
  BY <1>1 DEF Accounted, AccountedAt, flowVars
<1>2. ASSUME NEW s \in Side, Relay(s) PROVE Accounted'
  <2>1. UNCHANGED produced
    BY <1>2 DEF Relay, peerVars
  <2>2. CASE RecvData(s)
    <3>1. PICK n \in RecvSizes(s) : /\ taken' = [taken EXCEPT ![s] = taken[s] + n]
                                   /\ size' = [size EXCEPT ![s] = n]
      BY <2>2 DEF RecvData
    <3>2. n \in Nat /\ n <= produced[s] - taken[s]
      BY DEF RecvSizes, Unread
    <3>3. sent' = [sent EXCEPT ![s] = 0] /\ relay' = [relay EXCEPT ![s] = "send"] /\ out' = out
      BY <2>2 DEF RecvData, GoTo
    <3>4. relay[s] = "recv"
      BY <2>2 DEF RecvData
    <3>5. AccountedAt(s)'
      <4>1. /\ taken'[s] = taken[s] + n /\ size'[s] = n /\ sent'[s] = 0 /\ relay'[s] = "send"
            /\ taken[s] \in Nat /\ produced[s] \in Nat /\ sent[s] \in Nat /\ size[s] \in Nat
        BY <3>1, <3>3 DEF TypeOK
      <4>2. Len(out[Other(s)]) = taken[s]
        BY <3>4, <4>1 DEF Accounted, AccountedAt
      <4>3. QED
        BY <2>1, <3>2, <3>3, <4>1, <4>2 DEF AccountedAt
    <3>6. ASSUME NEW r \in Side \ {s} PROVE AccountedAt(r)'
      BY <2>1, <3>1, <3>3 DEF Accounted, AccountedAt, TypeOK
    <3>7. QED
      BY <3>5, <3>6 DEF Accounted
  <2>3. CASE SendData(s)
    <3> DEFINE d == Other(s)
    <3>1. PICK n \in 1..(size[s] - sent[s]) :
            /\ sent' = [sent EXCEPT ![s] = sent[s] + n]
            /\ out' = [out EXCEPT ![d] = out'[d]]
            /\ Len(out'[d]) = Len(out[d]) + n
      BY <2>3, SendAppends, OtherSide DEF TypeOK
    <3>2. UNCHANGED <<taken, size, relay>> /\ relay[s] = "send"
      BY <2>3 DEF SendData
    <3>3. AccountedAt(s)'
      <4>1. sent'[s] = sent[s] + n /\ sent[s] + n <= size[s]
        BY <3>1 DEF TypeOK
      <4>2. Len(out'[d]) = taken[s] - size[s] + (sent[s] + n)
        <5>1. Len(out[d]) = taken[s] - size[s] + sent[s]
          BY DEF Accounted, AccountedAt
        <5>2. taken[s] \in Nat /\ size[s] \in Nat /\ sent[s] \in Nat /\ n \in Nat
          BY DEF TypeOK
        <5>3. QED
          BY <3>1, <5>1, <5>2
      <4>3. QED
        BY <2>1, <3>2, <4>1, <4>2 DEF Accounted, AccountedAt, TypeOK
    <3>4. ASSUME NEW r \in Side \ {s} PROVE AccountedAt(r)'
      <4>1. sent'[r] = sent[r] /\ out'[Other(r)] = out[Other(r)]
        BY <3>1, OtherSide DEF TypeOK, Side
      <4>2. QED
        BY <2>1, <3>2, <4>1 DEF Accounted, AccountedAt
    <3>5. QED
      BY <3>3, <3>4 DEF Accounted
  <2>4. CASE SendAllReturns(s)
    BY <2>1, <2>4 DEF SendAllReturns, AllSent, GoTo, Accounted, AccountedAt, TypeOK, flowVars
  <2>5. CASE UNCHANGED flowVars /\ \E l \in RelayStates \ {"recv"} : GoTo(s, l)
    BY <2>1, <2>5 DEF GoTo, Accounted, AccountedAt, TypeOK, flowVars
  <2>6. RecvEof(s) \/ RecvError(s) \/ SendError(s) \/ ShutStep(s)
          => UNCHANGED flowVars /\ \E l \in RelayStates \ {"recv"} : GoTo(s, l)
    BY DEF RecvEof, RecvError, SendError, ShutStep, ForwardEof, ForwardError, AbortSource,
       AbortDest, RelayStates
  <2>7. QED
    BY <1>2, <2>2, <2>3, <2>4, <2>5, <2>6 DEF Relay
<1>3. CASE Run \/ AskStop \/ Owner
  BY <1>1, <1>3 DEF Run, AskStop, Owner, ownerRest, peerVars
<1>4. ASSUME NEW s \in Side, Peer(s) PROVE Accounted'
  <2>1. UNCHANGED flowVars /\ UNCHANGED relay
    BY <1>4 DEF Peer, PeerStep
  <2>2. \A r \in Side : produced'[r] \in Nat /\ produced'[r] >= produced[r]
    <3>1. CASE PeerSend(s)
      BY <3>1 DEF PeerSend, TypeOK
    <3>2. CASE PeerFin(s) \/ PeerReset(s) \/ PeerRead(s)
      BY <3>2 DEF PeerFin, PeerReset, PeerRead, peerVars, TypeOK
    <3>3. QED
      BY <1>4, <3>1, <3>2 DEF Peer, PeerStep
  <2>3. ASSUME NEW r \in Side PROVE AccountedAt(r)'
    <3>1. taken[r] \in Nat /\ produced[r] \in Nat
      BY DEF TypeOK
    <3>2. QED
      BY <2>1, <2>2, <3>1 DEF Accounted, AccountedAt, flowVars
  <2>4. QED
    BY <2>3 DEF Accounted
<1>5. QED
  BY <1>1, <1>2, <1>3, <1>4, StepCases DEF vars, peerVars

(* Only a send changes what a peer was sent.                               *)
LEMMA OnlySendDelivers ==
  ASSUME [Next]_vars, ~UNCHANGED out
  PROVE  \E s \in Side : SendData(s)
<1>1. CASE Run \/ AskStop \/ Owner \/ (\E s \in Side : Peer(s)) \/ UNCHANGED vars
  BY <1>1 DEF Run, AskStop, Owner, ownerRest, Peer, PeerStep, vars, flowVars
<1>2. ASSUME NEW s \in Side, Relay(s), ~SendData(s) PROVE UNCHANGED out
  BY <1>2 DEF Relay, RecvData, RecvEof, RecvError, SendAllReturns, SendError, ShutStep, flowVars
<1>3. QED
  BY <1>1, <1>2, StepCases

LEMMA OrderStep == TypeOK /\ Accounted /\ InOrder /\ [Next]_vars => InOrder'
<1> SUFFICES ASSUME TypeOK, Accounted, InOrder, [Next]_vars PROVE InOrder'
  OBVIOUS
<1>1. CASE UNCHANGED out
  BY <1>1 DEF InOrder
<1>2. ASSUME NEW s \in Side, SendData(s) PROVE InOrder'
  <2> DEFINE d == Other(s)
  <2>1. PICK n \in 1..(size[s] - sent[s]) :
          /\ out' = [out EXCEPT ![d] = out'[d]]
          /\ Len(out'[d]) = Len(out[d]) + n
          /\ \A i \in 1..Len(out[d]) : out'[d][i] = out[d][i]
          /\ \A i \in 1..n : out'[d][Len(out[d]) + i] = Len(out[d]) + i
    BY <1>2, SendAppends, OtherSide DEF TypeOK
  <2>2. n \in Nat /\ Len(out[d]) \in Nat /\ d \in Side
    BY OtherSide DEF TypeOK
  <2>3. ASSUME NEW i \in 1..Len(out'[d]) PROVE out'[d][i] = i
    <3>1. CASE i <= Len(out[d])
      BY <2>1, <2>2, <3>1 DEF InOrder
    <3>2. CASE i > Len(out[d])
      <4>1. i - Len(out[d]) \in 1..n /\ i = Len(out[d]) + (i - Len(out[d]))
        BY <2>1, <2>2, <3>2
      <4>2. QED
        BY <2>1, <4>1
    <3>3. QED
      BY <2>2, <3>1, <3>2
  <2>4. \A r \in Side \ {d} : out'[r] = out[r]
    BY <2>1, <2>2 DEF TypeOK
  <2>5. QED
    BY <2>3, <2>4 DEF InOrder
<1>3. QED
  BY <1>1, <1>2, OnlySendDelivers
-----------------------------------------------------------------------------
(* A session once broken stays so.                                         *)
LEMMA BrokenStays == TypeOK /\ [Next]_vars /\ Broken => Broken'
<1> SUFFICES ASSUME TypeOK, [Next]_vars, Broken PROVE Broken'
  OBVIOUS
<1> USE DEF Broken
<1>1. CASE UNCHANGED <<rst, stopping>>
  BY <1>1
<1>2. ASSUME NEW s \in Side, Relay(s) PROVE Broken'
  <2>1. UNCHANGED stopping
    BY <1>2 DEF Relay, ownerVars
  <2>2. CASE RecvError(s)
    BY <2>2 DEF RecvError, TypeOK
  <2>3. CASE SendError(s)
    BY <2>1, <2>3, OtherSide DEF SendError, TypeOK
  <2>4. QED
    BY <1>1, <1>2, <2>1, <2>2, <2>3 DEF Relay, RecvData, RecvEof, SendData, SendAllReturns, ShutStep
<1>3. ASSUME NEW s \in Side, Peer(s) PROVE Broken'
  <2>1. UNCHANGED stopping
    BY <1>3 DEF Peer, PeerStep, ownerVars
  <2>2. CASE PeerReset(s)
    BY <2>2 DEF PeerReset, TypeOK
  <2>3. QED
    BY <1>1, <1>3, <2>1, <2>2 DEF Peer, PeerStep, PeerSend, PeerFin, PeerRead
<1>4. CASE Owner
  BY <1>4 DEF Owner, ownerRest, AskReap, StopExchange, StopLock, StopShutClient,
     StopShutUpstream, Join
<1>5. QED
  BY <1>1, <1>2, <1>3, <1>4, StepCases DEF Run, AskStop, ownerRest, ownerVars, vars

LEMMA UnbrokenStep ==
  TypeOK /\ Accounted /\ Locking /\ Unbroken /\ [Next]_vars => Unbroken'
<1> SUFFICES ASSUME TypeOK, Accounted, Locking, Unbroken, [Next]_vars, ~Broken',
                    NEW r \in Side
             PROVE  UnbrokenAt(r)'
  BY DEF Unbroken
<1>1. ~Broken /\ \A s \in Side : UnbrokenAt(s)
  BY BrokenStays DEF Unbroken
<1> DEFINE d == Other(r)
<1>2. r \in Side /\ d \in Side /\ d # r /\ Other(d) = r
  BY OtherSide
<1>3. CASE UNCHANGED <<produced, fin, flowVars, shutVars, relay>>
  BY <1>1, <1>3 DEF UnbrokenAt, WholeStream, flowVars, shutVars
<1>4. ASSUME NEW s \in Side, Relay(s) PROVE UnbrokenAt(r)'
  <2>1. UNCHANGED <<produced, fin>>
    BY <1>4 DEF Relay, peerVars
  <2>2. CASE RecvData(s)
    BY <1>1, <1>2, <2>1, <2>2 DEF RecvData, GoTo, UnbrokenAt, WholeStream, TypeOK, shutVars
  <2>3. CASE RecvEof(s)
    <3>1. WholeStream(s)
      <4>1. fin[s]
        BY <1>1, <2>3 DEF RecvEof, Broken, UnbrokenAt
      <4>2. produced[s] - taken[s] = 0 /\ sent[s] = size[s]
        BY <2>3 DEF RecvEof, Unread, Accounted, AccountedAt
      <4>3. QED
        BY <4>1, <4>2 DEF WholeStream, TypeOK
    <3>2. QED
      BY <1>1, <1>2, <2>1, <2>3, <3>1
         DEF RecvEof, GoTo, UnbrokenAt, WholeStream, TypeOK, shutVars, flowVars
  <2>4. ~RecvError(s)
    BY <1>1 DEF RecvError, Broken
  <2>5. CASE SendData(s)
    <3>1. \A x \in Side \ {s} : sent'[x] = sent[x]
      <4>1. PICK n \in 1..(size[s] - sent[s]) : sent' = [sent EXCEPT ![s] = sent[s] + n]
        BY <2>5, SendAppends
      <4>2. QED
        BY <4>1 DEF TypeOK
    <3>2. QED
      BY <1>1, <1>2, <2>1, <2>5, <3>1 DEF SendData, UnbrokenAt, WholeStream, TypeOK, shutVars
  <2>6. CASE SendAllReturns(s)
    BY <1>1, <1>2, <2>1, <2>6 DEF SendAllReturns, GoTo, UnbrokenAt, WholeStream, TypeOK, shutVars, flowVars
  <2>7. ~SendError(s)
    BY <1>1, OtherSide DEF SendError, SendFails, UnbrokenAt, Broken
  <2>8. CASE ShutStep(s)
    <3>1. ~ForwardError(s) /\ ~AbortSource(s) /\ ~AbortDest(s)
      BY <1>1 DEF ForwardError, AbortSource, AbortDest, UnbrokenAt
    <3>2. relay[s] = "eof" /\ relay' = [relay EXCEPT ![s] = "done"]
      BY <2>8, <3>1 DEF ShutStep, ForwardEof, GoTo
    <3>3. wrShut' = [wrShut EXCEPT ![Other(s)] = TRUE] /\ UNCHANGED <<rdShut, flowVars>>
      BY <2>8, <3>1 DEF ShutStep, ForwardEof, EofShut
    <3>4. WholeStream(r)' <=> WholeStream(r)
      BY <2>1, <3>3 DEF WholeStream, flowVars
    <3>5. CASE r = s
      BY <1>1, <3>2, <3>3, <3>4, <3>5 DEF UnbrokenAt, TypeOK
    <3>6. CASE r # s
      <4>1. Other(r) # Other(s) /\ Other(r) \in Side
        BY <3>6, OtherSide
      <4>2. relay'[r] = relay[r] /\ wrShut'[Other(r)] = wrShut[Other(r)]
        BY <3>2, <3>3, <3>6, <4>1 DEF TypeOK
      <4>3. QED
        BY <1>1, <3>3, <3>4, <4>2 DEF UnbrokenAt
    <3>7. QED
      BY <3>5, <3>6
  <2>9. QED
    BY <1>4, <2>2, <2>3, <2>4, <2>5, <2>6, <2>7, <2>8 DEF Relay
<1>5. CASE Owner
  <2>1. CASE StopExchange
    BY <2>1 DEF StopExchange, Broken
  <2>2. ~StopShutClient /\ ~StopShutUpstream
    BY <1>1 DEF StopShutClient, StopShutUpstream, OwnerStep, Locking, Broken
  <2>3. QED
    BY <1>3, <1>5, <2>1, <2>2 DEF Owner, ownerRest, AskReap, StopLock, Join, peerVars
<1>6. ASSUME NEW s \in Side, Peer(s) PROVE UnbrokenAt(r)'
  <2>1. UNCHANGED <<flowVars, shutVars, relay>>
    BY <1>6 DEF Peer, PeerStep
  <2>2. CASE PeerSend(s)
    BY <1>1, <2>1, <2>2 DEF PeerSend, UnbrokenAt, WholeStream, TypeOK, flowVars, shutVars
  <2>3. CASE PeerFin(s)
    BY <1>1, <2>1, <2>3 DEF PeerFin, UnbrokenAt, WholeStream, TypeOK, flowVars, shutVars
  <2>4. CASE PeerReset(s) \/ PeerRead(s)
    BY <1>3, <2>1, <2>4 DEF PeerReset, PeerRead, peerVars
  <2>5. QED
    BY <1>6, <2>2, <2>3, <2>4 DEF Peer, PeerStep
<1>7. QED
  BY <1>3, <1>4, <1>5, <1>6, StepCases DEF Run, AskStop, ownerRest, peerVars, vars
-----------------------------------------------------------------------------
LEMMA LockStep ==
  TypeOK /\ Locking /\ Closing /\ [Next]_vars => Locking' /\ Closing'
<1> SUFFICES ASSUME TypeOK, Locking, Closing, [Next]_vars PROVE Locking' /\ Closing'
  OBVIOUS
<1> USE DEF Locking, Closing, fdVars, ownerVars
<1>1. CASE UNCHANGED <<mutex, worker, owner, stopping, relay, fdVars, stray>>
  BY <1>1
<1>2. ASSUME NEW s \in Side, Relay(s) PROVE Locking' /\ Closing'
  <2>1. UNCHANGED <<mutex, worker, owner, stopping, fdVars>>
    BY <1>2 DEF Relay
  <2>2. relay[s] # "done"
    BY <1>2 DEF Relay, RecvData, RecvEof, RecvError, SendData, SendAllReturns, SendError,
       ShutStep, ForwardEof, ForwardError, AbortSource, AbortDest
  <2>3. worker = "join" /\ \A x \in Side : open[x]
    BY <2>2 DEF Side
  <2>4. ~stray'
    BY <1>2, <2>3, OtherSide DEF Relay, RecvData, RecvEof, RecvError, SendData, SendAllReturns,
       SendError, ShutStep, ForwardEof, ForwardError, AbortSource, AbortDest, Touch
  <2>5. QED
    BY <2>1, <2>3, <2>4
<1>3. CASE Run
  <2>1. UNCHANGED <<relay, ownerVars, stray>>
    BY <1>3 DEF Run
  <2>2. CASE JoinRelays
    BY <2>1, <2>2 DEF JoinRelays, WorkerStep
  <2>3. CASE CloseOne("client", "closeClient", "clearClient")
    <3>1. /\ worker = "closeClient" /\ worker' = "clearClient"
          /\ open' = [open EXCEPT !["client"] = FALSE] /\ UNCHANGED <<handle, mutex>>
      BY <2>3 DEF CloseOne, WorkerStep, TypeOK
    <3>2. ~open'["client"] /\ open'["upstream"] = open["upstream"]
      BY <3>1 DEF TypeOK, Side
    <3>3. QED
      BY <2>1, <3>1, <3>2
  <2>4. CASE ClearOne("client", "clearClient", "closeUpstream")
    BY <2>1, <2>4 DEF ClearOne, WorkerStep, TypeOK, Side
  <2>5. CASE CloseOne("upstream", "closeUpstream", "clearUpstream")
    <3>1. /\ worker = "closeUpstream" /\ worker' = "clearUpstream"
          /\ open' = [open EXCEPT !["upstream"] = FALSE] /\ UNCHANGED <<handle, mutex>>
      BY <2>5 DEF CloseOne, WorkerStep, TypeOK
    <3>2. ~open'["upstream"] /\ open'["client"] = open["client"]
      BY <3>1 DEF TypeOK, Side
    <3>3. QED
      BY <2>1, <3>1, <3>2
  <2>6. CASE ClearOne("upstream", "clearUpstream", "finish")
    BY <2>1, <2>6 DEF ClearOne, WorkerStep, TypeOK, Side
  <2>7. CASE Finish
    BY <2>1, <2>7 DEF Finish, WorkerStep
  <2>8. QED
    BY <1>3, <2>2, <2>3, <2>4, <2>5, <2>6, <2>7 DEF Run, CloseSockets
<1>4. CASE AskStop \/ Owner
  <2>1. UNCHANGED <<relay, worker, fdVars>>
    BY <1>4 DEF AskStop, Owner, ownerRest
  <2>2. CASE AskStop
    BY <2>1, <2>2 DEF AskStop, OwnerStep
  <2>3. CASE AskReap
    BY <2>1, <2>3 DEF AskReap, OwnerStep
  <2>4. CASE StopExchange
    BY <2>1, <2>4 DEF StopExchange, OwnerStep
  <2>5. CASE StopLock
    BY <2>1, <2>5 DEF StopLock, LockAvailable, OwnerStep
  <2>6. ASSUME NEW s \in Side, ShutMember(s), mutex = "owner" PROVE ~stray'
    <3>1. mutex # "worker"
      BY <2>6
    <3>2. handle[s] => open[s]
      BY <3>1 DEF Side, TypeOK, WorkerStates
    <3>3. QED
      BY <2>6, <3>2 DEF ShutMember, Touch
  <2>7. CASE StopShutClient
    BY <2>1, <2>6, <2>7 DEF StopShutClient, OwnerStep, Side
  <2>8. CASE StopShutUpstream
    BY <2>1, <2>6, <2>8 DEF StopShutUpstream, OwnerStep, Side
  <2>9. CASE Join
    BY <2>1, <2>9 DEF Join, JoinReturns, OwnerStep
  <2>10. QED
    BY <1>4, <2>2, <2>3, <2>4, <2>5, <2>7, <2>8, <2>9 DEF Owner
<1>5. ASSUME NEW s \in Side, Peer(s) PROVE Locking' /\ Closing'
  BY <1>1, <1>5 DEF Peer, PeerStep
<1>6. QED
  BY <1>1, <1>2, <1>3, <1>4, <1>5, StepCases DEF vars

LEMMA IInvStep == IInv /\ [Next]_vars => IInv'
BY TypeStep, AccountedStep, OrderStep, UnbrokenStep, LockStep DEF IInv

LEMMA SpecIInv == Spec => []IInv
BY InitInv, IInvStep, PTL DEF Spec
-----------------------------------------------------------------------------
LEMMA IInvCompleteAtEnd == IInv => CompleteAtEnd
<1> SUFFICES ASSUME IInv, NEW s \in Side, wrShut[Other(s)], ~Broken
             PROVE  fin[s] /\ Len(out[Other(s)]) = produced[s]
  BY DEF CompleteAtEnd
<1>1. WholeStream(s) /\ AccountedAt(s)
  BY DEF IInv, Unbroken, UnbrokenAt, Accounted
<1>2. taken[s] \in Nat /\ size[s] \in Nat
  BY DEF IInv, TypeOK
<1>3. QED
  BY <1>1, <1>2 DEF WholeStream, AccountedAt

(* The relay's buffer is never overrun and every variable keeps its type.  *)
THEOREM TypeCorrect == Spec => []TypeOK
BY SpecIInv, PTL DEF IInv

(* Each peer receives a prefix of what the other one wrote, however recv   *)
(* and send split the stream and whatever else happens to the session.     *)
THEOREM PrefixDelivered == Spec => []InOrder
BY SpecIInv, PTL DEF IInv

(* A peer told that the stream is over has all of it, unless the session   *)
(* was reset or stopped.                                                   *)
THEOREM WholeStreamAtEnd == Spec => []CompleteAtEnd
BY IInvCompleteAtEnd, SpecIInv, PTL

(* No call reaches a descriptor the session has closed.                    *)
THEOREM DescriptorsOwned == Spec => []OwnDescriptors
BY SpecIInv, PTL DEF IInv, Closing, OwnDescriptors

(* A destroyed session has no thread left and both sockets closed.         *)
THEOREM NothingLeft == Spec => []GoneLeavesNothing
<1>1. IInv => GoneLeavesNothing
  BY DEF IInv, Locking, Closing, GoneLeavesNothing, Side, TypeOK
<1>2. QED
  BY <1>1, SpecIInv, PTL
-----------------------------------------------------------------------------
(* The steps of BytePipe for the direction that starts at s.               *)
PipeMove(s) ==
  LET d == Other(s) IN
  \/ UNCHANGED <<produced[s], fin[s], out[d], wrShut[d], Broken>>
  \/ /\ ~fin[s] /\ produced'[s] = produced[s] + 1
     /\ UNCHANGED <<fin[s], out[d], wrShut[d], Broken>>
  \/ /\ ~fin[s] /\ fin'[s] = TRUE
     /\ UNCHANGED <<produced[s], out[d], wrShut[d], Broken>>
  \/ /\ ~wrShut[d]
     /\ \E n \in 1..(produced[s] - Len(out[d])) :
          out'[d] = out[d] \o [i \in 1..n |-> Len(out[d]) + i]
     /\ UNCHANGED <<produced[s], fin[s], wrShut[d], Broken>>
  \/ /\ ~wrShut[d] /\ wrShut'[d] = TRUE
     /\ Broken \/ (fin[s] /\ Len(out[d]) = produced[s])
     /\ UNCHANGED <<produced[s], fin[s], out[d], Broken>>
  \/ /\ Broken' = TRUE
     /\ UNCHANGED <<produced[s], fin[s], out[d], wrShut[d]>>

LEMMA EveryStepIsAPipeMove ==
  ASSUME IInv, IInv', [Next]_vars, NEW s \in Side
  PROVE  PipeMove(s)
<1> DEFINE d == Other(s)
<1>1. TypeOK /\ TypeOK' /\ CompleteAtEnd' /\ d \in Side
  <2>1. CompleteAtEnd'
    BY IInvCompleteAtEnd, PTL
  <2>2. QED
    BY <2>1, OtherSide DEF IInv
<1>2. ASSUME UNCHANGED <<produced, fin, out, Broken>>, wrShut[d] => wrShut'[d]
      PROVE  PipeMove(s)
  <2>1. CASE wrShut[d] <=> wrShut'[d]
    BY <1>1, <1>2, <2>1 DEF PipeMove, TypeOK
  <2>2. CASE ~wrShut[d] /\ wrShut'[d]
    <3>1. Broken \/ (fin[s] /\ Len(out[d]) = produced[s])
      BY <1>1, <1>2, <2>2 DEF CompleteAtEnd
    <3>2. QED
      BY <1>1, <1>2, <2>2, <3>1 DEF PipeMove, TypeOK
  <2>3. QED
    BY <1>2, <2>1, <2>2
<1>3. CASE UNCHANGED <<produced, fin, out, shutVars, rst, stopping>>
  BY <1>2, <1>3 DEF Broken, shutVars
<1>4. ASSUME NEW x \in Side, Relay(x) PROVE PipeMove(s)
  <2>1. UNCHANGED <<produced, fin, stopping>>
    BY <1>4 DEF Relay, peerVars, ownerVars
  <2>2. CASE RecvError(x) \/ SendError(x)
    <3>1. UNCHANGED <<out, shutVars>>
      BY <2>2 DEF RecvError, SendError, flowVars
    <3>2. Broken' = Broken
      <4>1. CASE RecvError(x)
        BY <1>1, <4>1 DEF RecvError, Broken, TypeOK
      <4>2. CASE SendError(x) /\ rst[Other(x)] = "pending"
        BY <1>1, <4>2, OtherSide DEF SendError, Broken, TypeOK
      <4>3. CASE SendError(x) /\ rst[Other(x)] # "pending"
        BY <1>1, <2>1, <4>3 DEF SendError, Broken, TypeOK
      <4>4. QED
        BY <2>2, <4>1, <4>2, <4>3
    <3>3. QED
      BY <1>2, <2>1, <3>1, <3>2 DEF shutVars
  <2>3. CASE SendData(x) /\ x # s
    <3>1. Other(x) # d /\ Other(x) \in Side
      BY <2>3, OtherSide
    <3>2. out'[d] = out[d]
      <4>1. PICK n \in SendSizes(x) : out' = [out EXCEPT ![Other(x)] = @ \o Chunk(x, n)]
        BY <2>3 DEF SendData
      <4>2. QED
        BY <1>1, <3>1, <4>1 DEF TypeOK
    <3>3. UNCHANGED <<wrShut, Broken>>
      BY <2>1, <2>3 DEF SendData, Broken, shutVars
    <3>4. QED
      BY <2>1, <3>2, <3>3 DEF PipeMove
  <2>4. CASE SendData(x) /\ x = s
    <3>1. PICK n \in 1..(size[s] - sent[s]) :
            out' = [out EXCEPT ![d] = out[d] \o [i \in 1..n |-> Len(out[d]) + i]]
      BY <2>4, SendAppends DEF IInv
    <3>2. n \in 1..(produced[s] - Len(out[d]))
      <4>1. Len(out[d]) = taken[s] - size[s] + sent[s] /\ taken[s] <= produced[s]
        BY DEF IInv, Accounted, AccountedAt
      <4>2. /\ taken[s] \in Nat /\ size[s] \in Nat /\ sent[s] \in Nat /\ produced[s] \in Nat
            /\ n \in Nat
        BY <1>1 DEF TypeOK
      <4>3. QED
        BY <4>1, <4>2
    <3>3. out'[d] = out[d] \o [i \in 1..n |-> Len(out[d]) + i]
      BY <1>1, <3>1 DEF TypeOK
    <3>4. ~wrShut[d] /\ UNCHANGED <<wrShut, Broken>>
      BY <2>1, <2>4 DEF SendData, SendFails, Broken, shutVars
    <3>5. QED
      BY <2>1, <3>2, <3>3, <3>4 DEF PipeMove
  <2>5. CASE ShutStep(x)
    <3>1. UNCHANGED <<out, rst>>
      BY <2>5 DEF ShutStep, flowVars
    <3>2. wrShut[d] => wrShut'[d]
      BY <1>1, <2>5, OtherSide DEF ShutStep, ForwardEof, ForwardError, AbortSource, AbortDest,
         EofShut, ErrorShut, ShutBoth, TypeOK
    <3>3. QED
      BY <1>2, <2>1, <3>1, <3>2 DEF Broken
  <2>6. QED
    BY <1>3, <1>4, <2>1, <2>2, <2>3, <2>4, <2>5
       DEF Relay, RecvData, RecvEof, SendAllReturns, flowVars
<1>5. CASE Owner
  <2>1. UNCHANGED <<produced, fin, out, rst>>
    BY <1>5 DEF Owner, ownerRest, peerVars, flowVars
  <2>2. CASE StopExchange
    BY <2>1, <2>2 DEF StopExchange, PipeMove, Broken, shutVars
  <2>3. ASSUME NEW x \in Side, ShutMember(x), UNCHANGED stopping PROVE PipeMove(s)
    <3>1. wrShut[d] => wrShut'[d]
      <4>1. wrShut' = wrShut \/ wrShut' = [wrShut EXCEPT ![x] = TRUE]
        BY <2>3 DEF ShutMember, ShutBoth, shutVars
      <4>2. QED
        BY <1>1, <4>1 DEF TypeOK
    <3>2. QED
      BY <1>2, <2>1, <2>3, <3>1 DEF Broken
  <2>4. QED
    BY <1>3, <1>5, <2>1, <2>2, <2>3 DEF Owner, AskReap, StopLock, StopShutClient,
       StopShutUpstream, Join, Side
<1>6. ASSUME NEW x \in Side, Peer(x) PROVE PipeMove(s)
  <2>1. UNCHANGED <<out, wrShut, stopping>>
    BY <1>6 DEF Peer, PeerStep, flowVars, shutVars, ownerVars
  <2>2. CASE PeerSend(x)
    BY <1>1, <2>1, <2>2 DEF PeerSend, PipeMove, Broken, TypeOK
  <2>3. CASE PeerFin(x)
    BY <1>1, <2>1, <2>3 DEF PeerFin, PipeMove, Broken, TypeOK
  <2>4. CASE PeerReset(x)
    <3>1. Broken'
      BY <1>1, <2>4 DEF PeerReset, Broken, TypeOK
    <3>2. QED
      BY <2>1, <2>4, <3>1 DEF PeerReset, PipeMove, peerVars
  <2>5. CASE PeerRead(x)
    BY <2>1, <2>5 DEF PeerRead, PipeMove, Broken
  <2>6. QED
    BY <1>6, <2>2, <2>3, <2>4, <2>5 DEF Peer, PeerStep
<1>7. QED
  BY <1>3, <1>4, <1>5, <1>6, StepCases
     DEF Run, AskStop, ownerRest, peerVars, flowVars, ownerVars, vars

(* A session implements a byte pipe in each direction.                     *)
THEOREM SessionIsPipe == Spec => IsPipe
<1>1. Init => Request!PipeInit /\ Answer!PipeInit
  BY DEF Init, Each, Side, Broken, Request!PipeInit, Answer!PipeInit
<1>2. IInv /\ IInv' /\ [Next]_vars => [Request!PipeNext]_(Request!pipe)
  <2> SUFFICES ASSUME IInv, IInv', [Next]_vars PROVE [Request!PipeNext]_(Request!pipe)
    OBVIOUS
  <2>1. PipeMove("client") /\ Other("client") = "upstream"
    BY EveryStepIsAPipeMove DEF Side, Other
  <2>2. QED
    BY <2>1 DEF PipeMove, Request!PipeNext, Request!Write, Request!Close, Request!Deliver,
       Request!End, Request!Cut, Request!pipe
<1>3. IInv /\ IInv' /\ [Next]_vars => [Answer!PipeNext]_(Answer!pipe)
  <2> SUFFICES ASSUME IInv, IInv', [Next]_vars PROVE [Answer!PipeNext]_(Answer!pipe)
    OBVIOUS
  <2>1. PipeMove("upstream") /\ Other("upstream") = "client"
    BY EveryStepIsAPipeMove DEF Side, Other
  <2>2. QED
    BY <2>1 DEF PipeMove, Answer!PipeNext, Answer!Write, Answer!Close, Answer!Deliver,
       Answer!End, Answer!Cut, Answer!pipe
<1>4. QED
  BY <1>1, <1>2, <1>3, SpecIInv, PTL
     DEF Spec, IsPipe, Request!PipeSpec, Answer!PipeSpec
-----------------------------------------------------------------------------
(* The contract with the owner.  It rests on one more invariant: a worker  *)
(* that Join can find ended has published that the session is finished.    *)
Published == worker = "exit" => finished

LEMMA PublishedStep == Published /\ [Next]_vars => Published'
<1> SUFFICES ASSUME Published, [Next]_vars PROVE Published'
  OBVIOUS
<1> USE DEF Published
<1>1. CASE UNCHANGED <<worker, finished>>
  BY <1>1
<1>2. CASE Run
  <2>1. CASE JoinRelays
    BY <2>1 DEF JoinRelays, WorkerStep
  <2>2. CASE CloseSockets
    BY <2>2 DEF CloseSockets, CloseOne, ClearOne, WorkerStep
  <2>3. CASE Finish
    BY <2>3 DEF Finish
  <2>4. QED
    BY <1>2, <2>1, <2>2, <2>3 DEF Run
<1>3. QED
  BY <1>1, <1>2, StepCases DEF Relay, AskStop, Owner, ownerRest, Peer, PeerStep, vars

LEMMA AlwaysPublished == Spec => []Published
<1>1. Init => Published
  BY DEF Init, Published
<1>2. QED
  BY <1>1, PublishedStep, PTL DEF Spec

(* A step of the session is a step of its life as the owner sees it.       *)
LEMMA EveryStepKeepsContract ==
  ASSUME Published, [Next]_vars
  PROVE  [Contract!LifeNext]_(Contract!lifeVars)
<1> USE DEF Contract!LifeNext, Contract!lifeVars, SessionHold
<1>1. CASE UNCHANGED <<finished, ownerVars>>
  BY <1>1 DEF ownerVars
<1>2. CASE Run
  <2>1. UNCHANGED ownerVars
    BY <1>2 DEF Run
  <2>2. CASE finished' = finished
    BY <1>1, <2>1, <2>2
  <2>3. CASE Finish
    BY <2>1, <2>3 DEF Finish, ownerVars, Contract!Finish
  <2>4. QED
    BY <1>2, <2>2, <2>3 DEF Run, JoinRelays, CloseSockets, CloseOne, ClearOne
<1>3. CASE AskStop
  BY <1>3 DEF AskStop, ownerRest, OwnerStep, Contract!AskStop
<1>4. CASE Owner
  <2>1. UNCHANGED finished
    BY <1>4 DEF Owner, ownerRest
  <2>2. CASE Join
    <3>1. finished
      BY <2>2 DEF Join, JoinReturns, Published
    <3>2. QED
      BY <2>1, <2>2, <3>1 DEF Join, OwnerStep, Contract!Join, Contract!Destroy
  <2>3. CASE AskReap \/ StopExchange \/ StopLock \/ StopShutClient \/ StopShutUpstream
    BY <2>1, <2>3 DEF AskReap, StopExchange, StopLock, StopShutClient, StopShutUpstream, OwnerStep
  <2>4. QED
    BY <1>4, <2>2, <2>3 DEF Owner
<1>5. QED
  BY <1>1, <1>2, <1>3, <1>4, StepCases DEF Relay, Peer, PeerStep, vars

(* A session is what its owner takes it for.                               *)
THEOREM SessionKeepsContract == Spec => KeepsContract
<1>1. Init => Contract!LifeInit
  BY DEF Init, SessionHold, Contract!LifeInit
<1>2. QED
  BY <1>1, EveryStepKeepsContract, AlwaysPublished, PTL DEF Spec, KeepsContract, Contract!LifeSpec
=============================================================================
