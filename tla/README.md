# PortForwardX in TLA+

A model of PortForwardX (`src/`), the TCP/UDP port forwarder: modules translated
from its C++, TLC runs over small instances, and TLAPS proofs of every safety
property that the passing runs check, for all values of the constants.
Line numbers refer to the files under `src/src/` unless another directory is named.

## 1. Inventory

| component | state | operations | interacts with |
|---|---|---|---|
| `ForwardSession` (`net/forward_session.cpp`) | two descriptors, `stopping_`, `finished_`, `socket_mutex_`, worker thread, two relay threads with a 16 KiB buffer each | `Start`, `Stop`, `Join`, `IsFinished`, destructor; `Run`, `RelayOneDirection`, `SendAll`, `CloseSockets` | peers through the kernel; its owner, `AcceptLoop` or `Impl::Stop` |
| UDP sessions (`net/forwarder.cpp:449-714`) | `udp_sessions_`; per session a socket, a reply thread, `marked_for_close`, `last_active_ms`; `last_udp_cleanup_ms_` | `UdpLoop`, `GetOrCreateUdpSession`, `UdpUpstreamToClientLoop`, `CleanupIdleUdpSessions` | clients on the shared listening socket, the target, `Impl::Stop` |
| targets (`net/forwarder.cpp:50-68,99-172,369-447`, `net/dns_resolver.cpp`) | `target_endpoints_` under its mutex, the resolver thread's count | `ResolveTargetEndpoints`, `ResolverLoop`, `TargetEndpointsSnapshot`, `SortEndpoints`, `ConnectToEndpoints`, `CreateUdpSocketForEndpoint` | DNS; `AcceptLoop` and `UdpLoop` take snapshots |
| forwarder (`net/forwarder.cpp:222-361,716-860`) | `running_`, `listen_socket_`, three threads, `sessions_`, `session_peers_`; the facade's own `running_` | `Start`, `Stop`, `AcceptLoop`, `CleanupFinishedSessions` | owns all of the above |
| `main` (`main.cpp`) | the stop flag, one or two forwarders | options to configuration, start both with rollback, wait, stop | signals, forwarders |
| socket layer (`net/socket_platform.cpp`) | none | thin wrappers of system calls | everyone |

What is hard in it: four kinds of threads share plain-`int` descriptors that the
kernel hands out again after a close; blocking `recv`, `send`, `recvfrom`, `accept`
and `connect` that only a shutdown or a timeout ends; half-closed TCP streams;
resets and partial sends; DNS that fails or changes while clients connect; unsigned
clock arithmetic; a signal that may find the program in the middle of a start, of an
accept or of a connect. `PROJECT.json` lists each hazard at its line with the property
that covers it, or the reason none does.

What makes each component correct:

- session: both directions are byte pipes; an end of stream is passed on after the
  last byte; closed descriptors are not used; stopping always ends it; nothing survives it.
- UDP sessions: one live session per client; replies come from the session's own
  socket; no descriptor is leaked or closed twice; dead and idle sessions go, active ones stay.
- targets: never empty and of the right family while running; refreshed on time;
  tried in order of preference.
- forwarder and main: a start that fails leaves nothing, a running forwarder serves until it
  is stopped, every session is started, stopped, joined and destroyed in that order and
  stays reachable, a signal always ends the program, which leaves nothing.

## 2. Modules

| module | models | granularity |
|---|---|---|
| `BytePipe` | abstract specification: one direction of a connection, written bytes come out once and in order, the end after the last byte unless the pipe was cut | put in, take out, close, end, cut |
| `RelaySession` | one `ForwardSession` with both peers and its owner | one action per socket call or lock step |
| `MCRelaySession` | values of `MaxBytes` | |
| `RelaySessionProofs` | the theorems about `RelaySession` | |
| `SessionLife` | abstract specification: a session object as its owner sees it, and what the owner owes it | create, begin, finish, stop, join, destroy |
| `Forwarder` | facade and `Impl` of both forwarders: `Start`, `Stop`, `AcceptLoop`, `CleanupFinishedSessions` | one action per system call, critical section or access to shared state |
| `Main` | `main`: starts with rollback, signal, stops, destructors; composes the forwarders; specification and properties of the whole | one action per call or return |
| `MainProofs` | theorems about `Main`: typing, the sessions and their contract | |
| `MainStopProofs` | theorems about `Main`: what a forwarder has while it serves, and what it leaves | |
| `UdpSessions` | `UdpLoop`, the reply threads, cleanup and `Impl::Stop` of a UDP forwarder | one action per system call or access to shared state |
| `MCUdpSessions` | the symmetry of `UdpSessions` | |
| `UdpHalf` | abstract specification: the UDP half as the thread that starts and stops it sees it | store, spawn, open, close, ask to stop, end, join, return |
| `UdpSessionsProofs` | the theorems about `UdpSessions` | |
| `UdpIdle` | the clock of one UDP session | one action per read or write of `last_active_ms` |
| `UdpIdleProofs` | the theorems about `UdpIdle` | |
| `Targets` | families, DNS refresh, snapshots, choice of an endpoint | one action per step of the resolver and accept threads |
| `MCTargets` | three addresses and the answers DNS gives | |
| `TargetsProofs` | the theorems about `Targets`, first that `SortEndpoints` sorts | |

A definition whose comment begins "Slip" (or that stands directly under such a
comment) is a faulty variant of the definition below it, kept to show that a
property notices that fault; the specifications never use it.

### RelaySession

A byte is its position in the stream of the peer that wrote it, so `out[s]`, what
the relay has sent to peer `s`, shows loss, repetition and reordering at once.
`relay[s]` is the thread that reads `s`: `RecvData`, `RecvEof`, `RecvError` are
`Recv` (line 25) by its three results; `SendData`, `SendAllReturns`, `SendError` are
`SendAll` (10-20) with any partial send; `ForwardEof`, `ForwardError`, `AbortSource`,
`AbortDest` are the exits (26-38), one shutdown each. `JoinRelays`, `CloseOne`,
`ClearOne`, `Finish` are `Run` and `CloseSockets`: closing a descriptor and resetting
the member are two steps. `AskStop` and `AskReap` are the two ways an owner begins (`Impl::Stop`,
`CleanupFinishedSessions`); after its `Join` the destructor runs `Stop` and `Join` again.

The kernel is modelled as Linux TCP: queued bytes come before an end or an error; a
pending reset is returned once and reads as an end afterwards; a send after a local
`SHUT_WR` or a reset fails; send blocks while the path to the peer is full (`SockCap`).
A pending ECONNRESET is returned by send without a signal, EPIPE raises SIGPIPE;
`SigpipeKills` decides what SIGPIPE does. Data that arrives after a local `SHUT_RD`
makes the kernel reset the connection, which is the action `PeerReset`. A reset that has reached a
socket discards nothing that was already queued; the properties about completeness
exempt a reset session.

### UdpSessions

A slot is a `UdpSession` object. Descriptors are numbers with an owner: a slot,
`Other` (opened elsewhere in the process), or nobody. The reply thread's `recvfrom`
is three steps, because the number it read (`ReadSocket`) may be closed, and even
reopened by someone else, before the kernel looks it up (`CallReceive`). `Scan` is the
critical section of `CleanupIdleUdpSessions`; close, reset and join of each session
follow one by one. `UdpLoop` enters `recvfrom` with the number in `listen_socket_`
(`EnterReceive`): once `Stop` has closed the socket that number is refused, or is a socket that
another thread has opened since. A datagram takes the loop through the lookup (`Known`), or the
making of an object and its socket (`Create`), the insertion (`Insert`) and the start of the
reply thread (`Spawn`), to the `sendto` (`Forward`); `forwarding` is the session in hand. `Discard`
is the branch of the insertion that finds an entry (573-576); the proofs show that it is
never taken, as only `UdpLoop` inserts. A reply thread's `sendto` reads `listen_socket_` too
(`SendToClient`). Time is abstract here: a cleanup may be due, and any session idle, at any moment.

### UdpIdle

One session with real (small) numbers: `clock`, `lastCleanup`, the local `now`, the two
loads of `last_active_ms` (lines 668 and 669), and the reply thread's stamp taken before
it is stored. Subtractions wrap at `Modulus`. The relaxed atomics are modelled as
sequentially consistent: a single location is read twice. One idealisation bounds the clock:
`Tick` lets at most one receive timeout pass in one whole iteration of `UdpLoop`, the steps
other than the receive being taken to need no time. So `ClosedInTime` is a bound for a machine that
is not overloaded.

### Targets

`ListenPreference` and `TargetPreference` are `main.cpp:115-169`, `TargetFamily` is
`EffectiveTargetFamily`. getaddrinfo's filtering by family and `SortEndpoints`' own are one operator, `Kept`.
The stable sort is defined by what it does: `Ahead` is the comparison of the source, and
`Place` the number of kept endpoints that come no later, those that tie keeping their order.
`RefreshInterval` keeps the 32-bit width of the source's product. Asking DNS and storing
the answer are separate steps; the store keeps the old list when the answer is useless.
The connecting thread is `AcceptLoop` (protocol `tcp`: socket and connect per endpoint)
or `UdpLoop` (protocol `udp`: the first endpoint that gets a socket). `TargetsUsable` shows
that the code's branches for an empty list of targets are never taken.

### Forwarder, Main and the session contract

`Forwarder` holds the state of both forwarders as functions of the protocol, `call[p]`
being the place that the facade call of `p` has reached, and `loop[p]` the control state of
`accept_thread_` (modelled in full) or `udp_thread_`. `Main` calls `FacadeStart` and
`FacadeStop` and waits until `call[p]` is `"none"` again; `todo` is what the loop or the
vector of `main` has still to go through. The destructors call `Stop` once more.

- `StartResolve` to `Started` are `Impl::Start` (226-319): the endpoints are tried from the last
  number down, a socket of one that cannot be bound is closed, `listen_socket_` is set before
  `running_`, and that before the threads start; the facade's own `running_` comes last.
- `StopExchange`, `StopShut`, `StopClose`, `StopReset` are lines 322-328, one step each, because
  the accept thread reads `listen_socket_` (`ReadListening`) and enters `accept`
  (`EnterAccept`) between any of them. As on Linux, `shutdown` wakes a waiting `accept`
  (`AcceptWoken`), `close` does not, and a call on a closed number fails (`AcceptRefused`). When
  the number has been reused `accept` fails as well: no other socket of the program listens
  for TCP connections.
- `StopSession`, `JoinSession`, `StopClear` are lines 351-360, on the copy of the table that
  `StopSnapshot` took; `Insert` and `BeginSession` are lines 754-764, so that a session is in the
  table before it has a thread.
- `ReapScan`, `ReapJoin`, `ReapDone` are `CleanupFinishedSessions` with its lock, its joins and its log.

Four things stand for components that have modules of their own. The resolver thread runs
until it sees `running_` cleared (`Targets!ThreadsEnd`). A snapshot of the targets is never empty
(`Targets!TargetsUsable`). The UDP loop does so too, and opens no session and leaves none: `UdpHalf`
says that the loop ends only once `running_` is cleared and its last session closed, that it
alone opens and closes sessions, and that `Stop` returns after it. `UdpSessions` implements `UdpHalf`
(`KeepsPromise`), and `Main` implements the same without sessions (`UdpPromise`), so that what
`Main` does to a UDP forwarder is a behaviour that `UdpSessions` has been shown to keep to;
that the loop does end is `UdpSessions!StopReturns`. And a session is `SessionLife`: the theorem `SessionKeepsContract` shows that `RelaySession`
implements it for every value of its constants, `StopEnds` that a stopped session finishes, which `Main`
assumes as fairness, and `SessionContract` that the forwarder keeps its own half:
`Start` once and before `Stop`, `Join` before the last reference goes.

The loop that stops the forwarders after a failed UDP start (`main.cpp:219-221`) could be left out without
breaking a property: the destructors do the same.

## 3. Runs

| run | instance | shows |
|---|---|---|
| `RelaySafety` | 3 request bytes, 1 answer byte, buffer 2, send path 2 | `TypeOK`, `InOrder`, `CompleteAtEnd`, `OwnDescriptors`, `GoneLeavesNothing`, refinements `IsPipe` and `KeepsContract` |
| `RelayLive` | 2 bytes each way, buffer 1, send path 1 | `StopEnds`, `PeersEnd`, `Delivers` |
| `RelaySigpipe` | 1 byte each way, buffer 1, send path 1, SIGPIPE with its default action | violation of `EndsOnlyOnRequest` |
| `UdpSafety` | 3 clients, 3 objects, 3 descriptors, other threads open descriptors; symmetry | `TypeOK`, `NoneForgotten`, `SocketsOwned`, `StopLeavesNothing`, `NoCrossTalk`, refinement `KeepsPromise` |
| `UdpLive` | 2 clients, 2 objects, 2 descriptors, nobody else opens descriptors | `OwnReplies`, `StopReturns`, `DeadSessionGoes` |
| `UdpForeign` | 1 of each, other threads open descriptors | violation of `OwnReplies` |
| `UdpIdle` | timeout 3, interval 2, receive timeout 2, clock to 14, modulus 32 | `TypeOK`, `ClosedInTime`, `ClosedWhenIdle` |
| `UdpIdleRace` | the same | violation of `OnlyIdleIsClosed` |
| `Targets` | all modes, families, protocols; 3 addresses, 4 answers; 2 ticks per interval | `TypeOK`, `TargetsUsable`, `BestTarget`, `RefreshOnTime`, `DnsChangeReaches`, `ThreadsEnd` |
| `TargetsOverflow` | minutes whose milliseconds exceed the modulus | violation of `RefreshOnTime` |
| `Forwarder` | `tcp`, `udp` and both; up to 2 listen endpoints, 3 connected clients, any number that cannot be connected | `TypeOK`, `LeavesNothing`, `ServesUntilStopped`, `SessionsHeld`, refinement `SessionContract`, `SignalEnds`, `ReapedWithNext` |
| `ForwarderLog` | the same with 2 clients | violation of `DisconnectLogged` |

Why the bounds are enough. A request longer than the buffer makes several `recv`s and,
with a send path as small as the buffer, partial sends and blocking; one answer byte
keeps the other direction alive through every ending. For liveness a peer writes two bytes into
a path that holds one: until the other peer has read the first, `send` blocks on the second, in
either direction and in both at once, so that `StopEnds` meets a relay that waits in `send` and
`Delivers` needs peers that read (without them it fails). UDP sessions interact
through the descriptor table and the map alone: with three of each, one can be closing,
one being created and one running, and a number can change hands twice; symmetry is
sound there because only invariants and a refinement without fairness, which treats all
session objects alike, are checked; it is off for liveness. The clock runs
through more than one timeout plus two intervals. `MaxTime` ends the clock, not the threads.
In `Targets` an interval of two ticks has both a wake-up that is early and one that is due.

With three sessions one can be reaped, one run and one be on its way into the table when the
signal comes; with two endpoints one can fail before another is bound. Only successful
connections are bounded (`MaxSessions`); failed ones and failing accepts are not.

The five violations are disagreements between the code and what it says of itself, listed
under "findings" in `PROJECT.json`: SIGPIPE ends the process; a reply thread may read a
reused descriptor; an active UDP session may be closed as idle; a long refresh interval
wraps to a short one; while nobody asks the program to stop, a disconnected client is reported only
when another one connects. `ReapedWithNext`
states what does hold of the report. `ClosedWhenIdle` states what the idle test does guarantee;
`UdpLive` shows `OwnReplies` to hold as soon as no other thread opens descriptors, `NoCrossTalk`
says what holds even when they do (never the replies of another session), and `Targets` shows `RefreshOnTime` for intervals that fit.

### Fairness

Weak fairness for each thread of the process: the operating system schedules it whenever
it is not blocked. None for peers, clients, DNS or whoever calls `Stop`; nor, in `RelaySession`, for
the owner to stop or to reap the session (reaping takes another `accept`), only to go on once it has begun. `PeersEnd` and
`Delivers` additionally assume that peers go on reading (`Reading`), stated as part of the
property. `Delivers` does not count the `Stop` that the destructor of a finished session
makes as a cut, or it would excuse every lost byte. In `UdpSessions` a receive is never blocked for ever because both kinds of
socket have a 200 ms timeout (lines 281 and 558), so weak fairness of the loop is enough to
pass it; `Due` has strong fairness, since a loop that tests the 1000 ms interval again and again
finds it elapsed again and again (`UdpIdle` shows the bound). In `Targets` a `connect` and a
DNS query return in the end, as the kernel's own limits make them; `Main` assumes the same of
`connect` and of the resolution in `Start`. There the fairness of the accept thread excludes the
return of an `accept` that waits: no client has to come. A session that was stopped finishes (above);
one that was not need never finish.

## 4. Proofs

`RelaySessionProofs` proves for every `MaxBytes`, `BufSize`, `SockCap` and `SigpipeKills`
(assumption `RelayAssumption`: natural numbers, the last two sizes positive, a Boolean):

- `TypeCorrect`: `Spec => []TypeOK`
- `PrefixDelivered`: `Spec => []InOrder`
- `WholeStreamAtEnd`: `Spec => []CompleteAtEnd`
- `DescriptorsOwned`: `Spec => []OwnDescriptors`
- `NothingLeft`: `Spec => []GoneLeavesNothing`
- `SessionIsPipe`: `Spec => IsPipe`, the refinement of `BytePipe` in both directions
- `SessionKeepsContract`: `Spec => KeepsContract`, the refinement of `SessionLife`

None of the invariants is inductive alone. The inductive one, `IInv`, conjoins:

- `TypeOK` and `Accounted`: for each side, the bytes delivered to the other peer plus
  the unsent rest of the buffer are exactly the bytes received, and control states say
  how full the buffer is. This is what makes the next chunk continue `out` (`InOrder`).
- `Unbroken`: as long as neither a reset nor a stop has happened, a shut write half means
  that the relay feeding it saw the end of its stream with an empty buffer. This carries
  `CompleteAtEnd`: it excludes the error exits.
- `Locking`: who holds `socket_mutex_` in which control state, and `handle` and `open`
  agree except between close and reset, when the worker holds the mutex. With the joins
  it yields `OwnDescriptors`.
- `Closing`: once the worker has passed the joins both relays are done, and what the
  worker's state says about each descriptor; a destroyed session implies an exited worker
  (`GoneLeavesNothing`).

The proof splits `Next` into its actions once (`StepCases`), proves the typing and the
accounting step by step, then the rest on top of them. The refinement follows from
the invariant: each step of the session is a step of each pipe or leaves it unchanged
(`EveryStepIsAPipeMove`), `SendAppends` being the lemma that a send appends the next bytes.

The contract needs one more invariant, `Published`: a worker that has exited has stored
`finished_`, so what `Join` waits for is what `IsFinished` reports. It is inductive by itself.

`MainProofs` and `MainStopProofs` prove for every `Candidates` and `MaxSessions`
(assumption `ForwarderAssumption`: natural numbers), the two protocols being fixed:

- `ProgramTypeCorrect`: `Spec => []TypeOK`
- `SessionsAlwaysHeld`: `Spec => []SessionsHeld`
- `ForwarderKeepsContract`: `Spec => SessionContract`
- `NothingIsLeft`: `Spec => []LeavesNothing`
- `AlwaysServesUntilStopped`: `Spec => []ServesUntilStopped`

The first three rest on `SInv`:

- `OneCall`: main makes one facade call at a time, that of the first forwarder it has to deal with;
- `Numbers`: an endpoint number, a descriptor and a session number are real where they are used;
- `Ready`: the place a call has reached says whether the forwarder runs and whether it has a
  thread. So Stop reaches the sessions only after the accept thread has ended (`StopBehind`),
  and until then no session is stopped;
- `Known`: which sessions exist, that only the last one may still have to be started, and what
  the table, `reaping` and `stopList` hold at which point.

`LivedStep` then shows that each step is one step of `SessionLife`, or none, for every session.

The other two rest on `EInv`, which adds `Phases` (main starts and stops in different phases),
`Ends` (one socket from the bind to the close, both threads together, nothing listens after its
shutdown), `Emptied` (the accept thread ends with no descriptor in hand and only after a look
at `running_`) and `Served` (main still has every serving forwarder on its list, so that at the
exit none serves). Each has a lemma for a call's own entries and one, `OthersKept` or
`EndsOthers`, that says that a call leaves the other forwarder alone.

`UdpLoopKeepsPromise` is `Spec => UdpPromise`, the refinement of `UdpHalf` by what `Main` does to
the UDP loop. Of `SInv` it needs the types and `Ready`: a call that is about to spawn, clear or join finds
`running_` and the thread as `UdpHalf` wants them. No run checks `UdpPromise`.

`UdpSessionsProofs` proves for any sets of clients, session objects and descriptors, finite or
not, and both values of `ForeignFds` and `IdleCloses` (assumption `UdpAssumption`: the values that stand for
nobody are none of these):

- `TypeCorrect`, `SessionsKept`, `SocketsHaveOwners`, `NothingLeft`, `RepliesStayApart`: `Spec => []P` for
  `TypeOK`, `NoneForgotten`, `SocketsOwned`, `StopLeavesNothing`, `NoCrossTalk`
- `RepliesAreOwn`: `Spec => []OwnReplies` if `~ForeignFds`, the condition under which `UdpLive`
  checks it; `UdpForeign` shows it to be needed
- `HalfKeepsPromise`: `Spec => KeepsPromise`, the refinement of `UdpHalf`

The inductive invariant adds to the three invariants that it contains:

- `Control`: only a thread that is cleaning up holds sessions to close; the map is empty from the
  scan of the loop's last cleanup on;
- `Placed`: a session is in the map or being closed, not both, so that it is closed once;
- `Held`: a session has its socket until `ClearUpstream`, a free object has neither socket nor
  running reply thread;
- `Reading`: the number a reply thread carries into `recvfrom` is its own session's, or was, and then
  its session is the one being closed and the number belongs to no session. This is where the
  order of close and join matters: the loop that would open the next session waits in the
  join, so the number cannot become another session's socket before the thread has gone;
- `InHand`: the session that `UdpLoop` is making has no thread yet, and its client no entry when it
  comes to be inserted, so nothing is ever discarded there;
- `NoForeign`: without descriptors of other threads, no number has another owner.

The refinement adds `Ended`: `running_` is set exactly while nobody has called `Stop`, the loop reaches
its last cleanup only after that, and its end leaves nothing to close.

`UdpIdleProofs` proves for every timeout, cleanup interval, receive timeout and end of the clock
(assumption `UdpIdleAssumption`):

- `TypeCorrect`, `IdleSessionsGo`: `Spec => []P` for `TypeOK`, `ClosedInTime`
- `OnlyIdleSessionsGo`: `Spec => ClosedWhenIdle`

The assumption has two orders of constants the bound rests on: the receive timeout is at most the interval
(200 and 1000 ms, lines 281 and 646) and at most the timeout, which is given in seconds, unless
that is disabled; and `MaxTime + Timeout < Modulus`, a clock that does not wrap in 2^64 ms. The invariant has
`Prompt` (no loop is held up for longer than the receive timeout, which is what the clock's guard
says), `Between` and `During` (how old the stamp of a session can be between two cleanups and inside one) and
`Reads` (what the tests already passed tell of the locals). `SubExact` says that the unsigned
difference does not wrap where the comparison in front of it still holds.

`TargetsProofs` proves for any addresses, answers of DNS, families and intervals (assumption
`TargetsAssumption`, in which a minute is a whole number of ticks: 60000 and 200 ms):

- `TypeCorrect`, `AlwaysATarget`, `EndsWithTheBest`: `Spec => []P` for `TypeOK`, `TargetsUsable`, `BestTarget`
- `AsksOnTime`: `Spec => RefreshOnTime` if `Requested < Modulus`; `TargetsOverflow` shows that the code
  needs the condition

First the sort: for every sequence, the places of the endpoints it keeps are distinct
(`PlaceMonotonic`) and none is left out (`PlaceTaken`, by counting). `SortIsStable` concludes that
`SortEndpoints` meets the specification of `std::stable_sort`: a permutation, in order, ties as they
were. With IPv6 in front (`Sorted`) this is what the invariant needs of a list (`SortedIsGood`). The inductive
invariant says that every list, wherever it is kept, is such a sequence (`Lists`), that the threads
run only while there is a target (`Serving`), that what has been refused is what stands
before `next` (`Trying`), and that the resolver's count is that of its sleeps, each late by at
most `Late` (`Counting`).

Only model-checked: liveness, that is `StopEnds`, `PeersEnd`, `Delivers`, `StopReturns`,
`DeadSessionGoes`, `DnsChangeReaches`, `ThreadsEnd`, `SignalEnds` and `ReapedWithNext`. Temporal
reasoning under fairness needs ENABLED, which is out of the prover's reach. The properties of
the violation runs are false of the code.

## 5. Not modelled

The contents and sizes of datagrams (an empty one is one of the ways a receive ends),
packet counters, log texts (the report of a disconnected client excepted), option parsing
(`boost::program_options`, before any thread exists), Winsock and the `_WIN32` branches, socket
options, IPv6 dual-stack binding, threads that cannot be created, other relaxed-memory effects.
A forwarder started again after `Stop`, and facade calls from several threads at once, which
neither `main` nor a test makes.

Sender addresses: the socket of a UDP session is not connected, so it takes a datagram from any
sender, and the code forwards it like a reply of the target ("received from the target",
`docs/manual.md:147`). `OwnReplies` and `NoCrossTalk` speak of the socket a datagram
arrived at, not of who sent it.

While the program stops, `UdpLoop` or a reply thread may use the number of the listening socket after
another thread has been given it. The steps are in the model, but no property speaks of the one
datagram that goes astray, and `StopReturns` is checked without descriptors of other threads
(`UdpLive`): a `recvfrom` on a strange socket need not have a timeout.

Build files, scripts, third-party code and the version string have no behaviour to check.

## 6. Plan

None for the safety properties: each one that a passing run checks has a theorem. What remains
worth doing is to prove the facts without fairness that the liveness properties rest on, such as
that the thread which `Stop` waits for is never blocked for good: in `RelaySession`, that a relay whose two
sockets are shut down can always take its next step; in `Forwarder`, that an accept thread which
waits while `Stop` joins it has been shut down.
