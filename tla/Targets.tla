------------------------------- MODULE Targets -------------------------------
(***************************************************************************)
(* Where a forwarder sends its traffic (forwarder.cpp, main.cpp): the      *)
(* address family asked for, the list target_endpoints_ that Impl::Start   *)
(* and the resolver thread fill from DNS, and the thread that takes a      *)
(* snapshot of it for a new client and goes through it (ConnectToEndpoints *)
(* for TCP, CreateUdpSocketForEndpoint for UDP).                           *)
(* A definition marked "Slip" is a variant of the one below it.            *)
(***************************************************************************)
EXTENDS Integers, Sequences, FiniteSets

CONSTANTS Addresses,      \* the addresses that DNS can name
          FamilyOf,       \* [Addresses -> {"ipv4", "ipv6"}]
          Answers,        \* the answers of getaddrinfo, <<>> when it fails
          NoAddress,      \* no address
          Minutes,        \* --dns-refresh-min
          DefaultMinutes, \* 10
          MinuteMs,       \* 60 * 1000
          TickMs,         \* 200, one sleep of the resolver thread
          Late,           \* bound: by how much a sleep oversleeps
          Modulus         \* 2^32: the arithmetic of std::uint32_t

ASSUME TargetsAssumption ==
  /\ FamilyOf \in [Addresses -> {"ipv4", "ipv6"}] /\ NoAddress \notin Addresses
  /\ Answers \subseteq Seq(Addresses)
  /\ Minutes \in Nat /\ Late \in Nat
  /\ DefaultMinutes \in Nat \ {0} /\ MinuteMs \in Nat \ {0} /\ TickMs \in Nat \ {0}
  /\ MinuteMs % TickMs = 0
  /\ Modulus \in Nat \ {0}

VARIABLES
  mode, preference, protocol, \* --mode, --family, the protocol: never change
  dns,       \* what DNS answers now
  state,     \* of the forwarder: "off", "failed", "on" (running_), "stopped"
  resolver,  \* control state of the resolver thread
  elapsed,   \* its count of milliseconds
  waited,    \* the time that has passed since it last asked
  answer,    \* its local list of endpoints
  targets,   \* target_endpoints_
  conn,      \* control state of the thread that accepts clients
  snapshot, next, \* its copy of targets; the index it tries
  refused,   \* addresses that failed in this attempt
  upstream   \* the address the last attempt ended with, or NoAddress

settings == <<mode, preference, protocol>>
resolverVars == <<resolver, elapsed, waited, answer>>
connVars == <<conn, snapshot, next, refused, upstream>>
vars == <<settings, dns, state, resolverVars, targets, connVars>>

Init ==
  /\ mode \in {"custom", "server", "client"} /\ preference \in {"auto", "ipv4", "ipv6"}
  /\ protocol \in {"tcp", "udp"} /\ dns \in Answers /\ state = "off"
  /\ resolver = "exit" /\ elapsed = 0 /\ waited = 0 /\ answer = <<>> /\ targets = <<>>
  /\ conn = "exit" /\ snapshot = <<>> /\ next = 1 /\ refused = {} /\ upstream = NoAddress
-----------------------------------------------------------------------------
(* The family of the target: main.cpp per mode, then EffectiveTargetFamily *)

Or(f, default) == IF f = "auto" THEN default ELSE f

ListenPreference == CASE mode = "custom" -> preference
                      [] mode = "server" -> Or(preference, "ipv6")
                      [] mode = "client" -> "ipv4"
TargetPreference == CASE mode = "custom" -> preference
                      [] mode = "server" -> "auto"
                      [] mode = "client" -> Or(preference, "ipv6")

\* Slip: the legacy family applies whatever the listening side was given.
LegacyFamily == Or(TargetPreference, preference)
TargetFamily == Or(TargetPreference, IF ListenPreference = "auto" THEN preference ELSE "auto")

\* The endpoints of the family, all when there is none: it is a hint to
\* getaddrinfo, and SortEndpoints filters by it.
Kept(seq) == {i \in 1..Len(seq) : TargetFamily \in {"auto", FamilyOf[seq[i]]}}

\* The comparison of SortEndpoints.  Slip: it is turned round.
IPv4Ahead(e, d) == FamilyOf[e] = "ipv4" /\ FamilyOf[d] = "ipv6"
Ahead(e, d) == FamilyOf[e] = "ipv6" /\ FamilyOf[d] = "ipv4"

\* std::stable_sort: what is not ahead of one another stays in order.
NoLater(seq, i, j) == Ahead(seq[i], seq[j]) \/ (i <= j /\ ~Ahead(seq[j], seq[i]))
Place(seq, i) == Cardinality({j \in Kept(seq) : NoLater(seq, j, i)})
SortEndpoints(seq) == [n \in 1..Cardinality(Kept(seq)) |->
                         seq[CHOOSE i \in Kept(seq) : Place(seq, i) = n]]
-----------------------------------------------------------------------------
DnsChange == /\ dns' \in Answers \ {dns}
             /\ UNCHANGED <<settings, state, resolverVars, targets, connVars>>

\* Impl::Start resolves once, fails without a target, and starts the threads.
Start ==
  /\ state = "off" /\ targets' = SortEndpoints(dns)
  /\ IF targets' = <<>>
     THEN state' = "failed" /\ UNCHANGED <<resolver, conn>>
     ELSE state' = "on" /\ resolver' = "top" /\ conn' = "top"
  /\ UNCHANGED <<settings, dns, elapsed, waited, answer, snapshot, next, refused, upstream>>

Stop == /\ state = "on" /\ state' = "stopped"
        /\ UNCHANGED <<settings, dns, resolverVars, targets, connVars>>
-----------------------------------------------------------------------------
(* ResolverLoop.                                                           *)

Requested == (IF Minutes = 0 THEN DefaultMinutes ELSE Minutes) * MinuteMs
RefreshInterval == Requested % Modulus

\* Slip: the loops do not look at running_.
NotLooked == TRUE
Running == state = "on"

ResolverTop == /\ resolver = "top" /\ resolver' = IF Running THEN "sleep" ELSE "exit"
               /\ UNCHANGED <<elapsed, waited, answer, targets>>

Sleep == /\ resolver = "sleep" /\ resolver' = "wake"
         /\ \E late \in {0, Late} : waited' = waited + TickMs + late
         /\ UNCHANGED <<elapsed, answer, targets>>

\* Slip: one tick more than the interval.
OverDue == elapsed + TickMs > RefreshInterval
RefreshDue == elapsed + TickMs >= RefreshInterval
\* Slip: the count is not started again.
KeepCounting == elapsed' = elapsed + TickMs
Restart == elapsed' = 0

WakeStopped == /\ resolver = "wake" /\ ~Running /\ resolver' = "exit"
               /\ UNCHANGED <<elapsed, waited, answer, targets>>
WakeEarly == /\ resolver = "wake" /\ Running /\ ~RefreshDue /\ resolver' = "top"
             /\ elapsed' = elapsed + TickMs /\ UNCHANGED <<waited, answer, targets>>
WakeDue == /\ resolver = "wake" /\ Running /\ RefreshDue /\ resolver' = "resolve"
           /\ Restart /\ waited' = 0 /\ UNCHANGED <<answer, targets>>

Ask == /\ resolver = "resolve" /\ resolver' = "store" /\ answer' = SortEndpoints(dns)
       /\ UNCHANGED <<elapsed, waited, targets>>

\* Slip: a failed resolution is stored too.
TakeAny(new) == new
KeepOld(new) == IF new = <<>> THEN targets ELSE new
Store == /\ resolver = "store" /\ resolver' = "top"
         /\ targets' = KeepOld(answer) /\ answer' = <<>> /\ UNCHANGED <<elapsed, waited>>

ResolverLoop == /\ \/ ResolverTop \/ Sleep \/ WakeStopped \/ WakeEarly \/ WakeDue
                   \/ Ask \/ Store
                /\ UNCHANGED <<settings, dns, state, connVars>>
-----------------------------------------------------------------------------
(* AcceptLoop, or UdpLoop for a client without a session, as far as the    *)
(* targets go.                                                             *)

ConnTop == /\ conn = "top" /\ conn' = IF Running THEN "wait" ELSE "exit"
           /\ UNCHANGED <<snapshot, next, refused, upstream>>

\* AcceptLoop resolves once more when it finds no target.
Arrival == /\ conn = "wait" /\ conn' = "try"
           /\ targets' = IF targets = <<>> /\ protocol = "tcp" THEN SortEndpoints(dns) ELSE targets
           /\ snapshot' = targets' /\ next' = 1 /\ refused' = {} /\ upstream' = NoAddress

\* A timeout, a failed accept, or the listening socket has been shut down.
NoArrival == /\ conn = "wait" /\ conn' = "top"
             /\ UNCHANGED <<snapshot, next, refused, upstream>>

Fail == /\ conn' = "try" /\ next' = next + 1 /\ refused' = refused \cup {snapshot[next]}
        /\ UNCHANGED <<snapshot, upstream>>
Succeed == /\ conn' = "top" /\ upstream' = snapshot[next]
           /\ UNCHANGED <<snapshot, next, refused>>

\* socket() for the next endpoint; a UDP session needs no more than that.
TrySocket ==
  /\ conn = "try" /\ next <= Len(snapshot)
  /\ \/ Fail
     \/ protocol = "udp" /\ Succeed
     \/ protocol = "tcp" /\ conn' = "connect" /\ UNCHANGED <<snapshot, next, refused, upstream>>

TryConnect == conn = "connect" /\ (Succeed \/ Fail)

GiveUp == /\ conn = "try" /\ next > Len(snapshot) /\ conn' = "top"
          /\ UNCHANGED <<snapshot, next, refused, upstream>>

Connect == /\ \/ Arrival
              \/ (ConnTop \/ NoArrival \/ TrySocket \/ TryConnect \/ GiveUp) /\ UNCHANGED targets
           /\ UNCHANGED <<settings, dns, state, resolverVars>>
-----------------------------------------------------------------------------
\* The process is about to exit.
Ended == state \in {"failed", "stopped"} /\ resolver = "exit" /\ conn = "exit" /\ UNCHANGED vars

Next == DnsChange \/ Start \/ Stop \/ ResolverLoop \/ Connect \/ Ended

Spec == Init /\ [][Next]_vars

(* Both threads keep running: a sleep, a resolution and a connect return.  *)
FairSpec == Spec /\ WF_vars(ResolverLoop) /\ WF_vars(Connect)
-----------------------------------------------------------------------------
(* The ranges of the variables; the count stays below the interval.        *)
TypeOK ==
  /\ mode \in {"custom", "server", "client"} /\ preference \in {"auto", "ipv4", "ipv6"}
  /\ protocol \in {"tcp", "udp"} /\ dns \in Answers
  /\ state \in {"off", "failed", "on", "stopped"}
  /\ resolver \in {"top", "sleep", "wake", "resolve", "store", "exit"}
  /\ elapsed \in 0..RefreshInterval /\ waited \in Nat
  /\ answer \in Seq(Addresses) /\ targets \in Seq(Addresses)
  /\ conn \in {"top", "wait", "try", "connect", "exit"}
  /\ snapshot \in Seq(Addresses) /\ next \in 1..Len(snapshot) + 1
  /\ refused \subseteq Addresses /\ upstream \in Addresses \cup {NoAddress}

InSeq(seq) == {seq[i] : i \in 1..Len(seq)}

\* The families of the target side (manual.md:81-83; a server resolves its
\* target with any --family).
Wanted == IF mode = "server" \/ (mode = "custom" /\ preference = "auto") THEN {"ipv4", "ipv6"}
          ELSE IF preference = "auto" THEN {"ipv6"} ELSE {preference}

(* A running forwarder always has an address to send to, of a family the   *)
(* mode allows: a failed or useless DNS answer never replaces a good list  *)
(* (ResolveTargetEndpoints).                                               *)
TargetsUsable ==
  state \in {"on", "stopped"} =>
    targets # <<>> /\ \A e \in InSeq(targets) : FamilyOf[e] \in Wanted

(* An attempt gives up only when every address of its snapshot has failed, *)
(* and ends with an IPv4 address only when every IPv6 address has failed   *)
(* (SortEndpoints and the two connection loops).                           *)
BestTarget ==
  conn \notin {"try", "connect"} =>
    LET better == IF upstream = NoAddress THEN InSeq(snapshot)
                  ELSE {e \in InSeq(snapshot) : FamilyOf[e] = "ipv6" /\ FamilyOf[upstream] = "ipv4"}
    IN better \subseteq refused

(* "periodic target DNS refresh interval in minutes" (manual.md:84): DNS   *)
(* is not asked before that time has passed, and is asked no later than    *)
(* the sleeps of that time take.                                           *)
RefreshOnTime ==
  [][WakeDue => waited >= Requested
                /\ waited <= Requested + Late * (Requested \div TickMs)]_vars

(* When DNS settles on an answer the forwarder can use, it comes to use    *)
(* the addresses of the families wanted, all of them, and goes on to.      *)
DnsChangeReaches ==
  \A a \in Answers :
    <>[](state = "on" /\ dns = a /\ \E e \in InSeq(a) : FamilyOf[e] \in Wanted)
      => <>[](InSeq(targets) = {e \in InSeq(a) : FamilyOf[e] \in Wanted})

(* After Stop has cleared running_ both threads end, so that their joins   *)
(* return, wherever they are.                                              *)
ThreadsEnd == state = "stopped" ~> (resolver = "exit" /\ conn = "exit")
=============================================================================
