------------------------------- MODULE UdpIdle -------------------------------
(***************************************************************************)
(* The clock of the UDP half (forwarder.cpp): how one session's            *)
(* last_active_ms is stamped by UdpLoop and by the reply thread, and how   *)
(* CleanupIdleUdpSessions reads it, twice, to decide that it is idle.  The *)
(* reply thread takes no lock, so it may store between the two reads.      *)
(* A definition marked "Slip" is a variant of the one below it.            *)
(***************************************************************************)
EXTENDS Integers

CONSTANTS Timeout,   \* udp_session_idle_timeout_seconds, 0 disables it
          Interval,  \* kUdpCleanupIntervalMs
          Poll,      \* the receive timeout: an iteration of a loop lasts no longer
          Modulus,   \* 2^64: the arithmetic of std::uint64_t
          MaxTime    \* bound: how far the clock runs

ASSUME UdpIdleAssumption ==
  /\ Timeout \in Nat /\ Interval \in Nat /\ Poll \in Nat \ {0} /\ MaxTime \in Nat
  /\ Modulus \in Nat /\ MaxTime + Timeout < Modulus
  /\ Poll <= Interval                 \* 200 ms and 1000 ms
  /\ Timeout = 0 \/ Poll <= Timeout  \* whole seconds

NoStamp == -1

VARIABLES
  clock,       \* NowMonotonicMs
  pc, since,   \* control state of UdpLoop; when its iteration began
  lastCleanup, \* last_udp_cleanup_ms_
  now, first,  \* locals of the cleanup: now, the first read of last_active_ms
  mapped,      \* the session is in udp_sessions_
  lastActive,  \* its last_active_ms
  stamp        \* the time the reply thread is about to store, or NoStamp

loop == <<pc, since, lastCleanup, now, first>>
vars == <<clock, loop, mapped, lastActive, stamp>>

\* UdpLoop begins: the clock counts from there.
Init == /\ clock = 0 /\ since = 0 /\ pc = "recv" /\ lastCleanup = 0
        /\ now = 0 /\ first = 0 /\ mapped = FALSE /\ lastActive = 0 /\ stamp = NoStamp

Sub(a, b) == (a - b) % Modulus   \* subtraction of std::uint64_t values

\* Time passes, but no loop is held up for longer than Poll: the receive has
\* that timeout, and the other steps of an iteration are taken to need no time.
Tick == /\ clock < MaxTime /\ clock - since < Poll
        /\ stamp # NoStamp => clock - stamp < Poll
        /\ clock' = clock + 1
        /\ UNCHANGED <<loop, mapped, lastActive, stamp>>

\* Slip: last_active_ms keeps the deadline, not the time.
Deadline == clock + Timeout
Stamp == clock

\* UdpLoop: a datagram of the client creates or stamps its session, or the
\* receive times out.
Receive == /\ pc = "recv" /\ pc' = "maybe"
           /\ \/ mapped' = TRUE /\ lastActive' = Stamp
              \/ UNCHANGED <<mapped, lastActive>>
           /\ UNCHANGED <<clock, since, lastCleanup, now, first, stamp>>

CleanupDue == Sub(clock, lastCleanup) >= Interval

MaybeCleanup ==
  /\ pc = "maybe"
  /\ IF CleanupDue THEN pc' = "cleanup" /\ lastCleanup' = clock /\ UNCHANGED since
                   ELSE pc' = "recv" /\ since' = clock /\ UNCHANGED lastCleanup
  /\ UNCHANGED <<clock, now, first, mapped, lastActive, stamp>>

BackToReceive == pc' = "recv" /\ since' = clock

\* const std::uint64_t now = NowMonotonicMs(); then the lock.
CleanupNow ==
  /\ pc = "cleanup" /\ now' = clock
  /\ IF mapped /\ Timeout > 0 THEN pc' = "first" /\ UNCHANGED since ELSE BackToReceive
  /\ UNCHANGED <<clock, lastCleanup, first, mapped, lastActive, stamp>>

\* Slip: the comparison that keeps the subtraction from wrapping is missing.
NoComparison == TRUE
Before == now > lastActive

FirstRead ==
  /\ pc = "first" /\ first' = lastActive
  /\ IF Before THEN pc' = "second" /\ UNCHANGED since ELSE BackToReceive
  /\ UNCHANGED <<clock, lastCleanup, now, mapped, lastActive, stamp>>

\* Slip: idle since the last cleanup, not since the last datagram.
ExpiredCleanup == Sub(now, lastCleanup) > Timeout
Expired == Sub(now, lastActive) > Timeout

SecondRead ==
  /\ pc = "second" /\ BackToReceive
  /\ IF Expired THEN mapped' = FALSE /\ stamp' = NoStamp
                ELSE UNCHANGED <<mapped, stamp>>
  /\ UNCHANGED <<clock, lastCleanup, now, first, lastActive>>

\* The reply thread: NowMonotonicMs(), then the store.
ReplyStamp == /\ mapped /\ stamp = NoStamp /\ stamp' = Stamp
              /\ UNCHANGED <<clock, loop, mapped, lastActive>>
ReplyStore == /\ stamp # NoStamp /\ lastActive' = stamp /\ stamp' = NoStamp
              /\ UNCHANGED <<clock, loop, mapped>>

Next == \/ Tick \/ Receive \/ MaybeCleanup \/ CleanupNow \/ FirstRead \/ SecondRead
        \/ ReplyStamp \/ ReplyStore

Spec == Init /\ [][Next]_vars
-----------------------------------------------------------------------------
(* The ranges of the variables; no stamp lies in the future.               *)
TypeOK ==
  /\ clock \in 0..MaxTime /\ since \in 0..clock /\ lastCleanup \in 0..clock
  /\ now \in 0..clock /\ first \in 0..clock /\ lastActive \in 0..clock
  /\ pc \in {"recv", "maybe", "cleanup", "first", "second"}
  /\ mapped \in BOOLEAN /\ stamp \in {NoStamp} \cup 0..clock

IdleFor == clock - lastActive

(* An idle session does not stay: it is closed at the latest when the      *)
(* timeout, an interval between cleanups and one iteration have passed.    *)
ClosedInTime ==
  mapped /\ Timeout > 0 => IdleFor <= Timeout + Interval + Poll

(* A session closed as idle has been idle for longer than the timeout, and *)
(* none is when the timeout is 0, unless a reply was stamped between the   *)
(* two reads: the comparison with now covers a datagram stamped after it.  *)
ClosedWhenIdle ==
  [][mapped /\ ~mapped' => lastActive # first \/ (Timeout > 0 /\ IdleFor > Timeout)]_vars

(* "UDP session idle timeout in seconds" (manual.md:85): only a session    *)
(* that has been idle for longer than the timeout is closed as idle.       *)
OnlyIdleIsClosed == [][mapped /\ ~mapped' => IdleFor > Timeout]_vars
=============================================================================
