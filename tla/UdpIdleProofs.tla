---------------------------- MODULE UdpIdleProofs ----------------------------
(***************************************************************************)
(* UdpIdle for every timeout, interval, poll and length of the run, on a   *)
(* clock that stays below the modulus.                                     *)
(***************************************************************************)
EXTENDS UdpIdle, TLAPS

USE UdpIdleAssumption

(* No loop is held up for longer than Poll.                                *)
Prompt ==
  /\ clock - since <= Poll
  /\ stamp # NoStamp => clock - stamp <= Poll

(* After a cleanup a session that is kept was active within the timeout    *)
(* before it, and the next cleanup starts with the first iteration that    *)
(* begins an interval later.                                               *)
Between ==
  pc \in {"recv", "maybe"} =>
    /\ since <= lastCleanup + Interval
    /\ mapped /\ Timeout > 0 => lastActive >= lastCleanup - Timeout

(* During a cleanup the same, seen from the start of the iteration.        *)
During ==
  pc \in {"cleanup", "first", "second"} =>
    /\ lastCleanup >= since
    /\ mapped /\ Timeout > 0 => lastActive >= since - Interval - Timeout

(* What the tests that the cleanup has passed tell of its locals.          *)
Reads ==
  /\ pc \in {"first", "second"} => now >= lastCleanup /\ mapped /\ Timeout > 0
  /\ pc = "second" => now > first

IInv == TypeOK /\ Prompt /\ Between /\ During /\ Reads
-----------------------------------------------------------------------------
(* A difference of two times that does not go below zero does not wrap.    *)
LEMMA SubExact ==
  ASSUME NEW a \in 0..MaxTime, NEW b \in 0..a
  PROVE  Sub(a, b) = a - b
<1>1. a - b \in Nat /\ a - b < Modulus /\ Modulus \in Nat \ {0}
  OBVIOUS
<1>2. QED
  BY <1>1 DEF Sub

LEMMA InitInv == Init => IInv
<1>1. ASSUME Init PROVE TypeOK
  <2>1. clock = 0 /\ since = 0 /\ lastCleanup = 0 /\ now = 0 /\ first = 0 /\ lastActive = 0
    BY <1>1 DEF Init
  <2>2. pc = "recv" /\ stamp = NoStamp
    BY <1>1 DEF Init
  <2>3. mapped \in BOOLEAN
    BY <1>1 DEF Init
  <2>4. QED
    BY <2>1, <2>2, <2>3 DEF TypeOK
<1>2. Init => Prompt /\ Between /\ During /\ Reads
  BY DEF Init, Prompt, Between, During, Reads
<1>3. QED
  BY <1>1, <1>2 DEF IInv

LEMMA StepInv == IInv /\ [Next]_vars => IInv'
<1> SUFFICES ASSUME IInv, [Next]_vars PROVE IInv'
  OBVIOUS
<1> USE DEF IInv, TypeOK, loop, BackToReceive, Stamp
<1>1. CASE Tick
  <2>1. TypeOK'
    BY <1>1 DEF Tick
  <2>2. (Prompt /\ Between /\ During /\ Reads)'
    BY <1>1 DEF Tick, Prompt, Between, During, Reads
  <2>3. QED
    BY <2>1, <2>2
<1>2. CASE Receive
  <2>1. /\ pc = "recv" /\ pc' = "maybe" /\ mapped' \in BOOLEAN
        /\ lastActive' = clock \/ (lastActive' = lastActive /\ mapped' = mapped)
        /\ UNCHANGED <<clock, since, lastCleanup, now, first, stamp>>
    BY <1>2 DEF Receive
  <2>2. QED
    BY <2>1 DEF Prompt, Between, During, Reads
<1>3. CASE MaybeCleanup
  <2>1. Sub(clock, lastCleanup) = clock - lastCleanup
    BY SubExact
  <2>2. QED
    BY <1>3, <2>1 DEF MaybeCleanup, CleanupDue, Prompt, Between, During, Reads
<1>4. CASE CleanupNow
  BY <1>4 DEF CleanupNow, Prompt, Between, During, Reads
<1>5. CASE FirstRead
  BY <1>5 DEF FirstRead, Before, Prompt, Between, During, Reads
<1>6. CASE SecondRead
  <2>1. lastActive <= now => Sub(now, lastActive) = now - lastActive
    BY SubExact
  <2>2. TypeOK' /\ Prompt'
    <3>1. /\ pc' = "recv" /\ since' = clock /\ mapped' \in BOOLEAN /\ stamp' \in {NoStamp, stamp}
          /\ UNCHANGED <<clock, lastCleanup, now, first, lastActive>>
      BY <1>6 DEF SecondRead
    <3>2. QED
      BY <3>1 DEF Prompt
  <2>3. mapped' => lastActive' >= now - Timeout
    <3>1. mapped' => ~(Sub(now, lastActive) > Timeout)
      BY <1>6 DEF SecondRead, Expired
    <3>2. lastActive' = lastActive
      BY <1>6 DEF SecondRead
    <3>3. QED
      BY <2>1, <3>1, <3>2
  <2>4. Between'
    BY <1>6, <2>3 DEF SecondRead, Prompt, During, Reads, Between
  <2>5. (During /\ Reads)'
    BY <1>6 DEF SecondRead, During, Reads
  <2>6. QED
    BY <2>2, <2>4, <2>5
<1>7. CASE ReplyStamp
  BY <1>7 DEF ReplyStamp, Prompt, Between, During, Reads
<1>8. CASE ReplyStore
  BY <1>8 DEF ReplyStore, Prompt, Between, During, Reads
<1>9. CASE UNCHANGED vars
  BY <1>9 DEF vars, Prompt, Between, During, Reads
<1>10. QED
  BY <1>1, <1>2, <1>3, <1>4, <1>5, <1>6, <1>7, <1>8, <1>9 DEF Next

LEMMA Invariance == Spec => []IInv
BY InitInv, StepInv, PTL DEF Spec
-----------------------------------------------------------------------------
(* Every time lies within the run, and no stamp in the future.             *)
THEOREM TypeCorrect == Spec => []TypeOK
<1>1. IInv => TypeOK
  BY DEF IInv
<1>2. QED
  BY <1>1, Invariance, PTL

(* An idle session is gone when the timeout, an interval between cleanups  *)
(* and one iteration of UdpLoop have passed.                               *)
THEOREM IdleSessionsGo == Spec => []ClosedInTime
<1>1. IInv => ClosedInTime
  BY DEF IInv, TypeOK, Prompt, Between, During, ClosedInTime, IdleFor
<1>2. QED
  BY <1>1, Invariance, PTL

(* A cleanup closes a session that nobody stamps between its two reads     *)
(* only when it has been idle for longer than the timeout.                 *)
THEOREM OnlyIdleSessionsGo == Spec => ClosedWhenIdle
<1> DEFINE Closes == mapped /\ ~mapped' => lastActive # first \/ (Timeout > 0 /\ IdleFor > Timeout)
<1>1. ASSUME IInv, [Next]_vars, mapped, ~mapped', lastActive = first
      PROVE  Timeout > 0 /\ IdleFor > Timeout
  <2>1. SecondRead
    BY <1>1 DEF Next, Tick, Receive, MaybeCleanup, CleanupNow, FirstRead, ReplyStamp, ReplyStore,
                vars
  <2>2. Sub(now, lastActive) = now - lastActive /\ now <= clock /\ Timeout > 0
    BY <1>1, <2>1, SubExact DEF SecondRead, IInv, TypeOK, Reads
  <2>3. Expired
    BY <1>1, <2>1 DEF SecondRead
  <2>4. QED
    BY <1>1, <2>2, <2>3 DEF Expired, IInv, TypeOK, IdleFor
<1>2. IInv /\ [Next]_vars => [Closes]_vars
  BY <1>1
<1>3. QED
  BY <1>2, Invariance, PTL DEF Spec, ClosedWhenIdle
=============================================================================
