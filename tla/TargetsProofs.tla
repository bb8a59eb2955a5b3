---------------------------- MODULE TargetsProofs ----------------------------
(***************************************************************************)
(* Targets for any addresses and answers, any refresh interval and any     *)
(* ticks: what SortEndpoints returns, and the inductive invariant behind   *)
(* the safety properties.                                                  *)
(***************************************************************************)
EXTENDS Targets, FiniteSetTheorems, TLAPS

USE TargetsAssumption

(* Every list of targets, wherever it is kept, is usable and in order.     *)
IPv6First(seq) ==
  \A m, n \in 1..Len(seq) : FamilyOf[seq[m]] = "ipv4" /\ FamilyOf[seq[n]] = "ipv6" => n < m
GoodList(seq) == (\A e \in InSeq(seq) : FamilyOf[e] \in Wanted) /\ IPv6First(seq)
Lists == GoodList(targets) /\ GoodList(answer) /\ GoodList(snapshot)

(* The threads run only after Start has found a target.                    *)
Serving ==
  /\ state \in {"on", "stopped"} => targets # <<>>
  /\ conn # "exit" \/ resolver # "exit" => state \in {"on", "stopped"}

(* The addresses that come before next have failed, and no others.         *)
Trying ==
  /\ conn \in {"try", "connect"} =>
       refused = {snapshot[i] : i \in 1..next - 1} /\ upstream = NoAddress
  /\ conn = "connect" => next <= Len(snapshot)

(* The count is that of the sleeps, each a tick long or late by Late; the  *)
(* one that a thread is about to count comes on top.                       *)
SleptFor(sleeps) == waited >= sleeps * TickMs /\ waited <= sleeps * TickMs + Late * sleeps
Counting ==
  /\ state = "off" => elapsed = 0 /\ waited = 0 /\ resolver = "exit"
  /\ elapsed = 0 \/ elapsed < RefreshInterval
  /\ \E ticks \in Nat :
       /\ elapsed = ticks * TickMs
       /\ resolver = "wake" => SleptFor(ticks + 1)
       /\ resolver \notin {"wake", "exit"} => SleptFor(ticks)

IInv == TypeOK /\ Lists /\ Serving /\ Trying /\ BestTarget /\ Counting
-----------------------------------------------------------------------------
(* SortEndpoints: the places of what it keeps are 1, 2, 3, ...             *)

LEMMA KeptFinite ==
  ASSUME NEW seq \in Seq(Addresses)
  PROVE  /\ Kept(seq) \subseteq 1..Len(seq) /\ IsFiniteSet(Kept(seq))
         /\ Cardinality(Kept(seq)) \in Nat
<1>1. Kept(seq) \subseteq 1..Len(seq)
  BY DEF Kept
<1>2. IsFiniteSet(1..Len(seq))
  BY FS_Interval
<1>3. QED
  BY <1>1, <1>2, FS_Subset, FS_CardinalityType

(* Every kept element is before, at or after every other.                  *)
LEMMA NoLaterOrders ==
  ASSUME NEW seq \in Seq(Addresses), NEW i \in 1..Len(seq), NEW j \in 1..Len(seq),
         NEW k \in 1..Len(seq)
  PROVE  /\ NoLater(seq, i, i)
         /\ NoLater(seq, i, j) \/ NoLater(seq, j, i)
         /\ NoLater(seq, i, j) /\ NoLater(seq, j, i) => i = j
         /\ NoLater(seq, i, j) /\ NoLater(seq, j, k) => NoLater(seq, i, k)
<1>1. /\ FamilyOf[seq[i]] \in {"ipv4", "ipv6"} /\ FamilyOf[seq[j]] \in {"ipv4", "ipv6"}
      /\ FamilyOf[seq[k]] \in {"ipv4", "ipv6"}
  OBVIOUS
<1>2. QED
  BY <1>1 DEF NoLater, Ahead

LEMMA PlaceInRange ==
  ASSUME NEW seq \in Seq(Addresses), NEW i \in Kept(seq)
  PROVE  Place(seq, i) \in 1..Cardinality(Kept(seq))
<1> DEFINE S == {j \in Kept(seq) : NoLater(seq, j, i)}
<1>1. IsFiniteSet(S) /\ Cardinality(S) <= Cardinality(Kept(seq)) /\ Cardinality(S) \in Nat
  BY KeptFinite, FS_Subset, FS_CardinalityType
<1>2. i \in S
  BY KeptFinite, NoLaterOrders
<1>3. Cardinality(S) # 0
  BY <1>1, <1>2, FS_EmptySet
<1>4. QED
  BY <1>1, <1>3, KeptFinite DEF Place

LEMMA PlaceMonotonic ==
  ASSUME NEW seq \in Seq(Addresses), NEW i \in Kept(seq), NEW j \in Kept(seq), i # j,
         NoLater(seq, i, j)
  PROVE  Place(seq, i) < Place(seq, j)
<1> DEFINE S(m) == {k \in Kept(seq) : NoLater(seq, k, m)}
<1>1. IsFiniteSet(S(j)) /\ IsFiniteSet(S(i))
  BY KeptFinite, FS_Subset
<1>2. S(i) \subseteq S(j) /\ j \in S(j) /\ j \notin S(i)
  BY KeptFinite, NoLaterOrders
<1>3. Cardinality(S(i)) <= Cardinality(S(j)) /\ Cardinality(S(i)) # Cardinality(S(j))
  BY <1>1, <1>2, FS_Subset
<1>4. Cardinality(S(i)) \in Nat /\ Cardinality(S(j)) \in Nat
  BY <1>1, FS_CardinalityType
<1>5. QED
  BY <1>3, <1>4 DEF Place

(* Counting: as many places as elements, and no two elements share one.    *)
LEMMA PlaceTaken ==
  ASSUME NEW seq \in Seq(Addresses), NEW n \in 1..Cardinality(Kept(seq))
  PROVE  \E i \in Kept(seq) : Place(seq, i) = n
<1> DEFINE K == Kept(seq)
           T == 1..Cardinality(K)
           f == [i \in K |-> Place(seq, i)]
<1>1. f \in [K -> T]
  BY PlaceInRange
<1>2. \A i, j \in K : i # j => f[i] # f[j]
  <2>1. \A i \in K : f[i] = Place(seq, i) /\ f[i] \in Nat
    BY <1>1, KeptFinite
  <2>2. \A i, j \in K : NoLater(seq, i, j) \/ NoLater(seq, j, i)
    BY KeptFinite, NoLaterOrders
  <2>3. QED
    BY <2>1, <2>2, PlaceMonotonic
<1>3. f \in Injection(K, T)
  BY <1>1, <1>2 DEF Injection, IsInjective
<1>4. IsFiniteSet(T) /\ Cardinality(T) = Cardinality(K)
  BY KeptFinite, FS_Interval
<1>5. f \in Surjection(K, T)
  BY <1>3, <1>4, FS_Injection
<1>6. QED
  BY <1>5 DEF Surjection

(* What std::stable_sort promises of the endpoints that SortEndpoints      *)
(* keeps: the result is a permutation of them, none comes after one that   *)
(* it is ahead of, and where the comparison does not tell two of them      *)
(* apart they stay in the order of the answer.                             *)
THEOREM SortIsStable ==
  ASSUME NEW seq \in Seq(Addresses)
  PROVE  \E at \in Bijection(1..Cardinality(Kept(seq)), Kept(seq)) :
           /\ SortEndpoints(seq) = [n \in 1..Cardinality(Kept(seq)) |-> seq[at[n]]]
           /\ \A m, n \in 1..Cardinality(Kept(seq)) : m < n =>
                /\ ~Ahead(seq[at[n]], seq[at[m]])
                /\ ~Ahead(seq[at[m]], seq[at[n]]) => at[m] < at[n]
<1> DEFINE K == Kept(seq)
           N == 1..Cardinality(K)
           at == [n \in N |-> CHOOSE i \in K : Place(seq, i) = n]
<1>1. \A n \in N : at[n] \in K /\ Place(seq, at[n]) = n
  BY PlaceTaken
<1>2. SortEndpoints(seq) = [n \in N |-> seq[at[n]]]
  BY DEF SortEndpoints
<1>3. /\ \A i \in K : i \in 1..Len(seq) /\ seq[i] \in Addresses
      /\ \A i \in K : Place(seq, i) \in N
      /\ Cardinality(K) \in Nat
  BY KeptFinite, PlaceInRange
<1>4. at \in [N -> K]
  BY <1>1
<1> HIDE DEF K, at
<1>5. \A i, j \in K : Place(seq, i) = Place(seq, j) => i = j
  <2>1. \A i, j \in K : NoLater(seq, i, j) \/ NoLater(seq, j, i)
    BY <1>3, NoLaterOrders
  <2>2. \A i \in K : Place(seq, i) \in Nat
    BY <1>3
  <2>3. QED
    BY <2>1, <2>2, PlaceMonotonic DEF K
<1>6. at \in Bijection(N, K)
  <2>1. \A m, n \in N : at[m] = at[n] => m = n
    BY <1>1
  <2>2. \A i \in K : \E n \in N : at[n] = i
    BY <1>1, <1>3, <1>5
  <2>3. QED
    BY <1>4, <2>1, <2>2 DEF Bijection, Injection, IsInjective, Surjection
<1>7. ASSUME NEW m \in N, NEW n \in N, m < n
      PROVE  NoLater(seq, at[m], at[n]) /\ ~NoLater(seq, at[n], at[m])
  <2>1. at[m] \in K /\ at[n] \in K /\ Place(seq, at[m]) = m /\ Place(seq, at[n]) = n
    BY <1>1
  <2>2. at[m] # at[n] /\ ~(Place(seq, at[n]) < Place(seq, at[m]))
    BY <1>7, <2>1
  <2>3. ~NoLater(seq, at[n], at[m])
    BY <2>1, <2>2, PlaceMonotonic DEF K
  <2>4. QED
    BY <1>3, <2>1, <2>3, NoLaterOrders
<1>8. ASSUME NEW m \in N, NEW n \in N, m < n
      PROVE  /\ ~Ahead(seq[at[n]], seq[at[m]])
             /\ ~Ahead(seq[at[m]], seq[at[n]]) => at[m] < at[n]
  <2>1. at[m] \in Nat /\ at[n] \in Nat
    BY <1>1, <1>3
  <2>2. QED
    BY <1>7, <1>8, <2>1 DEF NoLater
<1>9. QED
  BY <1>2, <1>6, <1>8 DEF K

(* So the result has the addresses of the target family and no others, and *)
(* no IPv6 address after an IPv4 one.                                      *)
LEMMA Sorted ==
  ASSUME NEW seq \in Seq(Addresses)
  PROVE  /\ SortEndpoints(seq) \in Seq(Addresses)
         /\ InSeq(SortEndpoints(seq)) = {e \in InSeq(seq) : TargetFamily \in {"auto", FamilyOf[e]}}
         /\ IPv6First(SortEndpoints(seq))
<1> DEFINE K == Kept(seq)
           N == 1..Cardinality(K)
           r == SortEndpoints(seq)
<1>1. PICK at \in Bijection(N, K) :
        /\ r = [n \in N |-> seq[at[n]]]
        /\ \A m, n \in N : m < n => ~Ahead(seq[at[n]], seq[at[m]])
  BY SortIsStable
<1>2. /\ at \in [N -> K] /\ \A i \in K : \E n \in N : at[n] = i
      /\ \A i \in K : i \in 1..Len(seq) /\ seq[i] \in Addresses
      /\ Cardinality(K) \in Nat
  BY KeptFinite DEF Bijection, Surjection
<1> HIDE DEF r, K
<1>3. r \in Seq(Addresses) /\ Len(r) = Cardinality(K)
  <2>1. \A n \in N : seq[at[n]] \in Addresses
    BY <1>2
  <2>2. r \in [N -> Addresses]
    BY <1>1, <2>1
  <2>3. QED
    BY <1>2, <2>2
<1>4. InSeq(r) = {e \in InSeq(seq) : TargetFamily \in {"auto", FamilyOf[e]}}
  <2>1. InSeq(r) = {seq[i] : i \in K}
    <3>1. InSeq(r) = {r[n] : n \in N}
      BY <1>3 DEF InSeq
    <3>2. \A n \in N : r[n] = seq[at[n]] /\ at[n] \in K
      BY <1>1, <1>2
    <3>3. \A i \in K : \E n \in N : r[n] = seq[i]
      BY <1>2, <3>2
    <3>4. QED
      BY ONLY <3>1, <3>2, <3>3
  <2>2. {seq[i] : i \in K} = {e \in InSeq(seq) : TargetFamily \in {"auto", FamilyOf[e]}}
    BY DEF K, Kept, InSeq
  <2>3. QED
    BY <2>1, <2>2
<1>5. IPv6First(r)
  <2> SUFFICES ASSUME NEW m \in N, NEW n \in N,
                      FamilyOf[r[m]] = "ipv4", FamilyOf[r[n]] = "ipv6"
               PROVE  n < m
    BY <1>3 DEF IPv6First
  <2>1. Ahead(seq[at[n]], seq[at[m]]) /\ m # n
    BY <1>1 DEF Ahead
  <2>2. QED
    BY <1>1, <1>2, <2>1
<1>6. QED
  BY <1>3, <1>4, <1>5 DEF r
-----------------------------------------------------------------------------
(* The family: Wanted, from the manual, is what TargetFamily lets through. *)
LEMMA FamilyWanted ==
  ASSUME TypeOK, NEW f \in {"ipv4", "ipv6"}
  PROVE  TargetFamily \in {"auto", f} <=> f \in Wanted
BY DEF TypeOK, TargetFamily, TargetPreference, ListenPreference, Or, Wanted

LEMMA SortedIsGood ==
  ASSUME TypeOK, NEW seq \in Seq(Addresses)
  PROVE  SortEndpoints(seq) \in Seq(Addresses) /\ GoodList(SortEndpoints(seq))
<1>1. \A e \in InSeq(seq) : FamilyOf[e] \in {"ipv4", "ipv6"}
  BY DEF InSeq
<1>2. \A e \in InSeq(SortEndpoints(seq)) : FamilyOf[e] \in Wanted
  BY <1>1, Sorted, FamilyWanted
<1>3. QED
  BY <1>2, Sorted DEF GoodList

LEMMA EmptyIsGood == GoodList(<<>>)
BY DEF GoodList, InSeq, IPv6First

LEMMA IntervalType == RefreshInterval \in Nat /\ Requested \in Nat
<1>1. Requested \in Nat
  BY DEF Requested
<1>2. QED
  BY <1>1 DEF RefreshInterval
-----------------------------------------------------------------------------
LEMMA InitInv == Init => IInv
<1> SUFFICES ASSUME Init PROVE IInv
  OBVIOUS
<1>1. TypeOK
  BY IntervalType DEF Init, TypeOK
<1>2. Lists
  BY EmptyIsGood DEF Init, Lists
<1>3. Serving /\ Trying /\ BestTarget
  BY DEF Init, Serving, Trying, BestTarget, InSeq
<1>4. Counting
  <2>1. elapsed = 0 * TickMs /\ SleptFor(0) /\ resolver # "wake"
    BY DEF Init, SleptFor
  <2>2. QED
    BY <2>1 DEF Init, Counting
<1>5. QED
  BY <1>1, <1>2, <1>3, <1>4 DEF IInv
-----------------------------------------------------------------------------
(* A list only ever comes from another one or from SortEndpoints.          *)
LEMMA ListsKept ==
  ASSUME TypeOK, Lists, UNCHANGED settings,
         targets' \in {targets, answer, SortEndpoints(dns)},
         answer' \in {answer, <<>>, SortEndpoints(dns)}, snapshot' \in {snapshot, targets'}
  PROVE  /\ targets' \in Seq(Addresses) /\ answer' \in Seq(Addresses)
         /\ snapshot' \in Seq(Addresses)
         /\ Lists'
<1>1. Wanted' = Wanted
  BY DEF settings, Wanted
<1>2. dns \in Seq(Addresses) /\ {answer, targets, snapshot} \subseteq Seq(Addresses)
  BY DEF TypeOK
<1>3. GoodList(SortEndpoints(dns)) /\ SortEndpoints(dns) \in Seq(Addresses)
  BY <1>2, SortedIsGood
<1> DEFINE Sources == {targets, answer, snapshot, SortEndpoints(dns), <<>>}
<1>4. \A seq \in Sources : seq \in Seq(Addresses) /\ GoodList(seq)
  <2>1. GoodList(targets) /\ GoodList(answer) /\ GoodList(snapshot) /\ GoodList(<<>>)
    BY EmptyIsGood DEF Lists
  <2>2. <<>> \in Seq(Addresses)
    OBVIOUS
  <2>3. QED
    BY <1>2, <1>3, <2>1, <2>2
<1>5. /\ targets' \in Seq(Addresses) /\ GoodList(targets')
      /\ answer' \in Seq(Addresses) /\ GoodList(answer')
      /\ snapshot' \in Seq(Addresses) /\ GoodList(snapshot')
  BY <1>4
<1>6. Lists'
  BY <1>1, <1>5 DEF Lists, GoodList, InSeq, IPv6First
<1>7. QED
  BY <1>5, <1>6

(* Steps that leave the threads and the lists alone.                       *)
LEMMA QuietInv ==
  ASSUME IInv, UNCHANGED <<settings, resolver, elapsed, waited, answer, targets, connVars>>,
         dns' \in Answers,
         state' = state \/ (state = "on" /\ state' = "stopped")
  PROVE  IInv'
<1>1. UNCHANGED <<mode, preference, protocol, resolver, elapsed, waited, answer, targets>>
      /\ UNCHANGED <<conn, snapshot, next, refused, upstream>>
  BY DEF settings, connVars
<1>2. TypeOK'
  BY <1>1 DEF IInv, TypeOK
<1>3. Lists'
  BY ListsKept, <1>1 DEF IInv
<1>4. (Serving /\ Trying)'
  BY <1>1 DEF IInv, Serving, Trying
<1>5. BestTarget'
  BY <1>1 DEF IInv, BestTarget
<1>6. Counting'
  BY <1>1 DEF IInv, Counting, SleptFor
<1>7. QED
  BY <1>2, <1>3, <1>4, <1>5, <1>6 DEF IInv

LEMMA StartInv == ASSUME IInv, Start PROVE IInv'
<1>1. /\ state = "off" /\ targets' = SortEndpoints(dns)
      /\ UNCHANGED <<mode, preference, protocol, dns, elapsed, waited, answer>>
      /\ UNCHANGED <<snapshot, next, refused, upstream>>
      /\ \/ targets' = <<>> /\ state' = "failed" /\ UNCHANGED <<resolver, conn>>
         \/ targets' # <<>> /\ state' = "on" /\ resolver' = "top" /\ conn' = "top"
  BY DEF Start, settings
<1>2. resolver = "exit" /\ conn = "exit"
  BY <1>1 DEF IInv, Serving
<1>3. targets' \in Seq(Addresses) /\ Lists'
  BY <1>1, ListsKept DEF IInv, settings
<1>4. TypeOK'
  BY <1>1, <1>3 DEF IInv, TypeOK
<1>5. (Serving /\ Trying)'
  BY <1>1, <1>2 DEF Serving, Trying
<1>6. BestTarget'
  BY <1>1, <1>2 DEF IInv, BestTarget
<1>7. Counting'
  <2>1. elapsed' = 0 * TickMs /\ SleptFor(0)' /\ resolver' # "wake"
    BY <1>1, <1>2 DEF IInv, Counting, SleptFor
  <2>2. QED
    BY <1>1, <2>1 DEF Counting
<1>8. QED
  BY <1>3, <1>4, <1>5, <1>6, <1>7 DEF IInv
-----------------------------------------------------------------------------
(* ResolverLoop.                                                           *)
LEMMA OneMore ==
  ASSUME NEW n \in Nat, NEW k \in Nat PROVE (k + 1) * n = k * n + n /\ n * (k + 1) = n * k + n
OBVIOUS

LEMMA FewerIsLess ==
  ASSUME NEW n \in Nat \ {0}, NEW a \in Nat, NEW b \in Nat, a < b PROVE a * n < b * n
<1>1. b = a + (b - a) /\ b - a \in Nat \ {0}
  OBVIOUS
<1>2. (b - a) * n > 0
  BY <1>1
<1>3. QED
  BY <1>1, <1>2

LEMMA CountingKept ==
  ASSUME IInv, ResolverLoop PROVE Counting'
<1>1. state' = state /\ resolver # "exit" /\ state # "off"
  BY DEF ResolverLoop, ResolverTop, Sleep, WakeStopped, WakeEarly, WakeDue, Ask, Store, IInv, Serving
<1>2. PICK k \in Nat : /\ elapsed = k * TickMs
                       /\ resolver = "wake" => SleptFor(k + 1)
                       /\ resolver # "wake" => SleptFor(k)
  BY <1>1 DEF IInv, Counting
<1>3. waited \in Nat /\ elapsed \in Nat
  BY IntervalType DEF IInv, TypeOK
<1>4. CASE ResolverTop \/ Ask \/ Store
  <2>1. /\ UNCHANGED <<elapsed, waited>> /\ resolver # "wake" /\ resolver' # "wake"
    BY <1>4 DEF ResolverTop, Ask, Store
  <2>2. QED
    BY <1>1, <1>2, <2>1 DEF IInv, Counting, SleptFor
<1>5. CASE Sleep
  <2>1. PICK late \in {0, Late} : waited' = waited + TickMs + late
    BY <1>5 DEF Sleep
  <2>2. resolver # "wake" /\ resolver' = "wake" /\ UNCHANGED elapsed
    BY <1>5 DEF Sleep
  <2>3. waited >= k * TickMs /\ waited <= k * TickMs + Late * k
    BY <1>2, <2>2 DEF SleptFor
  <2>4. k * TickMs \in Nat /\ Late * k \in Nat
    OBVIOUS
  <2>5. waited' >= (k + 1) * TickMs /\ waited' <= (k + 1) * TickMs + Late * (k + 1)
    BY <1>3, <2>1, <2>3, <2>4, OneMore
  <2>6. QED
    BY <1>1, <1>2, <2>2, <2>5 DEF IInv, Counting, SleptFor
<1>6. CASE WakeStopped
  <2>1. UNCHANGED elapsed /\ resolver' = "exit"
    BY <1>6 DEF WakeStopped
  <2>2. QED
    BY <1>1, <1>2, <2>1 DEF IInv, Counting
<1>7. CASE WakeEarly
  <2>1. /\ elapsed' = elapsed + TickMs /\ waited' = waited /\ resolver = "wake" /\ resolver' = "top"
        /\ ~(elapsed + TickMs >= RefreshInterval)
    BY <1>7 DEF WakeEarly, RefreshDue
  <2>2. elapsed' = (k + 1) * TickMs /\ elapsed' < RefreshInterval
    BY <1>2, <1>3, <2>1, OneMore, IntervalType
  <2>3. SleptFor(k + 1)'
    BY <1>2, <2>1 DEF SleptFor
  <2>4. QED
    BY <1>1, <2>1, <2>2, <2>3 DEF Counting
<1>8. CASE WakeDue
  <2>1. elapsed' = 0 * TickMs /\ elapsed' = 0 /\ waited' = 0 /\ resolver' = "resolve"
    BY <1>8 DEF WakeDue, Restart
  <2>2. SleptFor(0)'
    BY <2>1 DEF SleptFor
  <2>3. QED
    BY <1>1, <2>1, <2>2 DEF Counting
<1>9. QED
  BY <1>4, <1>5, <1>6, <1>7, <1>8 DEF ResolverLoop

LEMMA ResolverInv == ASSUME IInv, ResolverLoop PROVE IInv'
<1>1. /\ UNCHANGED <<mode, preference, protocol, dns, state>>
      /\ UNCHANGED <<conn, snapshot, next, refused, upstream>>
      /\ resolver # "exit" /\ state \in {"on", "stopped"}
  BY DEF ResolverLoop, settings, connVars, ResolverTop, Sleep, WakeStopped, WakeEarly, WakeDue,
         Ask, Store, IInv, Serving
<1>2. /\ targets' = targets \/ (targets' = answer /\ answer # <<>>)
      /\ answer' \in {answer, <<>>, SortEndpoints(dns)}
  BY DEF ResolverLoop, ResolverTop, Sleep, WakeStopped, WakeEarly, WakeDue, Ask, Store, KeepOld
<1>3. targets' \in Seq(Addresses) /\ answer' \in Seq(Addresses) /\ Lists'
  BY <1>1, <1>2, ListsKept DEF IInv, settings
<1>4. TypeOK'
  <2>1. resolver' \in {"top", "sleep", "wake", "resolve", "store", "exit"}
    BY DEF ResolverLoop, ResolverTop, Sleep, WakeStopped, WakeEarly, WakeDue, Ask, Store
  <2>2. elapsed' \in 0..RefreshInterval
    BY IntervalType DEF ResolverLoop, ResolverTop, Sleep, WakeStopped, WakeEarly, WakeDue, Ask, Store,
                        Restart, RefreshDue, IInv, TypeOK
  <2>3. waited' \in Nat
    BY DEF ResolverLoop, ResolverTop, Sleep, WakeStopped, WakeEarly, WakeDue, Ask, Store, IInv, TypeOK
  <2>4. QED
    BY <1>1, <1>3, <2>1, <2>2, <2>3 DEF IInv, TypeOK
<1>5. (Serving /\ Trying)'
  BY <1>1, <1>2 DEF IInv, Serving, Trying
<1>6. BestTarget'
  BY <1>1 DEF IInv, BestTarget
<1>7. QED
  BY <1>3, <1>4, <1>5, <1>6, CountingKept DEF IInv
-----------------------------------------------------------------------------
(* The thread that accepts clients.                                        *)
LEMMA ArrivalInv ==
  ASSUME IInv, Arrival, UNCHANGED <<settings, dns, state, resolverVars>> PROVE IInv'
<1>1. /\ UNCHANGED <<mode, preference, protocol, dns, state>>
      /\ UNCHANGED <<resolver, elapsed, waited, answer>>
      /\ conn = "wait" /\ conn' = "try" /\ snapshot' = targets'
      /\ next' = 1 /\ refused' = {} /\ upstream' = NoAddress
      /\ targets' \in {targets, SortEndpoints(dns)} /\ (targets # <<>> => targets' = targets)
  BY DEF Arrival, settings, resolverVars
<1>2. state \in {"on", "stopped"} /\ targets # <<>>
  BY <1>1 DEF IInv, Serving
<1>3. targets' \in Seq(Addresses) /\ Lists'
  BY <1>1, ListsKept DEF IInv, settings
<1>4. TypeOK'
  BY <1>1, <1>3 DEF IInv, TypeOK
<1>5. (Serving /\ Trying /\ BestTarget)'
  BY <1>1, <1>2 DEF Serving, Trying, BestTarget
<1>6. Counting'
  BY <1>1 DEF IInv, Counting, SleptFor
<1>7. QED
  BY <1>3, <1>4, <1>5, <1>6 DEF IInv

(* What the other steps of this thread leave alone.                        *)
ConnKeeps == UNCHANGED <<settings, dns, state, resolverVars, targets>>

LEMMA ConnFrame ==
  ASSUME IInv, ConnKeeps, snapshot' = snapshot, conn # "exit",
         conn' \in {"top", "wait", "try", "connect", "exit"}, next' \in 1..Len(snapshot) + 1,
         refused' \subseteq Addresses, upstream' \in Addresses \cup {NoAddress}
  PROVE  (TypeOK /\ Lists /\ Serving /\ Counting)'
<1>1. /\ UNCHANGED <<mode, preference, protocol, dns, state>>
      /\ UNCHANGED <<resolver, elapsed, waited, answer, targets, snapshot>>
  BY DEF ConnKeeps, settings, resolverVars
<1>2. TypeOK'
  BY <1>1 DEF IInv, TypeOK
<1>3. Lists'
  BY <1>1, ListsKept DEF IInv, settings
<1>4. Serving'
  BY <1>1 DEF IInv, Serving
<1>5. Counting'
  BY <1>1 DEF IInv, Counting, SleptFor
<1>6. QED
  BY <1>2, <1>3, <1>4, <1>5

LEMMA RoundInv == ASSUME IInv, ConnTop \/ NoArrival \/ GiveUp, ConnKeeps PROVE IInv'
<1>1. /\ UNCHANGED <<snapshot, next, refused, upstream>> /\ conn # "exit"
      /\ conn' \in {"top", "wait", "exit"} /\ conn \in {"top", "wait", "try"}
      /\ conn = "try" => next > Len(snapshot)
  BY DEF ConnTop, NoArrival, GiveUp
<1>2. (TypeOK /\ Lists /\ Serving /\ Counting)'
  BY <1>1, ConnFrame DEF IInv, TypeOK
<1>3. Trying'
  BY <1>1 DEF Trying
<1>4. BestTarget'
  <2>1. CASE conn = "try"
    <3>1. refused = {snapshot[i] : i \in 1..next - 1} /\ upstream = NoAddress
      BY <2>1 DEF IInv, Trying
    <3>2. snapshot \in Seq(Addresses) /\ next \in 1..Len(snapshot) + 1
      BY DEF IInv, TypeOK
    <3>3. next - 1 = Len(snapshot)
      BY <1>1, <2>1, <3>2
    <3>4. InSeq(snapshot) = refused
      BY <3>1, <3>3 DEF InSeq
    <3>5. QED
      BY <1>1, <3>1, <3>4 DEF BestTarget
  <2>2. CASE conn # "try"
    BY <1>1, <2>2 DEF IInv, BestTarget
  <2>3. QED
    BY <2>1, <2>2
<1>5. QED
  BY <1>2, <1>3, <1>4 DEF IInv

LEMMA FailInv ==
  ASSUME IInv, conn \in {"try", "connect"}, next <= Len(snapshot), Fail, ConnKeeps PROVE IInv'
<1>1. /\ conn' = "try" /\ next' = next + 1 /\ refused' = refused \cup {snapshot[next]}
      /\ UNCHANGED <<snapshot, upstream>>
  BY DEF Fail
<1>2. snapshot \in Seq(Addresses) /\ next \in 1..Len(snapshot) /\ snapshot[next] \in Addresses
  BY DEF IInv, TypeOK
<1>3. (TypeOK /\ Lists /\ Serving /\ Counting)'
  BY <1>1, <1>2, ConnFrame DEF IInv, TypeOK
<1>4. Trying'
  <2>1. refused = {snapshot[i] : i \in 1..next - 1} /\ upstream = NoAddress
    BY DEF IInv, Trying
  <2>2. refused' = {snapshot[i] : i \in 1..next}
    BY <1>1, <1>2, <2>1
  <2>3. next' - 1 = next
    BY <1>1, <1>2
  <2>4. QED
    BY <1>1, <2>1, <2>2, <2>3 DEF Trying
<1>5. BestTarget'
  BY <1>1 DEF BestTarget
<1>6. QED
  BY <1>3, <1>4, <1>5 DEF IInv

(* The address that works comes after the ones refused, so that an IPv4    *)
(* address comes after all the IPv6 ones.                                  *)
LEMMA SucceedInv ==
  ASSUME IInv, conn \in {"try", "connect"}, next <= Len(snapshot), Succeed, ConnKeeps PROVE IInv'
<1>1. conn' = "top" /\ upstream' = snapshot[next] /\ UNCHANGED <<snapshot, next, refused>>
  BY DEF Succeed
<1>2. snapshot \in Seq(Addresses) /\ next \in 1..Len(snapshot) /\ snapshot[next] \in Addresses
  BY DEF IInv, TypeOK
<1>3. (TypeOK /\ Lists /\ Serving /\ Counting)'
  BY <1>1, <1>2, ConnFrame DEF IInv, TypeOK
<1>4. Trying'
  BY <1>1 DEF Trying
<1>5. BestTarget'
  <2>1. refused = {snapshot[i] : i \in 1..next - 1} /\ IPv6First(snapshot)
    BY DEF IInv, Trying, Lists, GoodList
  <2>2. upstream' # NoAddress
    BY <1>1, <1>2
  <2>3. ASSUME NEW e \in InSeq(snapshot), FamilyOf[e] = "ipv6", FamilyOf[upstream'] = "ipv4"
        PROVE  e \in refused
    <3>1. PICK i \in 1..Len(snapshot) : e = snapshot[i]
      BY DEF InSeq
    <3>2. i < next
      BY <1>1, <1>2, <2>1, <2>3, <3>1 DEF IPv6First
    <3>3. QED
      BY <1>2, <2>1, <3>1, <3>2
  <2>4. QED
    BY <1>1, <2>2, <2>3 DEF BestTarget
<1>6. QED
  BY <1>3, <1>4, <1>5 DEF IInv

LEMMA SocketInv ==
  ASSUME IInv, conn = "try", conn' = "connect", next <= Len(snapshot),
         UNCHANGED <<snapshot, next, refused, upstream>>, ConnKeeps
  PROVE  IInv'
<1>1. (TypeOK /\ Lists /\ Serving /\ Counting)'
  BY ConnFrame DEF IInv, TypeOK
<1>2. (Trying /\ BestTarget)'
  BY DEF IInv, Trying, BestTarget
<1>3. QED
  BY <1>1, <1>2 DEF IInv

LEMMA ConnectInv == ASSUME IInv, Connect PROVE IInv'
<1>1. CASE Arrival
  BY <1>1, ArrivalInv DEF Connect
<1>2. CASE (ConnTop \/ NoArrival \/ GiveUp) /\ ConnKeeps
  BY <1>2, RoundInv
<1>3. CASE TrySocket /\ ConnKeeps
  <2>1. conn = "try" /\ next <= Len(snapshot)
    BY <1>3 DEF TrySocket
  <2>2. \/ Fail \/ Succeed
        \/ conn' = "connect" /\ UNCHANGED <<snapshot, next, refused, upstream>>
    BY <1>3 DEF TrySocket
  <2>3. QED
    BY <1>3, <2>1, <2>2, FailInv, SucceedInv, SocketInv
<1>4. CASE TryConnect /\ ConnKeeps
  <2>1. conn = "connect" /\ next <= Len(snapshot)
    BY <1>4 DEF TryConnect, IInv, Trying
  <2>2. QED
    BY <1>4, <2>1, FailInv, SucceedInv DEF TryConnect
<1>5. QED
  BY <1>1, <1>2, <1>3, <1>4 DEF Connect, ConnKeeps

LEMMA StepInv == IInv /\ [Next]_vars => IInv'
<1> SUFFICES ASSUME IInv, [Next]_vars PROVE IInv'
  OBVIOUS
<1>1. CASE DnsChange \/ Stop \/ UNCHANGED vars
  BY <1>1, QuietInv DEF DnsChange, Stop, vars, resolverVars, IInv, TypeOK
<1>2. QED
  BY <1>1, StartInv, ResolverInv, ConnectInv DEF Next, Ended

LEMMA Invariance == Spec => []IInv
BY InitInv, StepInv, PTL DEF Spec
-----------------------------------------------------------------------------
(* The variables keep their ranges: the count below the interval, the      *)
(* index within the snapshot, the lists lists of addresses.                *)
THEOREM TypeCorrect == Spec => []TypeOK
<1>1. IInv => TypeOK
  BY DEF IInv
<1>2. QED
  BY <1>1, Invariance, PTL

(* A running forwarder always has a target of a family it may use.         *)
THEOREM AlwaysATarget == Spec => []TargetsUsable
<1>1. IInv => TargetsUsable
  BY DEF IInv, Serving, Lists, GoodList, TargetsUsable
<1>2. QED
  BY <1>1, Invariance, PTL

(* An attempt ends with the first address of the sorted list that works.   *)
THEOREM EndsWithTheBest == Spec => []BestTarget
<1>1. IInv => BestTarget
  BY DEF IInv
<1>2. QED
  BY <1>1, Invariance, PTL

(* Unless the interval overflows 32 bits, DNS is asked no earlier than     *)
(* --dns-refresh-min says, and no later than the sleeps take.              *)
THEOREM AsksOnTime == ASSUME Requested < Modulus PROVE Spec => RefreshOnTime
<1> DEFINE OnTime == WakeDue => waited >= Requested
                       /\ waited <= Requested + Late * (Requested \div TickMs)
<1>1. RefreshInterval = Requested /\ Requested \in Nat
  BY IntervalType DEF RefreshInterval
<1>2. PICK sleeps \in Nat : Requested = sleeps * TickMs /\ Requested \div TickMs = sleeps
  <2>1. PICK m \in Nat \ {0} : Requested = m * MinuteMs
    BY DEF Requested
  <2>2. MinuteMs = (MinuteMs \div TickMs) * TickMs /\ MinuteMs \div TickMs \in Nat
    OBVIOUS
  <2>3. Requested = (m * (MinuteMs \div TickMs)) * TickMs /\ m * (MinuteMs \div TickMs) \in Nat
    BY <2>1, <2>2
  <2>4. QED
    BY <2>3
<1>3. ASSUME IInv, WakeDue
      PROVE  waited >= Requested /\ waited <= Requested + Late * sleeps
  <2>1. PICK k \in Nat : elapsed = k * TickMs /\ SleptFor(k + 1)
    BY <1>3 DEF WakeDue, IInv, Counting
  <2>2. (k + 1) * TickMs >= sleeps * TickMs
    BY <1>1, <1>2, <1>3, <2>1, OneMore DEF WakeDue, RefreshDue
  <2>3. k = 0 \/ k * TickMs < sleeps * TickMs
    BY <1>1, <1>2, <1>3, <2>1 DEF IInv, Counting
  <2>4. k + 1 = sleeps
    <3>1. ~(k + 1 < sleeps)
      BY <2>2, FewerIsLess
    <3>2. ~(sleeps < k)
      BY <2>3, FewerIsLess
    <3>3. sleeps # k
      BY <1>2, <2>3 DEF Requested
    <3>4. QED
      BY <3>1, <3>2, <3>3
  <2>5. QED
    BY <1>2, <2>1, <2>4 DEF SleptFor
<1>4. IInv /\ [Next]_vars => [OnTime]_vars
  BY <1>2, <1>3
<1>5. QED
  BY <1>4, Invariance, PTL DEF Spec, RefreshOnTime
=============================================================================
