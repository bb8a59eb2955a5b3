--------------------------- MODULE MCRelaySession ---------------------------
(* Bounds on the bytes each peer writes: a request longer than the relay   *)
(* buffer and a shorter answer; two bytes each way, which on a path that   *)
(* holds one (SockCap = 1) leaves the second send blocked until the peer   *)
(* reads; one byte each way.                                               *)
EXTENDS RelaySession

LongRequest == [s \in Side |-> IF s = "client" THEN 3 ELSE 1]
TwoEach == [s \in Side |-> 2]
OneEach == [s \in Side |-> 1]
=============================================================================
