---------------------------- MODULE MCUdpSessions ----------------------------
(* Clients, slots and descriptors are interchangeable; liveness is checked *)
(* without the symmetry.                                                   *)
EXTENDS UdpSessions, TLC

Symmetric == Permutations(Clients) \cup Permutations(Slots) \cup Permutations(Fds)
=============================================================================
