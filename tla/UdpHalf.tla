------------------------------- MODULE UdpHalf -------------------------------
(***************************************************************************)
(* What the UDP half of a forwarder promises to the thread that starts and *)
(* stops it: the loop ends only when it is asked to and after its last     *)
(* session, it alone opens and closes sessions, and Stop returns after it  *)
(* has gone.  UdpSessions implements it; Forwarder, whose UDP loop has no  *)
(* sessions, is what is left of it.                                        *)
(***************************************************************************)
CONSTANT Object  \* session objects

VARIABLES running,  \* running_
          thread,   \* udp_thread_: "none" (not joinable), "top", "exit"
          stopping, \* a Stop that has cleared running_ has not returned
          sessions  \* the objects in use

halfVars == <<running, thread, stopping, sessions>>

HalfInit == /\ thread \in {"none", "top"} /\ (running <=> thread = "top")
            /\ ~stopping /\ sessions = {}

StoreRunning == /\ ~running /\ thread = "none" /\ ~stopping /\ running' = TRUE
                /\ UNCHANGED <<thread, stopping, sessions>>
Spawn == /\ running /\ thread = "none" /\ thread' = "top"
         /\ UNCHANGED <<running, stopping, sessions>>

Open == /\ thread = "top" /\ \E s \in Object \ sessions : sessions' = sessions \cup {s}
        /\ UNCHANGED <<running, thread, stopping>>
Close == /\ thread = "top" /\ \E s \in sessions : sessions' = sessions \ {s}
         /\ UNCHANGED <<running, thread, stopping>>

AskStop == /\ running /\ running' = FALSE /\ stopping' = TRUE
           /\ UNCHANGED <<thread, sessions>>
End == /\ thread = "top" /\ ~running /\ sessions = {} /\ thread' = "exit"
       /\ UNCHANGED <<running, stopping, sessions>>
Join == /\ stopping /\ thread = "exit" /\ thread' = "none"
        /\ UNCHANGED <<running, stopping, sessions>>
Return == /\ stopping /\ thread = "none" /\ stopping' = FALSE
          /\ UNCHANGED <<running, thread, sessions>>

HalfNext == StoreRunning \/ Spawn \/ Open \/ Close \/ AskStop \/ End \/ Join \/ Return
HalfSpec == HalfInit /\ [][HalfNext]_halfVars
=============================================================================
