----------------------------- MODULE SessionLife -----------------------------
(***************************************************************************)
(* What a ForwardSession promises to the code that owns it, and what that  *)
(* code owes the session: the life of one session object as its owner sees *)
(* it.  RelaySession implements it from the inside, Forwarder uses it as   *)
(* the model of a session and keeps to it from the outside.                *)
(***************************************************************************)

VARIABLES life, \* "none", "new" (constructed), "running" (started), "finished"
          hold  \* "kept", "stopped" (Stop was called), "joined", "destroyed"

lifeVars == <<life, hold>>

Create == life = "none" /\ life' = "new" /\ UNCHANGED hold

\* Start is called once, before anybody stops the session.
Begin == life = "new" /\ hold = "kept" /\ life' = "running" /\ UNCHANGED hold

\* The session finishes of itself or because it was stopped.
Finish == life = "running" /\ life' = "finished" /\ UNCHANGED hold

\* Stop finds two relays to wake up: it is no use before Start.
AskStop == life \in {"running", "finished"} /\ hold = "kept" /\ hold' = "stopped"
           /\ UNCHANGED life

\* Join returns once the session has finished, stopped or not.
Join == life = "finished" /\ hold \in {"kept", "stopped"} /\ hold' = "joined"
        /\ UNCHANGED life

Destroy == hold = "joined" /\ hold' = "destroyed" /\ UNCHANGED life

LifeInit == life \in {"none", "running"} /\ hold = "kept"
LifeNext == Create \/ Begin \/ Finish \/ AskStop \/ Join \/ Destroy
LifeSpec == LifeInit /\ [][LifeNext]_lifeVars
=============================================================================
