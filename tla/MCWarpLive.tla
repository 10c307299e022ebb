----------------------------- MODULE MCWarpLive -----------------------------
(* Progress of the cache path on the bus, and the bus on its own, with     *)
(* subscribers that come and go and every call that a user of it can make. *)
(* A behaviour is about one of the two parts.                              *)
EXTENDS MCWarp

VARIABLE part

\* A replicas argument below one, which one subscriber meets, and one that needs
\* both.
MCBusReplicas == {-1, 2}

LiveInit ==
  /\ part \in {"bus", "warp"}
  /\ Init
  /\ part = "bus" => store = Absent /\ conf.clients = "free"

OfBus(A) == part = "bus" /\ A /\ UNCHANGED <<part, warpVars>>
OfWarp(A) == part = "warp" /\ A /\ UNCHANGED part

LiveNext == OfBus(BusNext) \/ OfWarp(Next)

\* The fairness of both modules, of which at most one can take a step.
LiveSpec ==
  /\ LiveInit /\ [][LiveNext]_<<part, vars>>
  /\ \A p \in Calls : WF_<<part, vars>>(OfBus(CallStep(p)) \/ OfWarp(Step(p)))
  /\ \A c \in Channels : WF_<<part, vars>>(OfBus(Receive(c)) \/ OfWarp(Listener(c)))
=============================================================================
