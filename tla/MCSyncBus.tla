----------------------------- MODULE MCSyncBus -----------------------------
(* Instance of SyncBus for model checking. *)
EXTENDS SyncBus, TLC

\* A replicas argument below one, met by one subscriber, and needing both.
MCReplicas == {-1, 1, 2}

\* Calls and channels are interchangeable: nothing orders them.
Perms == Permutations(Calls) \cup Permutations(Channels)
=============================================================================
