------------------------------- MODULE MCWarp -------------------------------
(* Instance of Warp for model checking. *)
EXTENDS Warp, TLC

\* Warp passes only conf.quorum as the replicas; the set is unused.
MCReplicas == {}

\* Calls are interchangeable, and so are nodes.
Perms == Permutations(Calls) \cup Permutations(Nodes)

Conf(mode, quorum, merge, timeout, flaky, clients, calls, nodes) ==
  [mode |-> mode, quorum |-> quorum, merge |-> merge, timeout |-> timeout,
   flaky |-> flaky, clients |-> clients, calls |-> calls, nodes |-> nodes]

\* Calls one after the other in each mode, and two strong calls that
\* overlap while the bus and the store fail.
MCSafe ==
  {Conf("eventual", 1, FALSE, FALSE, FALSE, "settled", 3, 2),
   Conf("strong", 2, TRUE, FALSE, FALSE, "settled", 2, 2),
   Conf("strong", 2, FALSE, FALSE, TRUE, "free", 2, 2),
   Conf("local", 1, TRUE, FALSE, FALSE, "serial", 3, 1)}

\* Two calls that overlap with failures and timeouts on one node; two on two nodes
\* whose publishing goroutines overlap and may time out between the two
\* subscribers; and two settled ones.
MCLive ==
  {Conf("eventual", 1, TRUE, TRUE, TRUE, "free", 2, 1),
   Conf("eventual", 1, FALSE, TRUE, FALSE, "serial", 2, 2),
   Conf("eventual", 1, FALSE, FALSE, FALSE, "settled", 2, 2)}

\* Three calls, each starting when the one before has returned.
MCSerial == {Conf("eventual", 1, FALSE, FALSE, FALSE, "serial", 3, 2)}

\* Three strong calls with a merge function, one after the other.
MCCounter == {Conf("strong", 2, TRUE, FALSE, FALSE, "settled", 3, 2)}

\* Two calls that overlap on the only node of a local key.
MCLocal == {Conf("local", 1, FALSE, FALSE, FALSE, "free", 2, 1)}
=============================================================================
