------------------------------- MODULE MCTxn -------------------------------
(* Instance of Txn for model checking. *)
EXTENDS Txn, TLC

CONSTANTS k1, k2

Perms == Permutations(Txns)

\* Bounds: txns transactions commit; Get loads values up to time loads.
Conf(m1, m2, st, flaky, overlap, kinds, txns, loads) ==
  [mode |-> (k1 :> m1 @@ k2 :> m2), registered |-> {k1, k2}, store |-> st, bus |-> TRUE,
   flaky |-> flaky, overlap |-> overlap, kinds |-> kinds, txns |-> txns, loads |-> loads]

\* Overlapping commits with failures, in all modes and with all stores; commits that
\* end early; and calls one after the other.
MCAll ==
  {Conf(m, "strong", st, TRUE, TRUE, {"set", "delete"}, 2, 0) :
     m \in {"local", "eventual", "strong"}, st \in {"none", "plain", "batch"}}
  \cup {[Conf("strong", "eventual", "batch", FALSE, TRUE, {"set", "cas", "delete"}, 2, 0)
           EXCEPT !.registered = {k1}],
        [Conf("strong", "eventual", "batch", FALSE, TRUE, {"set", "delete"}, 1, 0)
           EXCEPT !.bus = FALSE]}
  \cup {Conf("strong", "local", st, FALSE, FALSE, {"cas", "delete"}, 2, 5) :
          st \in {"none", "plain", "batch"}}

\* Calls one after the other on two keys of this node, and nothing fails.
MCAtomic == {Conf("local", "local", "batch", FALSE, FALSE, {"set", "cas"}, 1, 0)}
=============================================================================
