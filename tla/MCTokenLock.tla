---------------------------- MODULE MCTokenLock ----------------------------
(* Instance of TokenLock for model checking. *)
EXTENDS TokenLock, TLC

Conf(backend, ttl, fails, calls) ==
  [backend |-> backend, ttl |-> ttl, flaky |-> fails, crashing |-> fails,
   calls |-> calls]

\* Both backends, with and without a ttl: two calls where everything may fail
\* and three where nothing does.
MCAll == {Conf(b, ttl, n = 2, n) : b \in {"redis", "nats"}, ttl \in BOOLEAN, n \in 2..3}

\* NATS with a ttl on every lock and no failures.
MCNats == {Conf("nats", TRUE, FALSE, 2)}

=============================================================================
