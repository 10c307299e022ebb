---------------------------- MODULE MCStreamBus ----------------------------
(* Instance of StreamBus for model checking. *)
EXTENDS StreamBus, TLC

CONSTANTS a, b

\* A priority outside the classes, which counts as normal, and the highest one.
MCPriorities == {3, 9}

Opt(topics, buffer, overflow, replay, since) ==
  [topics |-> topics, prefix |-> topics # {a}, buffer |-> buffer,
   overflow |-> overflow, replay |-> replay, since |-> since]

Conf(capacity, overlap, close, options, topics, prios, pubs, nsubs) ==
  [capacity |-> capacity, overlap |-> overlap, closing |-> close, options |-> options,
   topics |-> topics, prios |-> prios, pubs |-> pubs, subs |-> nsubs]

\* Overlapping publishers that block; the policies that drop, without and with
\* overlapping publishers; resumption; closing.
MCAll ==
  {Conf(0, TRUE, FALSE, {Opt({a}, 1, "Block", 0, 0)}, {a}, {3}, 3, 1),
   Conf(1, FALSE, FALSE,
        {Opt({a}, 2, o, 1, 0) : o \in {"DropNewest", "DropOldest", "LatestOnly"}},
        {a}, {3, 9}, 4, 1),
   Conf(0, TRUE, FALSE,
        {Opt({a}, 1, o, 0, 0) : o \in {"DropNewest", "DropOldest", "LatestOnly"}},
        {a}, {3}, 3, 1),
   Conf(2, FALSE, FALSE,
        {Opt({a}, 1, "Block", 2, 0)} \cup {Opt({a}, 2, "Block", 2, since) : since \in 1..2},
        {a, b}, {3}, 4, 1),
   Conf(0, TRUE, TRUE, {Opt({a}, 1, "Block", 0, 1), Opt({a, b}, 1, "Block", 0, 0)},
        {a}, {3}, 2, 1),
   Conf(0, TRUE, TRUE, {Opt({a, b}, 1, "Block", 0, 0)}, {a}, {3}, 1, 2),
   Conf(0, TRUE, FALSE, {Opt({a}, 1, "Block", 0, 0)}, {a}, {3}, 2, 2)}

\* Two publishers that overlap and a client that resumes.
MCResume == {Conf(1, TRUE, FALSE, {Opt({a}, 1, "Block", 0, 1)}, {a}, {3}, 2, 1)}
============================================================================
