----------------------------- MODULE TokenLock -----------------------------
(***************************************************************************)
(* The Redis and the NATS JetStream lockers, lock/redis.go and             *)
(* lock/nats.go, on one key.  Several instances of the locker (one per     *)
(* process) share the key of the server; on each of them any number of     *)
(* goroutines call TryLock, Acquire and Release.                           *)
(*                                                                         *)
(* A member of Calls is one such call.  The UUID token of a call that      *)
(* obtains the lock is the call itself: tokens are unique and a call       *)
(* creates the key at most once.  For the same reason the revision that    *)
(* NATS compares on delete is the token that was read.                     *)
(*                                                                         *)
(* rel[p] is a run of releaseWithToken: the one of p if p is a call of     *)
(* Release, and the one that its timer starts if p obtained a lock.        *)
(* ended is a history variable.                                            *)
(***************************************************************************)
EXTENDS Naturals, FiniteSets

CONSTANTS
  Configs,   \* the configurations considered, see Config
  Calls,     \* calls of TryLock, Acquire and Release
  Lockers,   \* instances of the locker
  None

\* The backend; whether calls give a ttl above zero; whether a request to the
\* server may fail, before or after its effect; whether a process may crash; and
\* a bound on the calls.
Config == [backend : {"redis", "nats"}, ttl : BOOLEAN, flaky : BOOLEAN,
           crashing : BOOLEAN, calls : Nat]

ASSUME TokenLockAssumption ==
  /\ Configs \subseteq Config
  /\ None \notin Calls /\ None \notin Lockers

VARIABLES
  conf,     \* the configuration
  kv,       \* the token stored under the key, or None
  entries,  \* entries[l]: the token in the entries (locks) map of l, or None
  op,       \* op[p]: the state of call p
  rel,      \* rel[p]: a run of releaseWithToken
  up,       \* the instances whose process runs
  ended     \* tokens that Release, a timer or the server was to remove

vars == <<conf, kv, entries, op, rel, up, ended>>

NoOp == [kind |-> "none", on |-> None, pc |-> "idle",
         won |-> FALSE, res |-> "none"]
NoRel == [pc |-> "off", tok |-> None]

Init ==
  /\ conf \in Configs
  /\ kv = None
  /\ entries = [l \in Lockers |-> None]
  /\ op = [p \in Calls |-> NoOp]
  /\ rel = [p \in Calls |-> NoRel]
  /\ up = Lockers
  /\ ended = {}

Goto(p, pc) == [op EXCEPT ![p].pc = pc]
Done(p, res) == [op EXCEPT ![p].pc = "done", ![p].res = res]

-----------------------------------------------------------------------------
(* TryLock and Acquire.                                                    *)

MayBegin(p, l) ==
  /\ op[p].pc = "idle" /\ l \in up
  /\ Cardinality({q \in Calls : op[q].pc # "idle"}) < conf.calls

Begin(p, kind, l) ==
  /\ MayBegin(p, l)
  /\ op' = [op EXCEPT ![p].kind = kind, ![p].on = l, ![p].pc = "create"]
  /\ UNCHANGED <<conf, kv, entries, rel, up, ended>>

\* What a failed TryLock leads to: Acquire waits, in NATS after it has set up
\* its watcher.
AfterRefusal(p) ==
  IF op[p].kind = "try" THEN Done(p, "false")
  ELSE Goto(p, IF conf.backend = "nats" THEN "watch" ELSE "wait")

\* SET NX or kv.Create.  The timer is armed before the entry is recorded.
Create(p) ==
  /\ op[p].pc = "create"
  /\ IF kv = None
       THEN /\ kv' = p
            /\ op' = [op EXCEPT ![p].pc = "record", ![p].won = TRUE]
            /\ rel' = IF conf.ttl
                        THEN [rel EXCEPT ![p] = [pc |-> "armed", tok |-> p]]
                        ELSE rel
       ELSE /\ op' = AfterRefusal(p)
            /\ UNCHANGED <<kv, rel>>
  /\ UNCHANGED <<conf, entries, up, ended>>

\* The request or its answer is lost: TryLock returns the error.
CreateFails(p) ==
  /\ conf.flaky /\ op[p].pc = "create"
  /\ \/ op' = Done(p, "error") /\ UNCHANGED kv
     \/ /\ kv = None /\ kv' = p
        /\ op' = [op EXCEPT ![p].pc = "done", ![p].won = TRUE, ![p].res = "error"]
  /\ UNCHANGED <<conf, entries, rel, up, ended>>

Record(p) ==
  /\ op[p].pc = "record"
  /\ entries' = [entries EXCEPT ![op[p].on] = p]
  /\ op' = Done(p, "true")
  /\ UNCHANGED <<conf, kv, rel, up, ended>>

\* Mutant: Acquire does not poll and the server sends no notifications.
RedisRetryNever(p) == FALSE /\ UNCHANGED vars

\* Redis: a keyspace notification, or else the polling timer, ends the wait.
RedisRetry(p) ==
  /\ conf.backend = "redis" /\ op[p].pc = "wait"
  /\ op' = Goto(p, "create")
  /\ UNCHANGED <<conf, kv, entries, rel, up, ended>>

\* NATS: kv.Watch with UpdatesOnly, after which only a delete ends the wait.
NatsWatch(p) ==
  /\ op[p].pc = "watch"
  /\ op' = Goto(p, "wait") \/ (conf.flaky /\ op' = Done(p, "error"))
  /\ UNCHANGED <<conf, kv, entries, rel, up, ended>>

\* NATS: the channel of the watcher is closed, and the loop tries again.
WatcherCloses(p) ==
  /\ conf.flaky /\ conf.backend = "nats" /\ op[p].pc = "wait"
  /\ op' = Goto(p, "create")
  /\ UNCHANGED <<conf, kv, entries, rel, up, ended>>

\* The context of Acquire ends.
Cancel(p) ==
  /\ op[p].pc = "wait"
  /\ op' = Done(p, "canceled")
  /\ UNCHANGED <<conf, kv, entries, rel, up, ended>>

-----------------------------------------------------------------------------
(* Release, and the timer of a lock.                                       *)

FirstRel == IF conf.backend = "nats" THEN "get" ELSE "delete"

\* Mutant: Release goes on when there is no entry.
BeginReleaseUnchecked(p, l) ==
  LET t == entries[l] IN
  /\ MayBegin(p, l)
  /\ op' = [op EXCEPT ![p].kind = "release", ![p].on = l, ![p].pc = "release"]
  /\ rel' = [rel EXCEPT ![p] = [pc |-> FirstRel, tok |-> t]]
  /\ ended' = ended \cup {t}
  /\ UNCHANGED <<conf, kv, entries, up>>

\* Redis stops the timer of the entry here, NATS in cleanupLocal.
BeginRelease(p, l) ==
  LET t == entries[l] IN
  /\ MayBegin(p, l)
  /\ op' = [op EXCEPT ![p] = [@ EXCEPT
       !.kind = "release", !.on = l,
       !.pc = IF t = None THEN "done" ELSE "release",
       !.res = IF t = None THEN "nil" ELSE "none"]]
  /\ IF t = None THEN UNCHANGED <<rel, ended>>
     ELSE /\ rel' = [q \in Calls |->
               IF q = p THEN [pc |-> FirstRel, tok |-> t]
               ELSE IF conf.backend = "redis" /\ q = t /\ rel[q].pc = "armed"
                 THEN NoRel
               ELSE rel[q]]
          /\ ended' = ended \cup {t}
  /\ UNCHANGED <<conf, kv, entries, up>>

\* Mutant: the timer fires Release, which looks up whatever entry is current.
FireUnbound(p) ==
  LET t == entries[op[p].on] IN
  /\ rel[p].pc = "armed"
  /\ rel' = [rel EXCEPT ![p] =
       IF t = None THEN NoRel ELSE [pc |-> FirstRel, tok |-> t]]
  /\ ended' = ended \cup {p}
  /\ UNCHANGED <<conf, kv, entries, op, up>>

\* The timer of the lock of p fires.
Fire(p) ==
  /\ rel[p].pc = "armed"
  /\ rel' = [rel EXCEPT ![p].pc = FirstRel]
  /\ ended' = ended \cup {p}
  /\ UNCHANGED <<conf, kv, entries, op, up>>

\* A delete of the key ends the wait of every watcher.
Wake == [q \in Calls |->
  IF conf.backend = "nats" /\ op[q].pc = "wait" THEN [op[q] EXCEPT !.pc = "create"]
                                           ELSE op[q]]

\* The end of a run of releaseWithToken, on the calls as o has them: a call of
\* Release returns.
RelDone(p, res, o) ==
  /\ rel' = [rel EXCEPT ![p].pc = "off"]
  /\ op' = IF op[p].kind = "release"
             THEN [o EXCEPT ![p].pc = "done", ![p].res = res] ELSE o

\* NATS reads the entry first: the key may be gone or belong to another call.
NatsGet(p) ==
  /\ rel[p].pc = "get"
  /\ IF kv \notin {None, rel[p].tok}
       THEN RelDone(p, "nil", op)
       ELSE /\ rel' = [rel EXCEPT ![p].pc = IF kv = None THEN "cleanup" ELSE "delete"]
            /\ UNCHANGED op
  /\ UNCHANGED <<conf, kv, entries, up, ended>>

\* Mutant: the script deletes the key whatever token it holds.
DeleteUnchecked(p) ==
  /\ rel[p].pc = "delete"
  /\ kv' = None
  /\ op' = Wake
  /\ rel' = [rel EXCEPT ![p].pc = "cleanup"]
  /\ UNCHANGED <<conf, entries, up, ended>>

\* The Lua script of Redis, or the delete of NATS at the revision it read.
\* When the token is not there Redis goes on to clean up; NATS returns.
Delete(p) ==
  /\ rel[p].pc = "delete"
  /\ \/ /\ kv = rel[p].tok
        /\ kv' = None
        /\ op' = Wake
        /\ rel' = [rel EXCEPT ![p].pc = "cleanup"]
     \/ /\ kv # rel[p].tok /\ conf.backend = "redis"
        /\ rel' = [rel EXCEPT ![p].pc = "cleanup"]
        /\ UNCHANGED <<kv, op>>
     \/ /\ kv # rel[p].tok /\ conf.backend = "nats"
        /\ RelDone(p, "nil", op)
        /\ UNCHANGED kv
  /\ UNCHANGED <<conf, entries, up, ended>>

\* A request of releaseWithToken fails, or its answer is lost.
DeleteFails(p) ==
  /\ conf.flaky /\ rel[p].pc \in {"get", "delete"}
  /\ \/ RelDone(p, "error", op) /\ UNCHANGED kv
     \/ /\ rel[p].pc = "delete" /\ kv = rel[p].tok
        /\ kv' = None
        /\ RelDone(p, "error", Wake)
  /\ UNCHANGED <<conf, entries, up, ended>>

\* Mutant: cleanupLocal does not compare the token.
CleanupUnchecked(p) ==
  /\ rel[p].pc = "cleanup"
  /\ entries' = [entries EXCEPT ![op[p].on] = None]
  /\ rel' = [rel EXCEPT ![p] = NoRel]
  /\ op' = IF op[p].kind = "release" THEN Done(p, "nil") ELSE op
  /\ UNCHANGED <<conf, kv, up, ended>>

\* Mutant: cleanupLocal stops the timer of the entry before it compares the token.
CleanupStopsFirst(p) ==
  LET t == entries[op[p].on] IN
  /\ rel[p].pc = "cleanup"
  /\ entries' = [entries EXCEPT ![op[p].on] = IF t = rel[p].tok THEN None ELSE @]
  /\ rel' = [q \in Calls |->
       IF q = p \/ (conf.backend = "nats" /\ q = t /\ rel[q].pc = "armed")
         THEN NoRel ELSE rel[q]]
  /\ op' = IF op[p].kind = "release" THEN Done(p, "nil") ELSE op
  /\ UNCHANGED <<conf, kv, up, ended>>

\* cleanupLocal, which in NATS stops the timer of the entry.
Cleanup(p) ==
  LET t == rel[p].tok
      mine == entries[op[p].on] = t IN
  /\ rel[p].pc = "cleanup"
  /\ entries' = [entries EXCEPT ![op[p].on] = IF mine THEN None ELSE @]
  /\ rel' = [q \in Calls |->
       IF q = p \/ (mine /\ conf.backend = "nats" /\ q = t /\ rel[q].pc = "armed")
         THEN NoRel ELSE rel[q]]
  /\ op' = IF op[p].kind = "release" THEN Done(p, "nil") ELSE op
  /\ UNCHANGED <<conf, kv, up, ended>>

-----------------------------------------------------------------------------
(* The server and the processes.                                           *)

\* Redis removes the key when the ttl given to SET is over; NATS has no ttl
\* for a single key.
Expire ==
  /\ conf.backend = "redis" /\ conf.ttl /\ kv # None
  /\ kv' = None
  /\ ended' = ended \cup {kv}
  /\ UNCHANGED <<conf, entries, op, rel, up>>

\* The process of l dies with its calls, its entries and its timers.
Crash(l) ==
  /\ conf.crashing /\ l \in up
  /\ up' = up \ {l}
  /\ entries' = [entries EXCEPT ![l] = None]
  /\ op' = [p \in Calls |->
       IF op[p].on = l /\ op[p].pc # "done" THEN [op[p] EXCEPT !.pc = "dead"] ELSE op[p]]
  /\ rel' = [p \in Calls |-> IF op[p].on = l THEN NoRel ELSE rel[p]]
  /\ UNCHANGED <<conf, kv, ended>>

LockStep(p) == Create(p) \/ CreateFails(p) \/ Record(p) \/ RedisRetry(p) \/ NatsWatch(p)
RelStep(p) == NatsGet(p) \/ Delete(p) \/ DeleteFails(p) \/ Cleanup(p)

Next ==
  \/ \E p \in Calls, l \in Lockers :
       Begin(p, "try", l) \/ Begin(p, "acquire", l) \/ BeginRelease(p, l)
  \/ \E p \in Calls : LockStep(p) \/ WatcherCloses(p) \/ Cancel(p) \/ Fire(p) \/ RelStep(p)
  \/ Expire
  \/ \E l \in Lockers : Crash(l)

Spec == Init /\ [][Next]_vars

\* Calls and timers that can run do, and the server expires keys; nobody has to
\* call Release or to end a context.
Fairness ==
  /\ \A p \in Calls : WF_vars(LockStep(p)) /\ WF_vars(Fire(p)) /\ WF_vars(RelStep(p))
  /\ WF_vars(Expire)

FairSpec == Spec /\ Fairness

-----------------------------------------------------------------------------
OpState ==
  [kind : {"none", "try", "acquire", "release"}, on : {None} \cup Lockers,
   pc : {"idle", "create", "record", "watch", "wait", "release", "done", "dead"},
   won : BOOLEAN,
   res : {"none", "true", "false", "error", "canceled", "nil"}]

RelState ==
  [pc : {"off", "armed", "get", "delete", "cleanup"}, tok : {None} \cup Calls]

\* Type invariant of the token lockers.
LockTypeOK ==
  /\ conf \in Configs
  /\ kv \in {None} \cup Calls
  /\ entries \in [Lockers -> {None} \cup Calls]
  /\ op \in [Calls -> OpState]
  /\ rel \in [Calls -> RelState]
  /\ up \subseteq Lockers
  /\ ended \subseteq Calls

Won == {p \in Calls : op[p].won}

\* Mutual exclusion between all calls on all instances: whoever obtained the
\* lock still has it in the server unless its own tenure has ended, so no late
\* timer, no old Release and no lost answer evicts another holder
\* (redis.go:89-111, nats.go:141-173).
Exclusive == Won \ ended \subseteq {kv}

\* The token lockers do what a Locker promises.
L == INSTANCE Locker WITH holder <- kv, granted <- Won

\* Every step of either backend is a step of the abstract locker or none.
ImplementsLocker == L!LockerSpec

\* A lock without a ttl that is held has its entry in the instance that obtained
\* it: otherwise Release would find no token, return nil and leave the lock to
\* nobody (redis.go:103-111, nats.go:175-184).
ReleaseFindsEntry ==
  ~conf.ttl => \A p \in Calls :
    op[p].res = "true" /\ p \notin ended /\ op[p].on \in up => entries[op[p].on] = p

\* NATS has no ttl for a key: a lock with a ttl ends because the timer of its own
\* call runs releaseWithToken (nats.go:76-84).  While nothing fails or crashes no
\* lock stays for ever, although a Release may find the token of another call in
\* the entry and free nothing, or an old cleanupLocal run beside a new holder
\* (nats.go:175-184).
NatsLockEnds ==
  []<>(conf.backend = "nats" /\ conf.ttl /\ ~conf.flaky /\ ~conf.crashing
         => kv = None)

\* docs/lock.md: Acquire "Blocks until acquired or context expires".  When every
\* lock has a ttl, the calls that have started all return in the end.
CallsReturn ==
  <>[](conf.ttl => \A p \in Calls : op[p].pc \in {"idle", "done", "dead"})

\* In Redis polling makes up for every notification that Acquire misses, so
\* calls return even when requests fail and processes crash.
RedisCallsReturn ==
  <>[](conf.backend = "redis" /\ conf.ttl =>
         \A p \in Calls : op[p].pc \in {"idle", "done", "dead"})
=============================================================================
