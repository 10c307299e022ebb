-------------------------------- MODULE Txn --------------------------------
(***************************************************************************)
(* Transactions of one node: Txn and Commit of core/core.go, on several    *)
(* keys, with or without a store that has batches (adapter/adapter.go).    *)
(*                                                                         *)
(* A member of Txns is one transaction; the value it writes is the         *)
(* transaction itself.  Commit holds no lock, so the commits of several    *)
(* transactions interleave at every access to the cache, the store and the *)
(* bus.  The bus answers or fails; what it does is in SyncBus.             *)
(*                                                                         *)
(* acked, applied and stored are history variables.                        *)
(***************************************************************************)
EXTENDS Naturals, Sequences, FiniteSets

CONSTANTS
  Configs,   \* the configurations considered, see Config
  Txns,      \* transactions
  Keys,
  Initial,   \* the value that a key has at the start
  Absent     \* no value

Value == Txns \cup {Initial}
Kinds == {"none", "set", "cas", "delete"}

\* The mode of each key; the registered keys; the store (none, one without or one
\* with batches); whether there is a bus; whether requests fail; whether calls
\* overlap.  The bounds: the operations that transactions queue, the number of
\* transactions, and the time until which Get loads values.
Config ==
  [mode : [Keys -> {"local", "eventual", "strong"}], registered : SUBSET Keys,
   store : {"none", "plain", "batch"}, bus : BOOLEAN, flaky : BOOLEAN,
   overlap : BOOLEAN, kinds : SUBSET Kinds, txns : Nat, loads : Nat]

ASSUME TxnAssumption ==
  /\ Configs \subseteq Config
  /\ Initial \notin Txns /\ Absent \notin Value

VARIABLES
  conf,
  cache,    \* cache[k]: the L1 entry of the node, NoEntry if there is none
  store,    \* store[k]: the value in the store, or Absent
  clock,    \* the next timestamp
  txn,      \* txn[t]: the state of a transaction
  acked,    \* acked[t]: the strong keys whose quorum t has
  applied,  \* applied[t]: the keys whose cache entry t has changed
  stored    \* stored[t]: the keys whose value in the store t has changed

history == <<acked, applied, stored>>
vars == <<conf, cache, store, clock, txn, history>>

Entry(val, ts) == [val |-> val, ts |-> ts]
NoEntry == Entry(Absent, 0)
NoOp == [kind |-> "none", old |-> Absent]

\* sets and deletes are the keys still to do, later the deferred operations of
\* strong keys, batch the writes that wait for batch.Commit.
NoTxn == [pc |-> "build", ops |-> [k \in Keys |-> NoOp], sets |-> {}, deletes |-> {},
          key |-> Absent, ts |-> 0, new |-> NoEntry, later |-> <<>>, batch |-> {},
          res |-> "none"]

Init ==
  /\ conf \in Configs
  /\ cache = [k \in Keys |-> Entry(Initial, 1)]
  /\ store = [k \in Keys |-> IF conf.store = "none" THEN Absent ELSE Initial]
  /\ clock = 2
  /\ txn = [t \in Txns |-> NoTxn]
  /\ acked = [t \in Txns |-> {}]
  /\ applied = [t \in Txns |-> {}]
  /\ stored = [t \in Txns |-> {}]

Ops(t, kinds) == {k \in Keys : txn[t].ops[k].kind \in kinds}

Done(t, res) == [txn EXCEPT ![t].pc = "done", ![t].res = res]
Goto(t, pc) == [txn EXCEPT ![t].pc = pc]

Batched == conf.store = "batch"
Quiet == \A u \in Txns : txn[u].pc \in {"build", "done"}

\* A request of t fails and Commit returns its error.
Fails(t) == conf.flaky /\ txn' = Done(t, "error")

-----------------------------------------------------------------------------
(* Set, Delete and CompareAndSwap of a transaction: the last one on a key  *)
(* counts.                                                                 *)

Queue(t, k, kind, old) ==
  /\ txn[t].pc = "build" /\ kind \in conf.kinds
  /\ txn' = [txn EXCEPT ![t].ops[k] = [kind |-> kind, old |-> old]]
  /\ UNCHANGED <<conf, cache, store, clock, history>>

TxnSet(t, k) == Queue(t, k, "set", Absent)
TxnDelete(t, k) == Queue(t, k, "delete", Absent)
CompareAndSwap(t, k, old) == Queue(t, k, "cas", old)

\* Mutant: Set leaves the key among the deletes.
CommitKeepsDeletes(t) ==
  /\ txn[t].pc = "build" /\ Ops(t, {"none"}) # Keys
  /\ Cardinality({u \in Txns : txn[u].pc # "build"}) < conf.txns
  /\ conf.overlap \/ Quiet
  /\ \/ txn' = [txn EXCEPT ![t].pc = "pick", ![t].sets = Ops(t, {"set", "cas"}),
                           ![t].deletes = Ops(t, {"set", "delete"})]
     \/ Batched /\ Fails(t)
  /\ UNCHANGED <<conf, cache, store, clock, history>>

\* Commit starts, with a batch if the store has them.  An empty transaction does
\* nothing and is left out.
Commit(t) ==
  /\ txn[t].pc = "build" /\ Ops(t, {"none"}) # Keys
  /\ Cardinality({u \in Txns : txn[u].pc # "build"}) < conf.txns
  /\ conf.overlap \/ Quiet
  /\ \/ txn' = [txn EXCEPT ![t].pc = "pick", ![t].sets = Ops(t, {"set", "cas"}),
                           ![t].deletes = Ops(t, {"delete"})]
     \/ Batched /\ Fails(t)
  /\ UNCHANGED <<conf, cache, store, clock, history>>

-----------------------------------------------------------------------------
(* The loops over the sets and then over the deletes, in any order.        *)

PickSet(t, k) ==
  /\ txn[t].pc = "pick" /\ k \in txn[t].sets
  /\ IF k \notin conf.registered
       THEN txn' = Done(t, "ErrUnregistered") /\ UNCHANGED clock
       ELSE /\ txn' = [txn EXCEPT ![t].pc = "read", ![t].sets = @ \ {k},
                                  ![t].key = k, ![t].ts = clock]
            /\ clock' = clock + 1
  /\ UNCHANGED <<conf, cache, store, history>>

\* Mutant: a compare-and-swap of a key that is not cached goes ahead.
CasMismatchIfCached(op, e) == op.kind = "cas" /\ e.val # Absent /\ e.val # op.old

\* A compare-and-swap needs the expected value in the cache.
CasMismatch(op, e) == op.kind = "cas" /\ e.val # op.old

\* cache.Get of the old value, the comparison and the merge, where the new value
\* wins if its timestamp is later.
Read(t) ==
  LET k == txn[t].key
      e == cache[k]
      mine == Entry(t, txn[t].ts)
  IN
  /\ txn[t].pc = "read"
  /\ \/ CasMismatch(txn[t].ops[k], e) /\ txn' = Done(t, "ErrCASMismatch")
     \/ /\ ~CasMismatch(txn[t].ops[k], e)
        /\ txn' = [Goto(t, "route") EXCEPT ![t].new =
             IF e.val # Absent /\ e.ts >= mine.ts THEN e ELSE mine]
     \/ Fails(t)
  /\ UNCHANGED <<conf, cache, store, clock, history>>

PickDelete(t, k) ==
  /\ txn[t].pc = "pick" /\ txn[t].sets = {} /\ k \in txn[t].deletes
  /\ txn' = IF k \notin conf.registered THEN Done(t, "ErrUnregistered")
            ELSE [txn EXCEPT ![t].pc = "route", ![t].deletes = @ \ {k},
                             ![t].key = k, ![t].new = NoEntry]
  /\ UNCHANGED <<conf, cache, store, clock, history>>

\* Mutant: a strong key is applied as soon as it has its quorum.
RouteAtOnce(t) ==
  LET k == txn[t].key IN
  /\ txn[t].pc = "route"
  /\ \/ conf.mode[k] # "strong" /\ txn' = Goto(t, "apply") /\ UNCHANGED acked
     \/ conf.mode[k] = "strong" /\ ~conf.bus /\ txn' = Done(t, "ErrBusRequired") /\ UNCHANGED acked
     \/ /\ conf.mode[k] = "strong" /\ conf.bus
        /\ txn' = Goto(t, "apply")
        /\ acked' = [acked EXCEPT ![t] = @ \cup {k}]
     \/ conf.mode[k] = "strong" /\ conf.bus /\ Fails(t) /\ UNCHANGED acked
  /\ UNCHANGED <<conf, cache, store, clock, applied, stored>>

\* The switch on the mode: a strong key waits for its quorum and is put off.
Route(t) ==
  LET k == txn[t].key IN
  /\ txn[t].pc = "route"
  /\ \/ conf.mode[k] # "strong" /\ txn' = Goto(t, "apply") /\ UNCHANGED acked
     \/ conf.mode[k] = "strong" /\ ~conf.bus /\ txn' = Done(t, "ErrBusRequired") /\ UNCHANGED acked
     \/ /\ conf.mode[k] = "strong" /\ conf.bus
        /\ txn' = [Goto(t, "pick") EXCEPT
             ![t].later = Append(@, [key |-> k, new |-> txn[t].new])]
        /\ acked' = [acked EXCEPT ![t] = @ \cup {k}]
     \/ conf.mode[k] = "strong" /\ conf.bus /\ Fails(t) /\ UNCHANGED acked
  /\ UNCHANGED <<conf, cache, store, clock, applied, stored>>

-----------------------------------------------------------------------------
(* applyLocal, and what comes after the loops.                             *)

\* cache.Set or cache.Invalidate, which may fail before or after its effect.
ApplyCache(t) ==
  LET k == txn[t].key IN
  /\ txn[t].pc = "apply"
  /\ \/ /\ cache' = [cache EXCEPT ![k] = txn[t].new]
        /\ applied' = [applied EXCEPT ![t] = @ \cup {k}]
        /\ txn' = Goto(t, "persist") \/ Fails(t)
     \/ Fails(t) /\ UNCHANGED <<cache, applied>>
  /\ UNCHANGED <<conf, store, clock, acked, stored>>

AfterApply(t) ==
  IF conf.mode[txn[t].key] = "eventual" /\ conf.bus THEN "publish" ELSE "pick"

\* Mutant: the store is written at once although there is a batch.
PersistUnbatched(t) ==
  LET k == txn[t].key
      v == txn[t].new.val
  IN
  /\ txn[t].pc = "persist"
  /\ store' = [store EXCEPT ![k] = v]
  /\ stored' = [stored EXCEPT ![t] = @ \cup {k}]
  /\ txn' = Goto(t, AfterApply(t))
  /\ UNCHANGED <<conf, cache, clock, acked, applied>>

\* batch.Set and batch.Delete, or store.Set, which may fail before or after its
\* effect; a store without batches keeps a deleted key.
Persist(t) ==
  LET k == txn[t].key
      v == txn[t].new.val
      next == Goto(t, AfterApply(t))
      writes == conf.store = "plain" /\ v # Absent
  IN
  /\ txn[t].pc = "persist"
  /\ \/ /\ Batched
        /\ \/ txn' = [next EXCEPT ![t].batch = @ \cup {[key |-> k, val |-> v]}]
           \/ Fails(t)
        /\ UNCHANGED <<store, stored>>
     \/ /\ writes
        /\ store' = [store EXCEPT ![k] = v]
        /\ stored' = [stored EXCEPT ![t] = @ \cup {k}]
        /\ txn' = next \/ Fails(t)
     \/ writes /\ Fails(t) /\ UNCHANGED <<store, stored>>
     \/ ~Batched /\ ~writes /\ txn' = next /\ UNCHANGED <<store, stored>>
  /\ UNCHANGED <<conf, cache, clock, acked, applied>>

PublishKey(t) ==
  /\ txn[t].pc = "publish"
  /\ txn' = Goto(t, "pick") \/ Fails(t)
  /\ UNCHANGED <<conf, cache, store, clock, history>>

LoopsOver(t) == txn[t].pc = "pick" /\ txn[t].sets = {} /\ txn[t].deletes = {}

\* The next deferred operation of a strong key.
RunDeferred(t) ==
  LET op == Head(txn[t].later) IN
  /\ LoopsOver(t) /\ txn[t].later # <<>>
  /\ txn' = [Goto(t, "apply") EXCEPT ![t].key = op.key, ![t].new = op.new,
                                     ![t].later = Tail(@)]
  /\ UNCHANGED <<conf, cache, store, clock, history>>

BatchKeys(batch) == {w.key : w \in batch}

\* The store after Commit of a batch: a lock or a transaction of the database makes
\* it one step.
AfterBatch(batch) ==
  [k \in Keys |-> IF k \in BatchKeys(batch) THEN (CHOOSE w \in batch : w.key = k).val
                  ELSE store[k]]

\* batch.Commit, if there is a batch; it may fail before or after its effect.
CommitBatch(t) ==
  /\ LoopsOver(t) /\ txn[t].later = <<>>
  /\ \/ /\ store' = AfterBatch(txn[t].batch)
        /\ stored' = [stored EXCEPT ![t] = @ \cup BatchKeys(txn[t].batch)]
        /\ txn' = Done(t, "nil") \/ (Batched /\ Fails(t))
     \/ Batched /\ Fails(t) /\ UNCHANGED <<store, stored>>
  /\ UNCHANGED <<conf, cache, clock, acked, applied>>

\* The cache drops an entry: its TTL, an eviction or an invalidation of another node.
Evict(k) ==
  /\ cache[k].val # Absent
  /\ cache' = [cache EXCEPT ![k] = NoEntry]
  /\ UNCHANGED <<conf, store, clock, txn, history>>

\* A Get that misses fills the cache from the store; its own steps are in Warp.
Load(k) ==
  /\ k \in conf.registered /\ cache[k].val = Absent /\ store[k] # Absent
  /\ conf.overlap \/ Quiet
  /\ clock < conf.loads
  /\ cache' = [cache EXCEPT ![k] = Entry(store[k], clock)]
  /\ clock' = clock + 1
  /\ UNCHANGED <<conf, store, txn, history>>

Step(t) ==
  \/ \E k \in Keys : PickSet(t, k) \/ PickDelete(t, k)
  \/ Read(t) \/ Route(t) \/ ApplyCache(t) \/ Persist(t) \/ PublishKey(t)
  \/ RunDeferred(t) \/ CommitBatch(t)

Next ==
  \/ \E t \in Txns, k \in Keys :
       \/ TxnSet(t, k) \/ TxnDelete(t, k)
       \/ \E old \in Value \ {t} : CompareAndSwap(t, k, old)
  \/ \E t \in Txns : Commit(t) \/ Step(t)
  \/ \E k \in Keys : Evict(k) \/ Load(k)

Spec == Init /\ [][Next]_vars

-----------------------------------------------------------------------------
TxnState ==
  [pc : {"build", "pick", "read", "route", "apply", "persist", "publish", "done"},
   ops : [Keys -> [kind : Kinds, old : Value \cup {Absent}]],
   sets : SUBSET Keys, deletes : SUBSET Keys, key : Keys \cup {Absent}, ts : Nat,
   new : [val : Value \cup {Absent}, ts : Nat],
   later : Seq([key : Keys, new : [val : Value \cup {Absent}, ts : Nat]]),
   batch : SUBSET [key : Keys, val : Value \cup {Absent}],
   res : {"none", "nil", "error", "ErrUnregistered", "ErrCASMismatch", "ErrBusRequired"}]

\* Type invariant of transactions; a key is in a batch at most once.
TxnTypeOK ==
  /\ cache \in [Keys -> [val : Value \cup {Absent}, ts : Nat]]
  /\ store \in [Keys -> Value \cup {Absent}]
  /\ clock \in Nat
  /\ txn \in [Txns -> TxnState]
  /\ \A t \in Txns : \A v, w \in txn[t].batch : v.key = w.key => v = w

All(t) == Ops(t, {"set", "cas", "delete"})
Strong(t) == {k \in All(t) : conf.mode[k] = "strong"}

\* docs/core.md: Commit "waits for a quorum for *all* keys before applying *any*",
\* in strong mode.  No strong key is applied before all have their quorum.
QuorumFirst ==
  \A t \in Txns : applied[t] \cap Strong(t) # {} => Strong(t) \subseteq acked[t]

\* With batches the store has all of a transaction or nothing of it, whatever fails
\* and however commits interleave (core.go:1298-1307, 1465-1469).
BatchWhole == Batched => \A t \in Txns : stored[t] \in {{}, All(t)}

\* When calls do not overlap, a compare-and-swap from the same old value succeeds
\* once, even if the cache drops the entry at any point, or a Get loads it again
\* between two commits (core.go:1329-1342).
CasOnce ==
  ~conf.overlap => \A k \in Keys : \A t, u \in Txns :
    /\ txn[t].res = "nil" /\ txn[u].res = "nil"
    /\ txn[t].ops[k].kind = "cas" /\ txn[u].ops[k].kind = "cas"
    /\ txn[t].ops[k].old = txn[u].ops[k].old
    => t = u

\* core.go:1286: "Commit applies all queued operations atomically".  A Commit that
\* returns an error has changed nothing.
AllOrNothing ==
  \A t \in Txns : txn[t].res \notin {"none", "nil"} => applied[t] = {} /\ stored[t] = {}
=============================================================================
