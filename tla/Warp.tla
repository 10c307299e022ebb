-------------------------------- MODULE Warp --------------------------------
(***************************************************************************)
(* The cache path of Warp, core/core.go: nodes that each hold an L1 cache, *)
(* one shared store, and the in-process bus of SyncBus between them, seen  *)
(* from one key registered with the same mode on every node.               *)
(*                                                                         *)
(* A member of Calls is one call of Get, Set or Invalidate on some node,   *)
(* together with the goroutine it may start; the same member names the     *)
(* bus call it makes.  A member of Channels is a node, whose listener owns *)
(* the channel of that name.  Between two steps of a call any other call   *)
(* or listener may run: no lock spans the cache, the store and the bus.    *)
(*                                                                         *)
(* The data of a value is the set of Set calls that contributed to it: the *)
(* value of call p is {p}, the default merge keeps one of two values and a *)
(* custom merge function joins them, as a counter or a list would.         *)
(***************************************************************************)
EXTENDS SyncBus

CONSTANTS
  Configs,   \* the configurations considered, see Config
  Absent     \* no value

Nodes == Channels
Value == SUBSET Calls

\* How the key and the instances are configured: the mode of Register, the
\* quorum of SetQuorum, whether Merge registered a function for the key,
\* WithPublishTimeout, whether bus.IsHealthy, the cache and the store may fail, how
\* clients call (see MayBegin), and the bounds on the calls and the nodes that take
\* part.
Config ==
  [mode : {"local", "eventual", "strong"}, quorum : Nat \ {0}, merge : BOOLEAN,
   timeout : BOOLEAN, flaky : BOOLEAN, clients : {"free", "serial", "settled"},
   calls : Nat, nodes : Nat]

ASSUME WarpAssumption ==
  /\ Configs \subseteq Config
  /\ \A v \in Value : v # Absent

VARIABLES
  conf,     \* the configuration
  reg,      \* reg[n]: the key is registered on node n
  lst,      \* lst[n]: the goroutine listenForInvalidations of node n
  cache,    \* cache[n]: the L1 entry of node n, NoEntry if it has none
  store,    \* the value in the shared store, or Absent
  flight,   \* flight[n]: the call whose fetch the singleflight group of n runs
  op,       \* op[p]: the state of call p
  clock     \* the next timestamp

warpVars == <<conf, reg, lst, cache, store, flight, op, clock>>
vars == <<busVars, warpVars>>

Entry(val, ts) == [val |-> val, ts |-> ts]
NoEntry == Entry(Absent, 0)

NoOp == [kind |-> "none", node |-> Absent, pc |-> "idle", lead |-> Absent,
         val |-> Absent, ts |-> 0, res |-> "none"]

Init ==
  /\ BusInit
  /\ conf \in Configs
  /\ reg = [n \in Nodes |-> FALSE]
  /\ lst = [n \in Nodes |-> "off"]
  /\ cache = [n \in Nodes |-> NoEntry]
  /\ store \in {Absent, {}}
  /\ flight = [n \in Nodes |-> Absent]
  /\ op = [p \in Calls |-> NoOp]
  /\ clock = 1

-----------------------------------------------------------------------------
(* Registration and the listener of a node.                                *)

\* Register starts the listener as a goroutine and does not wait for its
\* subscription.
Register(n) ==
  /\ ~reg[n] /\ Cardinality({m \in Nodes : reg[m]}) < conf.nodes
  /\ reg' = [reg EXCEPT ![n] = TRUE]
  /\ lst' = [lst EXCEPT ![n] = IF conf.mode = "local" THEN "off" ELSE "starting"]
  /\ UNCHANGED <<busVars, conf, cache, store, flight, op, clock>>

ListenerSubscribe(n) ==
  /\ lst[n] = "starting"
  /\ Subscribe(n)
  /\ lst' = [lst EXCEPT ![n] = "wait"]
  /\ UNCHANGED <<conf, reg, cache, store, flight, op, clock>>

\* Mutant: the listener drops the event it has taken.
ReceiveOnly(n) ==
  /\ lst[n] = "wait"
  /\ Receive(n)
  /\ UNCHANGED warpVars

\* The loop of the listener: take an event, then invalidate the entry.
ListenerReceive(n) ==
  /\ lst[n] = "wait"
  /\ Receive(n)
  /\ lst' = [lst EXCEPT ![n] = "invalidate"]
  /\ UNCHANGED <<conf, reg, cache, store, flight, op, clock>>

\* The error of cache.Invalidate is ignored.
ListenerInvalidate(n) ==
  /\ lst[n] = "invalidate"
  /\ cache' = [cache EXCEPT ![n] = NoEntry] \/ (conf.flaky /\ UNCHANGED cache)
  /\ lst' = [lst EXCEPT ![n] = "wait"]
  /\ UNCHANGED <<busVars, conf, reg, store, flight, op, clock>>

Listener(n) ==
  ListenerSubscribe(n) \/ ListenerReceive(n) \/ ListenerInvalidate(n)

\* The TTL of the entry ends, the cache evicts it, or InvalidateLocal is called.
Evict(n) ==
  /\ cache[n].val # Absent
  /\ cache' = [cache EXCEPT ![n] = NoEntry]
  /\ UNCHANGED <<busVars, conf, reg, lst, store, flight, op, clock>>

-----------------------------------------------------------------------------
(* When clients call.  "free": at any time.  "serial": a call starts when  *)
(* every earlier one has returned and every listener has subscribed, as a  *)
(* sequential program does.  "settled": moreover the goroutines that       *)
(* publish have finished.                                                  *)

Returned(p) == op[p].pc \in {"idle", "publish", "done"}

MayBegin ==
  \/ conf.clients = "free"
  \/ /\ Cardinality({n \in Nodes : reg[n]}) = conf.nodes
     /\ \A n \in Nodes : lst[n] # "starting"
     /\ \A p \in Calls : Returned(p)
     /\ conf.clients = "settled" => \A p \in Calls : op[p].pc # "publish"

\* A call on an unregistered key returns ErrUnregistered and does nothing else.
Begin(p, kind, n, pc) ==
  /\ MayBegin
  /\ op[p].pc = "idle"
  /\ Cardinality({q \in Calls : op[q].pc # "idle"}) < conf.calls
  /\ op' = [op EXCEPT ![p] =
       IF reg[n] THEN [@ EXCEPT !.kind = kind, !.node = n, !.pc = pc]
                 ELSE [@ EXCEPT !.kind = kind, !.node = n, !.pc = "done",
                                !.res = "ErrUnregistered"]]
  /\ UNCHANGED <<busVars, conf, reg, lst, cache, store, flight, clock>>

Done(p, result) == [op EXCEPT ![p].pc = "done", ![p].res = result]
Goto(p, pc) == [op EXCEPT ![p].pc = pc]

\* A request of p to the cache or the store fails and the call returns its error.
Fails(p, err) == conf.flaky /\ op' = Done(p, err)

-----------------------------------------------------------------------------
(* Get: a hit returns; a miss fetches from the store through the           *)
(* singleflight group and then writes the cache.                           *)

BeginGet(p, n) == Begin(p, "get", n, "lookup")

\* An error of cache.Get counts as a miss.
Lookup(p) ==
  LET n == op[p].node IN
  /\ op[p].pc = "lookup"
  /\ \/ /\ cache[n].val # Absent
        /\ op' = [Done(p, "nil") EXCEPT ![p].val = cache[n].val]
     \/ /\ cache[n].val = Absent \/ conf.flaky
        /\ op' = Goto(p, "do")
  /\ UNCHANGED <<busVars, conf, reg, lst, cache, store, flight, clock>>

\* Mutant: no singleflight group.
DoAlone(p) ==
  /\ op[p].pc = "do"
  /\ op' = Goto(p, "fetch")
  /\ UNCHANGED <<busVars, conf, reg, lst, cache, store, flight, clock>>

\* group.Do: the first caller runs the fetch, a later one waits for it.
Do(p) ==
  LET n == op[p].node IN
  /\ op[p].pc = "do"
  /\ IF flight[n] = Absent
       THEN /\ flight' = [flight EXCEPT ![n] = p]
            /\ op' = Goto(p, "fetch")
       ELSE /\ op' = [Goto(p, "wait") EXCEPT ![p].lead = flight[n]]
            /\ UNCHANGED flight
  /\ UNCHANGED <<busVars, conf, reg, lst, cache, store, clock>>

\* store.Get inside the group.
Fetch(p) ==
  /\ op[p].pc = "fetch"
  /\ \/ op' = [Goto(p, "fetched") EXCEPT ![p].val = store, ![p].ts = clock,
                 ![p].res = IF store = Absent THEN "ErrNotFound" ELSE "none"]
     \/ conf.flaky /\ op' = [Goto(p, "fetched") EXCEPT ![p].res = "ErrStore"]
  /\ clock' = clock + 1
  /\ UNCHANGED <<busVars, conf, reg, lst, cache, store, flight>>

\* Mutant: only the call that ran the fetch gets its result.
ShareWithNobody(p) ==
  /\ op[p].pc = "fetched"
  /\ flight' = [flight EXCEPT ![op[p].node] = Absent]
  /\ op' = Goto(p, IF op[p].res = "none" THEN "fill" ELSE "done")
  /\ UNCHANGED <<busVars, conf, reg, lst, cache, store, clock>>

\* The group forgets the key and hands the result to every waiting call.
Share(p) ==
  /\ op[p].pc = "fetched"
  /\ flight' = [flight EXCEPT ![op[p].node] = Absent]
  /\ op' = [q \in Calls |->
       IF q = p \/ (op[q].pc = "wait" /\ op[q].lead = p)
         THEN [op[q] EXCEPT !.val = op[p].val, !.ts = op[p].ts, !.res = op[p].res,
                            !.pc = IF op[p].res = "none" THEN "fill" ELSE "done"]
         ELSE op[q]]
  /\ UNCHANGED <<busVars, conf, reg, lst, cache, store, clock>>

\* cache.Set of the fetched value, whose error is ignored.
Fill(p) ==
  /\ op[p].pc = "fill"
  /\ \/ cache' = [cache EXCEPT ![op[p].node] = Entry(op[p].val, op[p].ts)]
     \/ conf.flaky /\ UNCHANGED cache
  /\ op' = Done(p, "nil")
  /\ UNCHANGED <<busVars, conf, reg, lst, store, flight, clock>>

GetStep(p) == Lookup(p) \/ Do(p) \/ Fetch(p) \/ Share(p) \/ Fill(p)

-----------------------------------------------------------------------------
(* Set and Invalidate.                                                     *)

BeginSet(p, n) == Begin(p, "set", n, "stamp")
BeginInvalidate(p, n) == Begin(p, "invalidate", n, "route")

\* The timestamp of the new value is taken before the old one is read.
Stamp(p) ==
  /\ op[p].pc = "stamp"
  /\ op' = [Goto(p, "read") EXCEPT ![p].ts = clock]
  /\ clock' = clock + 1
  /\ UNCHANGED <<busVars, conf, reg, lst, cache, store, flight>>

\* Engine.Merge of the old value and the value of call p, as [val, ts].
Merged(p, old) ==
  IF conf.merge THEN Entry(old.val \cup {p}, op[p].ts)
  ELSE IF op[p].ts > old.ts THEN Entry({p}, op[p].ts)
  ELSE old

NewValue(p, new, pc) ==
  op' = [Goto(p, pc) EXCEPT ![p].val = new.val, ![p].ts = new.ts]

\* Mutant: a key with a merge function does not look in the store on a miss.
ReadOldCacheOnly(p) ==
  LET n == op[p].node IN
  /\ op[p].pc = "read"
  /\ \/ cache[n].val # Absent /\ NewValue(p, Merged(p, cache[n]), "route")
     \/ cache[n].val = Absent /\ NewValue(p, Entry({p}, op[p].ts), "route")
     \/ Fails(p, "ErrCache")
  /\ UNCHANGED <<busVars, conf, reg, lst, cache, store, flight, clock>>

\* cache.Get of the old value; on a miss a key with a merge function looks in
\* the store next.
ReadOld(p) ==
  LET n == op[p].node IN
  /\ op[p].pc = "read"
  /\ \/ cache[n].val # Absent /\ NewValue(p, Merged(p, cache[n]), "route")
     \/ cache[n].val = Absent /\ conf.merge /\ op' = Goto(p, "readStore")
     \/ /\ cache[n].val = Absent /\ ~conf.merge
        /\ NewValue(p, Entry({p}, op[p].ts), "route")
     \/ Fails(p, "ErrCache")
  /\ UNCHANGED <<busVars, conf, reg, lst, cache, store, flight, clock>>

ReadStore(p) ==
  /\ op[p].pc = "readStore"
  /\ \/ store # Absent /\ NewValue(p, Merged(p, Entry(store, 0)), "route")
     \/ store = Absent /\ NewValue(p, Entry({p}, op[p].ts), "route")
     \/ Fails(p, "ErrStore")
  /\ UNCHANGED <<busVars, conf, reg, lst, cache, store, flight, clock>>

\* Mutant: a strong call applies to the cache before it asks the bus.
RouteApplyFirst(p) ==
  /\ op[p].pc = "route"
  /\ \/ /\ conf.mode # "strong" \/ conf.flaky
        /\ op' = Goto(p, "apply") /\ UNCHANGED <<busVars, cache>>
     \/ /\ conf.mode = "strong"
        /\ PublishAndAwait(p, conf.quorum, TRUE)
        /\ op' = Goto(p, "await")
        /\ cache' = [cache EXCEPT ![op[p].node] = Entry(op[p].val, op[p].ts)]
  /\ UNCHANGED <<conf, reg, lst, store, flight, clock>>

\* The switch on the mode: a strong call asks the bus first, unless the bus is
\* unhealthy; the others apply at once.
Route(p) ==
  /\ op[p].pc = "route"
  /\ \/ conf.mode # "strong" /\ op' = Goto(p, "apply") /\ UNCHANGED busVars
     \/ conf.mode = "strong" /\ conf.flaky /\ op' = Goto(p, "apply") /\ UNCHANGED busVars
     \/ /\ conf.mode = "strong"
        /\ PublishAndAwait(p, conf.quorum, TRUE) \/ EnterCanceled(p)
        /\ op' = Goto(p, "await")
  /\ UNCHANGED <<conf, reg, lst, cache, store, flight, clock>>

Failures == {"canceled", "ErrQuorumNotSatisfied"}

\* Mutant: whatever is not a plain nil counts as the error of the call.
AwaitedStrict(p) ==
  /\ op[p].pc = "await" /\ call[p].pc = "done"
  /\ op' = IF call[p].res # "nil" THEN Done(p, call[p].res) ELSE Goto(p, "apply")
  /\ UNCHANGED <<busVars, conf, reg, lst, cache, store, flight, clock>>

\* PublishAndAwait has returned.
Awaited(p) ==
  /\ op[p].pc = "await" /\ call[p].pc = "done"
  /\ op' = IF call[p].res \in Failures THEN Done(p, call[p].res)
                                       ELSE Goto(p, "apply")
  /\ UNCHANGED <<busVars, conf, reg, lst, cache, store, flight, clock>>

\* Mutant: an eventual call does not publish.
AfterApplySilent(p) == op' = Done(p, "nil")

\* An eventual call that has applied its change publishes in a goroutine,
\* unless the bus is unhealthy; its caller goes on.
AfterApply(p) ==
  \/ conf.mode = "eventual" /\ op' = [Goto(p, "publish") EXCEPT ![p].res = "nil"]
  \/ (conf.mode # "eventual" \/ conf.flaky) /\ op' = Done(p, "nil")

\* applyLocal of Set and of Invalidate.  A request that fails, before or after its
\* effect, ends the call with its error: what follows is not done, and nothing is
\* published.

\* Set: cache.Set.
ApplyCache(p) ==
  /\ op[p].pc = "apply" /\ op[p].kind = "set"
  /\ \/ /\ cache' = [cache EXCEPT ![op[p].node] = Entry(op[p].val, op[p].ts)]
        /\ op' = Goto(p, "persist") \/ Fails(p, "ErrCache")
     \/ Fails(p, "ErrCache") /\ UNCHANGED cache
  /\ UNCHANGED <<busVars, conf, reg, lst, store, flight, clock>>

\* Set: store.Set.
ApplyStore(p) ==
  /\ op[p].pc = "persist"
  /\ \/ store' = op[p].val /\ (AfterApply(p) \/ Fails(p, "ErrStore"))
     \/ Fails(p, "ErrStore") /\ UNCHANGED store
  /\ UNCHANGED <<busVars, conf, reg, lst, cache, flight, clock>>

\* Invalidate: cache.Invalidate.
ApplyInvalidate(p) ==
  /\ op[p].pc = "apply" /\ op[p].kind = "invalidate"
  /\ \/ /\ cache' = [cache EXCEPT ![op[p].node] = NoEntry]
        /\ AfterApply(p) \/ Fails(p, "ErrCache")
     \/ Fails(p, "ErrCache") /\ UNCHANGED cache
  /\ UNCHANGED <<busVars, conf, reg, lst, store, flight, clock>>

\* The publishing goroutine calls the bus; its context ends only by the
\* configured timeout.
StartPublish(p) ==
  /\ op[p].pc = "publish"
  /\ Publish(p, conf.timeout) \/ (conf.timeout /\ EnterCanceled(p))
  /\ UNCHANGED warpVars

EndPublish(p) ==
  /\ op[p].pc = "publish" /\ call[p].pc = "done"
  /\ op' = Goto(p, "done")
  /\ UNCHANGED <<busVars, conf, reg, lst, cache, store, flight, clock>>

WriteStep(p) ==
  \/ Stamp(p) \/ ReadOld(p) \/ ReadStore(p) \/ Route(p) \/ Awaited(p)
  \/ ApplyCache(p) \/ ApplyStore(p) \/ ApplyInvalidate(p)
  \/ StartPublish(p) \/ EndPublish(p)

BusStep(p) == CallStep(p) /\ UNCHANGED warpVars

Step(p) == GetStep(p) \/ WriteStep(p) \/ BusStep(p)

Next ==
  \/ \E n \in Nodes : Register(n) \/ Listener(n) \/ Evict(n)
  \/ \E p \in Calls, n \in Nodes :
       BeginGet(p, n) \/ BeginSet(p, n) \/ BeginInvalidate(p, n)
  \/ \E p \in Calls : Step(p)

Spec == Init /\ [][Next]_vars

\* Goroutines that can run are eventually scheduled; clients owe nothing.
Fairness ==
  /\ \A p \in Calls : WF_vars(Step(p))
  /\ \A n \in Nodes : WF_vars(Listener(n))

FairSpec == Spec /\ Fairness

-----------------------------------------------------------------------------
Pcs == {"idle", "lookup", "do", "wait", "fetch", "fetched", "fill", "stamp",
        "read", "readStore", "route", "await", "apply", "persist", "publish",
        "done"}

OpState ==
  [kind : {"none", "get", "set", "invalidate"}, node : {Absent} \cup Nodes,
   pc : Pcs, lead : {Absent} \cup Calls, val : {Absent} \cup Value, ts : Nat,
   res : Failures \cup {"none", "nil", "ErrUnregistered", "ErrNotFound", "ErrStore",
                      "ErrCache"}]

\* Type invariant of the cache path.
WarpTypeOK ==
  /\ reg \in [Nodes -> BOOLEAN]
  /\ lst \in [Nodes -> {"off", "starting", "wait", "invalidate"}]
  /\ cache \in [Nodes -> [val : {Absent} \cup Value, ts : Nat]]
  /\ store \in {Absent} \cup Value
  /\ flight \in [Nodes -> {Absent} \cup Calls]
  /\ op \in [Calls -> OpState]
  /\ clock \in Nat

Stale(n) == cache[n].val # Absent /\ cache[n].val # store

\* No call runs or publishes, no event waits and no listener is busy.
Quiet ==
  /\ \A p \in Calls : op[p].pc \in {"idle", "done"}
  /\ \A n \in Nodes : ~full[n] /\ lst[n] \notin {"starting", "invalidate"}

\* docs/syncbus.md: nodes "apply the invalidation locally (removing the key from
\* their L1 cache)".  When nothing is in progress any more, an entry that a node
\* serves is the value of the store.
QuietCoherent == Quiet => \A n \in Nodes : ~Stale(n)

\* docs/core.md, of ModeStrongLocal: "Data is consistent *on this node*".  Once the
\* calls on the node have returned, its cache holds the value of its store.
LocalConsistent == conf.mode = "local" => QuietCoherent

\* Clients that wait until the publishes of earlier calls are done, and no
\* failures.
Settled == conf.clients = "settled" /\ ~conf.flaky

\* With settled clients the caches agree with the store whenever all is quiet:
\* this is what Set, the listeners and the fills achieve together, in every mode
\* with a bus (core.go:228-239, 974-1050).
SettledCoherent == Settled => QuietCoherent

\* With settled clients a stale entry does not stay: the invalidation of the write
\* that made it stale removes it or a write replaces it.
StaleIsRemoved == \A n \in Nodes : []<>(Settled => ~Stale(n))

Shows(v, p) == v # Absent /\ p \in v

\* A strong Set that returns the bus's error has written its value nowhere:
\* PublishAndAwait comes before applyLocal (core.go:1024-1040), so no cache, no
\* store and no other call, whatever runs at the same time, ever holds it.  Nodes
\* that the loop reached before it failed drop their entry all the same.
RejectedInvisible ==
  \A p \in Calls : op[p].res \in Failures =>
    /\ ~Shows(store, p)
    /\ \A n \in Nodes : ~Shows(cache[n].val, p)
    /\ \A q \in Calls \ {p} : ~Shows(op[q].val, p)

\* Request coalescing: the Gets of a node never fetch the key from the store twice
\* at the same time (docs/core.md, "perform the fetch ... only once"; core.go:602-613).
OneFetch ==
  \A p, q \in Calls :
    /\ op[p].pc \in {"fetch", "fetched"} /\ op[q].pc \in {"fetch", "fetched"}
    /\ op[p].node = op[q].node
    => p = q

\* Every call returns, and the goroutine it left behind ends: no call waits for
\* ever for the flight of another one, for the bus or for a listener, also when
\* the publish timeout ends the loop of the bus half way.
CallsReturn == <>[](\A p \in Calls : op[p].pc \in {"idle", "done"})

\* docs/merge.md: "For strong consistency with merging, use ModeStrongDistributed
\* which ensures serialized access via quorum".  With a merge function every
\* Set that returned nil is part of the value in the store.
NoLostIncrement ==
  \A p \in Calls :
    op[p].kind = "set" /\ op[p].pc = "done" /\ op[p].res = "nil" => Shows(store, p)

\* On one node, a client that calls one Set after the other loses no increment,
\* even when the cache evicts the entry in between: Set then merges with the
\* store's value (core.go:950-969).
LocalSerialMerge ==
  conf.merge /\ conf.mode = "local" /\ conf.clients # "free" => NoLostIncrement
=============================================================================
