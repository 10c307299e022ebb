------------------------------ MODULE SyncBus ------------------------------
(***************************************************************************)
(* The in-process invalidation bus, InMemoryBus of syncbus/syncbus.go,     *)
(* seen from one key.  Keys do not interact: subs and pending are maps     *)
(* indexed by the key, and the read-write lock mu only delays.             *)
(*                                                                         *)
(* A member of Calls is one call of Publish or PublishAndAwait, from its   *)
(* entry to its return.  Any number of calls run at once, each step of a   *)
(* call being what the code does between two points where another          *)
(* goroutine can be seen.  A member of Channels is one channel returned    *)
(* by Subscribe; the events of a key are all alike, so a channel of        *)
(* capacity one is full or not.                                            *)
(*                                                                         *)
(* owed and got are history variables that the code does not have.         *)
(***************************************************************************)
EXTENDS Integers, Sequences, FiniteSets

CONSTANTS Calls,      \* calls of Publish and PublishAndAwait
          Channels,   \* channels made by Subscribe
          Replicas    \* values of the replicas argument of PublishAndAwait

ASSUME ReplicasAssumption == Replicas \subseteq Int

VARIABLES
  subs,      \* channels registered for the key, in slice order
  full,      \* full[c]: an event is in the one-place buffer of channel c
  closed,    \* channels that Unsubscribe closed
  pending,   \* TRUE while the key is in the pending map
  call,      \* call[p]: the state of call p
  owed,      \* owed[p]: channels that were registered when p checked the
             \* pending map and have received no event since
  got        \* got[p]: channels whose buffer took the event of p

busVars == <<subs, full, closed, pending, call, owed, got>>

\* A call that has not started.  chans is the slice read under mu, next the
\* index of the loop, need the number of deliveries wanted (0 for Publish),
\* ctx whether the caller's context can still end.
NoCall == [pc |-> "idle", chans |-> <<>>, next |-> 1, need |-> 0,
           sent |-> 0, ctx |-> FALSE, res |-> "none"]

Results == {"none", "nil", "deduplicated", "canceled", "ErrQuorumNotSatisfied"}

BusInit ==
  /\ subs = <<>>
  /\ full = [c \in Channels |-> FALSE]
  /\ closed = {}
  /\ pending = FALSE
  /\ call = [p \in Calls |-> NoCall]
  /\ owed = [p \in Calls |-> {}]
  /\ got = [p \in Calls |-> {}]

Registered == {subs[i] : i \in 1..Len(subs)}

\* The calls that hold mu for reading: the loop over the channels.
Readers == {p \in Calls : call[p].pc = "send"}

-----------------------------------------------------------------------------
(* Subscribe and Unsubscribe run under mu.Lock, so only while no call      *)
(* reads.                                                                  *)

Subscribe(c) ==
  /\ Readers = {}
  /\ c \notin Registered /\ c \notin closed     \* a channel is made once
  /\ subs' = Append(subs, c)
  /\ UNCHANGED <<full, closed, pending, call, owed, got>>

\* subs without its i-th channel: the last one takes its place.
SwapRemove(s, i) == SubSeq([s EXCEPT ![i] = s[Len(s)]], 1, Len(s) - 1)

\* Mutant: Unsubscribe without mu.Lock.
UnsubscribeUnlocked(c) ==
  /\ \E i \in 1..Len(subs) :
       /\ subs[i] = c
       /\ subs' = SwapRemove(subs, i)
  /\ closed' = closed \cup {c}
  /\ owed' = [p \in Calls |-> owed[p] \ {c}]
  /\ UNCHANGED <<full, pending, call, got>>

\* A second Unsubscribe of the same channel (the explicit one and the one of
\* the goroutine that waits for the context) finds nothing and does nothing.
Unsubscribe(c) ==
  /\ Readers = {}
  /\ \E i \in 1..Len(subs) :
       /\ subs[i] = c
       /\ subs' = SwapRemove(subs, i)
  /\ closed' = closed \cup {c}
  /\ owed' = [p \in Calls |-> owed[p] \ {c}]
  /\ UNCHANGED <<full, pending, call, got>>

\* The subscriber takes the buffered event.
Receive(c) ==
  /\ full[c]
  /\ full' = [full EXCEPT ![c] = FALSE]
  /\ owed' = [p \in Calls |-> owed[p] \ {c}]
  /\ UNCHANGED <<subs, closed, pending, call, got>>

-----------------------------------------------------------------------------
(* Publish and PublishAndAwait.                                            *)

Return(p, result) == call' = [call EXCEPT ![p].pc = "done", ![p].res = result]

\* The context of the call has ended before it did anything.
EnterCanceled(p) ==
  /\ call[p].pc = "idle"
  /\ Return(p, "canceled")
  /\ UNCHANGED <<subs, full, closed, pending, owed, got>>

\* Mutant: the pending map is read and written without Compute's atomicity.
EnterUnchecked(p, need, ctx) ==
  /\ call[p].pc = "idle"
  /\ owed' = [owed EXCEPT ![p] = Registered]
  /\ call' = [call EXCEPT ![p].pc = "lock", ![p].need = need, ![p].ctx = ctx]
  /\ pending' = TRUE
  /\ UNCHANGED <<subs, full, closed, got>>

\* The atomic Compute on the pending map: the first call marks the key, a
\* later one returns nil at once.
Enter(p, need, ctx) ==
  /\ call[p].pc = "idle"
  /\ owed' = [owed EXCEPT ![p] = Registered]
  /\ IF pending
       THEN /\ call' = [call EXCEPT ![p].pc = "done", ![p].need = need,
                                    ![p].res = "deduplicated"]
            /\ UNCHANGED pending
       ELSE /\ call' = [call EXCEPT ![p].pc = "lock", ![p].need = need,
                                    ![p].ctx = ctx]
            /\ pending' = TRUE
  /\ UNCHANGED <<subs, full, closed, got>>

Publish(p, ctx) == Enter(p, 0, ctx)

\* Mutant: replicas below one is not coerced to one.
AwaitUncoerced(p, replicas, ctx) == Enter(p, replicas, ctx)

\* PublishAndAwaitTopology passes its minZones as the replicas.
PublishAndAwait(p, replicas, ctx) ==
  Enter(p, IF replicas <= 0 THEN 1 ELSE replicas, ctx)

\* Mutant: the early return for no subscribers comes before the deferred delete.
LockEarlyReturn(p) ==
  /\ call[p].pc = "lock"
  /\ call' = [call EXCEPT ![p] =
       IF Len(subs) < @.need
         THEN [@ EXCEPT !.pc = "unmark", !.res = "ErrQuorumNotSatisfied"]
       ELSE IF subs = <<>>
         THEN [@ EXCEPT !.pc = "done", !.res = "nil"]
       ELSE [@ EXCEPT !.pc = "send", !.chans = subs]]
  /\ UNCHANGED <<subs, full, closed, pending, owed, got>>

\* mu.RLock, the read of the slice and the early returns.
Lock(p) ==
  /\ call[p].pc = "lock"
  /\ call' = [call EXCEPT ![p] =
       IF Len(subs) < @.need
         THEN [@ EXCEPT !.pc = "unmark", !.res = "ErrQuorumNotSatisfied"]
       ELSE IF subs = <<>>
         THEN [@ EXCEPT !.pc = "unmark", !.res = "nil"]
       ELSE [@ EXCEPT !.pc = "send", !.chans = subs]]
  /\ UNCHANGED <<subs, full, closed, pending, owed, got>>

\* Mutant: one delivery too few is accepted.
LoopResultOffByOne(sent, need) ==
  IF sent + 1 < need THEN "ErrQuorumNotSatisfied" ELSE "nil"

\* What the call returns once the loop is over.
LoopResult(sent, need) ==
  IF sent < need THEN "ErrQuorumNotSatisfied" ELSE "nil"

\* Mutant: the loop ends at the first full channel (break for default).
SendStopsAtFull(p) ==
  /\ call[p].pc = "send"
  /\ LET c == call[p].chans[call[p].next]
         sent == call[p].sent + (IF full[c] THEN 0 ELSE 1)
         last == call[p].next = Len(call[p].chans)
     IN /\ full' = [full EXCEPT ![c] = TRUE]
        /\ got' = IF full[c] THEN got ELSE [got EXCEPT ![p] = @ \cup {c}]
        /\ call' = [call EXCEPT ![p] =
             IF last \/ full[c]
               THEN [@ EXCEPT !.sent = sent, !.pc = "unmark",
                              !.res = LoopResult(sent, call[p].need)]
               ELSE [@ EXCEPT !.sent = sent, !.next = call[p].next + 1]]
  /\ UNCHANGED <<subs, closed, pending, owed>>

\* One turn of the loop: the non-blocking send to the next channel.  After
\* the last one the call releases mu.
Send(p) ==
  /\ call[p].pc = "send"
  /\ LET c == call[p].chans[call[p].next]
         sent == call[p].sent + (IF full[c] THEN 0 ELSE 1)
         last == call[p].next = Len(call[p].chans)
     IN /\ full' = [full EXCEPT ![c] = TRUE]
        /\ got' = IF full[c] THEN got ELSE [got EXCEPT ![p] = @ \cup {c}]
        /\ call' = [call EXCEPT ![p] =
             IF last
               THEN [@ EXCEPT !.sent = sent, !.pc = "unmark",
                              !.res = LoopResult(sent, call[p].need)]
               ELSE [@ EXCEPT !.sent = sent, !.next = call[p].next + 1]]
  /\ UNCHANGED <<subs, closed, pending, owed>>

\* The select of a turn of the loop sees that the context has ended.
SendCanceled(p) ==
  /\ call[p].pc = "send" /\ call[p].ctx
  /\ call' = [call EXCEPT ![p].pc = "unmark", ![p].res = "canceled"]
  /\ UNCHANGED <<subs, full, closed, pending, owed, got>>

\* The deferred pending.Delete, the last thing the call does.
Unmark(p) ==
  /\ call[p].pc = "unmark"
  /\ pending' = FALSE
  /\ call' = [call EXCEPT ![p].pc = "done"]
  /\ UNCHANGED <<subs, full, closed, owed, got>>

\* The steps of a call once it has marked the key.
CallStep(p) == Lock(p) \/ Send(p) \/ SendCanceled(p) \/ Unmark(p)

BusNext ==
  \/ \E c \in Channels : Subscribe(c) \/ Unsubscribe(c) \/ Receive(c)
  \/ \E p \in Calls :
       \/ EnterCanceled(p)
       \/ \E ctx \in BOOLEAN : Publish(p, ctx)
       \/ \E ctx \in BOOLEAN, r \in Replicas : PublishAndAwait(p, r, ctx)
       \/ CallStep(p)

BusSpec == BusInit /\ [][BusNext]_busVars

\* A call that has started keeps running, and a subscriber keeps draining
\* its channel (the listener of core.go ranges over it).
BusFairness ==
  /\ \A p \in Calls : WF_busVars(CallStep(p))
  /\ \A c \in Channels : WF_busVars(Receive(c))

FairBusSpec == BusSpec /\ BusFairness

-----------------------------------------------------------------------------
CallState ==
  [pc : {"idle", "lock", "send", "unmark", "done"}, chans : Seq(Channels),
   next : Nat \ {0}, need : Nat, sent : Nat, ctx : BOOLEAN, res : Results]

\* Type invariant of the bus.
BusTypeOK ==
  /\ subs \in Seq(Channels)
  /\ full \in [Channels -> BOOLEAN]
  /\ closed \subseteq Channels
  /\ pending \in BOOLEAN
  /\ call \in [Calls -> CallState]
  /\ owed \in [Calls -> SUBSET Channels]
  /\ got \in [Calls -> SUBSET Channels]

\* The calls between the mark of the key and the deferred delete.
Owners == {p \in Calls : call[p].pc \in {"lock", "send", "unmark"}}

\* The pending map admits one call at a time: the key is marked exactly while
\* one call is between Compute and the deferred Delete (syncbus.go:115-126).
OnePublisher ==
  /\ pending <=> Owners # {}
  /\ \A p, q \in Owners : p = q

\* A send never meets a closed channel, which would panic: Unsubscribe closes
\* under mu.Lock and a loop holds mu for reading, so every channel of the
\* slice a loop works on is still registered and open (syncbus.go:128-148).
NoSendOnClosed ==
  \A p \in Readers : \A i \in 1..Len(call[p].chans) :
    call[p].chans[i] \in Registered \ closed

\* The non-blocking send may drop an event only because another one is waiting:
\* when a call that was not deduplicated returns nil, every channel that was
\* registered when it started and still is has an event in its buffer or has
\* received one since (syncbus.go:139-148).
DeliveredOrBuffered ==
  \A p \in Calls : call[p].res = "nil" => \A c \in owed[p] : full[c]

\* PublishAndAwait counts distinct subscribers: a call that went through the
\* loop and returned nil has put its event in at least replicas different
\* channels (syncbus.go:194-215).
AwaitCountsChannels ==
  \A p \in Calls : call[p].res = "nil" => Cardinality(got[p]) >= call[p].need

\* The nil that PublishAndAwait returns, whichever way: deduplicated is one.
ReturnedNil(p) == call[p].pc = "done" /\ call[p].res \in {"nil", "deduplicated"}

\* docs/syncbus.md: "PublishAndAwait broadcasts and waits for 'replicas'
\* acknowledgements".  A nil return means that many channels took its event.
NilMeansQuorum ==
  \A p \in Calls : ReturnedNil(p) => Cardinality(got[p]) >= call[p].need

\* Everything a published event is owed to gets it: a call that returns nil
\* after its loop leaves no subscriber without an event for ever.
EventuallyNotified ==
  \A p \in Calls : []<>(call[p].res = "nil" => owed[p] = {})

\* Every call that marks the key returns, and so the key is unmarked again and
\* again: no lost pending.Delete can mute the key for ever.
PendingClears == []<>~pending
=============================================================================
