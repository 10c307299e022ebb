----------------------------- MODULE StreamBus -----------------------------
(***************************************************************************)
(* The in-memory stream bus: streambus/inmemory.go, subscription.go and    *)
(* queue.go.  Publish gives a frame its sequence number, records it in the *)
(* replay ring of its topic and puts it in the bounded queue of every      *)
(* subscription; a goroutine per subscription, run, hands the queued       *)
(* frames to the consumer.                                                 *)
(*                                                                         *)
(* A member of Pubs is a call of Publish, a member of Subs a call of       *)
(* Subscribe and the subscription it returns.  A prefix subscription is    *)
(* one that matches a set of topics.  The four rings of a frameQueue are   *)
(* one sequence of frames in the order of their arrival: the front of a    *)
(* class is its first frame.                                               *)
(*                                                                         *)
(* log, offered and got are history variables.                             *)
(***************************************************************************)
EXTENDS Naturals, Sequences, SequencesExt, FiniteSets, FiniteSetsExt

CONSTANTS
  Configs,   \* the configurations considered, see Config
  Pubs,      \* calls of Publish
  Subs,      \* calls of Subscribe
  Topics,
  Priorities,
  None

Overflows == {"Block", "DropNewest", "DropOldest", "LatestOnly"}

\* SubscribeOptions, with the topics that Topic and Prefix select.
Options == [topics : SUBSET Topics, prefix : BOOLEAN, buffer : Nat \ {0},
            overflow : Overflows, replay : Nat, since : Nat]

\* Config.ReplayCapacity; whether calls of Publish may overlap; whether contexts
\* end and the bus and its subscriptions are closed; the options, topics and
\* priorities that clients use; and bounds on the calls.
Config == [capacity : Nat, overlap : BOOLEAN, closing : BOOLEAN,
           options : SUBSET Options, topics : SUBSET Topics,
           prios : SUBSET Priorities, pubs : Nat, subs : Nat]

ASSUME StreamAssumption ==
  /\ Configs \subseteq Config
  /\ Priorities \subseteq Nat
  /\ None \notin Subs

Frame == [seq : Nat, prio : Priorities, topic : Topics]

VARIABLES
  conf,
  seq,      \* the last sequence number given out
  closed,   \* Close was called on the bus
  journal,  \* journal[t]: the replay ring of topic t
  subs,     \* the subscriptions in the exact map and the prefix trie
  closing,  \* subscriptions that the Close of the bus has yet to close
  pub,      \* pub[p]: the state of a call of Publish
  sub,      \* sub[s]: the state of a subscription
  log,      \* log[t]: the frames that the bus accepted on topic t, in order
  offered,  \* offered[s]: frames that s was to queue while it was open
  got       \* got[s]: the frames that the consumer of s has received

history == <<log, offered, got>>
vars == <<conf, seq, closed, journal, subs, closing, pub, sub, history>>

EmptyRing == [frames |-> [i \in 0..(conf.capacity - 1) |-> None], next |-> 0, len |-> 0]

NoPub == [pc |-> "idle", frame |-> None, targets |-> {}, at |-> None, res |-> "none"]

\* run is the goroutine of the subscription, hand the frame it offers.
NoSub == [pc |-> "idle", opt |-> None, res |-> "none", queue |-> <<>>,
          notify |-> FALSE, space |-> FALSE, run |-> "off", hand |-> None,
          delivered |-> 0, dropped |-> 0]

Init ==
  /\ conf \in Configs
  /\ seq = 0 /\ closed = FALSE /\ subs = {} /\ closing = {}
  /\ journal = [t \in Topics |-> EmptyRing]
  /\ pub = [p \in Pubs |-> NoPub]
  /\ sub = [s \in Subs |-> NoSub]
  /\ log = [t \in Topics |-> <<>>]
  /\ offered = [s \in Subs |-> {}]
  /\ got = [s \in Subs |-> <<>>]

-----------------------------------------------------------------------------
(* The replay ring: next is where the next frame goes, len how many frames *)
(* there are.                                                              *)

At(r, i) == r.frames[i % conf.capacity]

\* Mutant: next does not wrap around.
RingAddUnwrapped(r, f) ==
  IF conf.capacity = 0 THEN r ELSE
  [frames |-> [r.frames EXCEPT ![r.next] = f],
   next |-> r.next + 1,
   len |-> IF r.len < conf.capacity THEN r.len + 1 ELSE r.len]

RingAdd(r, f) ==
  IF conf.capacity = 0 THEN r ELSE
  [frames |-> [r.frames EXCEPT ![r.next] = f],
   next |-> (r.next + 1) % conf.capacity,
   len |-> IF r.len < conf.capacity THEN r.len + 1 ELSE r.len]

\* Mutant: one place too far.
RingLastOff(r, count) ==
  LET n == IF count > r.len THEN r.len ELSE count
  IN [i \in 1..n |-> At(r, r.next + conf.capacity - n + i)]

\* The newest count frames.
RingLast(r, count) ==
  LET n == IF count > r.len THEN r.len ELSE count
      start == r.next + conf.capacity - n
  IN [i \in 1..n |-> At(r, start + i - 1)]

Oldest(r) == At(r, r.next + conf.capacity - r.len)

\* Mutant: overwritten frames are not noticed.
GapNever(r, sequence) == FALSE

\* The ring has overwritten frames, and the caller may not have seen them.
Gap(r, sequence) == r.len = conf.capacity /\ sequence # 0 /\ sequence < Oldest(r).seq

\* The frames above sequence, oldest place first.
RingAfter(r, sequence) ==
  SelectSeq(RingLast(r, r.len), LAMBDA f : f.seq > sequence)

-----------------------------------------------------------------------------
(* The queue of a subscription.                                            *)

\* A priority outside the four classes counts as PriorityNormal.
Class(f) == IF f.prio > 3 THEN 1 ELSE f.prio

\* The places of the first frames of each class.
Fronts(q) == {i \in DOMAIN q : \A j \in 1..(i - 1) : Class(q[j]) # Class(q[i])}

\* Mutant: the newest frame of the highest class.
HighestBack(q) ==
  CHOOSE i \in DOMAIN q : \A j \in DOMAIN q :
    Class(q[j]) < Class(q[i]) \/ (Class(q[j]) = Class(q[i]) /\ j <= i)

\* pop: of the fronts of the classes, the one of the highest class.
HighestFront(q) ==
  CHOOSE i \in Fronts(q) : \A j \in Fronts(q) : Class(q[j]) <= Class(q[i])

\* Mutant: the front of the lowest class.
LowestFront(q) ==
  CHOOSE i \in Fronts(q) : \A j \in Fronts(q) : Class(q[i]) <= Class(q[j])

\* popOldest: of the fronts of the classes, the one with the lowest sequence.
OldestFront(q) ==
  CHOOSE i \in Fronts(q) : \A j \in Fronts(q) : q[i].seq <= q[j].seq

\* preload: what a queue holds after the frames of r, and how many were dropped.
Preload(r, buffer) ==
  FoldLeft(LAMBDA a, f :
             IF Len(a.queue) < buffer THEN [a EXCEPT !.queue = Append(@, f)]
             ELSE [queue |-> Append(RemoveAt(a.queue, OldestFront(a.queue)), f),
                   dropped |-> a.dropped + 1],
           [queue |-> <<>>, dropped |-> 0], r)

-----------------------------------------------------------------------------
(* Subscribe.                                                              *)

\* Calls that have not started are alike: the next one is any of them.
MayStart(calls, c, bound) ==
  /\ calls[c].pc = "idle"
  /\ c = CHOOSE d \in DOMAIN calls : calls[d].pc = "idle"
  /\ Cardinality({d \in DOMAIN calls : calls[d].pc # "idle"}) < bound

\* The replay that Subscribe preloads, and whether it must refuse.
Replay(o) ==
  LET r == journal[CHOOSE t \in o.topics : TRUE] IN
  IF o.prefix \/ r.len = 0 THEN <<>>
  ELSE IF o.since > 0 THEN RingAfter(r, o.since)
  ELSE RingLast(r, o.replay)

Unavailable(o) ==
  LET r == journal[CHOOSE t \in o.topics : TRUE] IN
  /\ ~o.prefix /\ o.since > 0
  /\ \/ r.len = 0 /\ conf.capacity = 0
     \/ r.len > 0 /\ (Gap(r, o.since) \/ Len(RingAfter(r, o.since)) > o.buffer)

\* The subscription is made first; an error closes it again.
Subscribe(s, o) ==
  LET err == IF closed THEN "ErrClosed"
             ELSE IF Unavailable(o) THEN "ErrReplayUnavailable" ELSE "nil"
      load == Preload(IF err = "nil" THEN Replay(o) ELSE <<>>, o.buffer)
  IN
  /\ MayStart(sub, s, conf.subs)
  /\ sub' = [sub EXCEPT ![s] = [NoSub EXCEPT
       !.pc = IF err = "nil" THEN "open" ELSE "marked",
       !.opt = o, !.res = err, !.run = "wait", !.queue = load.queue,
       !.dropped = load.dropped, !.notify = load.queue # <<>>]]
  /\ subs' = IF err = "nil" THEN subs \cup {s} ELSE subs
  /\ offered' = [offered EXCEPT ![s] = IF err = "nil" THEN ToSet(Replay(o)) ELSE {}]
  /\ UNCHANGED <<conf, closing, seq, closed, journal, pub, log, got>>

-----------------------------------------------------------------------------
(* Publish.                                                                *)

PubEnd(p, res) == [pub EXCEPT ![p].pc = "done", ![p].at = None, ![p].res = res]

\* The checks at the start: no topic, too large a payload, a context that has ended.
PublishRefused(p) ==
  /\ conf.closing /\ MayStart(pub, p, conf.pubs)
  /\ pub' = PubEnd(p, "refused")
  /\ UNCHANGED <<conf, closing, seq, closed, journal, subs, sub, history>>

\* seq.Add, before the lock of the bus is taken.
Publish(p, prio, topic) ==
  /\ MayStart(pub, p, conf.pubs)
  /\ conf.overlap \/ \A q \in Pubs : pub[q].pc \in {"idle", "done"}
  /\ seq' = seq + 1
  /\ pub' = [pub EXCEPT ![p].pc = "fanout",
       ![p].frame = [seq |-> seq + 1, prio |-> prio, topic |-> topic]]
  /\ UNCHANGED <<conf, closing, closed, journal, subs, sub, history>>

\* Under the lock: the targets are collected and the frame is recorded.
Fanout(p) ==
  LET f == pub[p].frame IN
  /\ pub[p].pc = "fanout"
  /\ \/ /\ closed
        /\ pub' = PubEnd(p, "ErrClosed")
        /\ UNCHANGED <<journal, log>>
     \/ /\ ~closed
        /\ pub' = [pub EXCEPT ![p].pc = "enqueue",
             ![p].targets = {s \in subs : f.topic \in sub[s].opt.topics}]
        /\ journal' = [journal EXCEPT ![f.topic] = RingAdd(@, f)]
        /\ log' = [log EXCEPT ![f.topic] = Append(@, f)]
  /\ UNCHANGED <<conf, closing, seq, closed, subs, sub, offered, got>>

\* Every target has its frame.
Return(p) ==
  /\ pub[p].pc = "enqueue" /\ pub[p].targets = {} /\ pub[p].at = None
  /\ pub' = PubEnd(p, "nil")
  /\ UNCHANGED <<conf, closing, seq, closed, journal, subs, sub, history>>

\* The target p works on: a new one, in any order, or the one it waits for.
Target(p, s) ==
  /\ pub[p].pc = "enqueue"
  /\ pub[p].at = s \/ (pub[p].at = None /\ s \in pub[p].targets)

Leave(p, s) == [pub EXCEPT ![p].pc = "enqueue", ![p].at = None, ![p].targets = @ \ {s}]

\* s is closed: its error is ignored.
EnqueueClosed(p, s) ==
  /\ Target(p, s) /\ sub[s].pc # "open"
  /\ pub' = Leave(p, s)
  /\ UNCHANGED <<conf, closing, seq, closed, journal, subs, sub, history>>

\* What an attempt to queue a frame leaves: the queue, the number of frames that
\* fall out, and whether the frame has a place.
Queued(q, out, ok) == [queue |-> q, out |-> out, ok |-> ok]

\* clear: LatestOnly empties the whole queue for f.
Clear(q, f) == Queued(<<f>>, Len(q), TRUE)

\* Mutant: LatestOnly counts one frame.
OverflowCountsOne(o, q, f) ==
  CASE o.overflow = "DropNewest" -> Queued(q, 1, FALSE)
    [] o.overflow = "DropOldest" ->
         Queued(Append(RemoveAt(q, OldestFront(q)), f), 1, TRUE)
    [] o.overflow = "LatestOnly" -> Queued(<<f>>, 1, TRUE)

\* The switch on the policy, when push has found q full.
Overflow(o, q, f) ==
  CASE o.overflow = "DropNewest" -> Queued(q, 1, FALSE)
    [] o.overflow = "DropOldest" ->
         Queued(Append(RemoveAt(q, OldestFront(q)), f), 1, TRUE)
    [] o.overflow = "LatestOnly" -> Clear(q, f)

\* push of frame f, which refuses it when q is full.
Push(o, q, f) ==
  IF Len(q) < o.buffer THEN Queued(Append(q, f), 0, TRUE) ELSE Overflow(o, q, f)

\* enqueue: the frame is queued or the policy decides; the signal comes after the
\* lock is released.
Enqueue(p, s) ==
  LET f == pub[p].frame
      o == sub[s].opt
      r == Push(o, sub[s].queue, f)
  IN
  /\ Target(p, s) /\ sub[s].pc = "open"
  /\ Len(sub[s].queue) < o.buffer \/ o.overflow # "Block"
  /\ sub' = [sub EXCEPT ![s].queue = r.queue, ![s].dropped = @ + r.out]
  /\ offered' = [offered EXCEPT ![s] = @ \cup {f}]
  /\ pub' = IF r.ok THEN [pub EXCEPT ![p].pc = "signal", ![p].at = s] ELSE Leave(p, s)
  /\ UNCHANGED <<conf, closing, seq, closed, journal, subs, log, got>>

Signal(p) ==
  LET s == pub[p].at IN
  /\ pub[p].pc = "signal"
  /\ sub' = [sub EXCEPT ![s].notify = TRUE]
  /\ pub' = Leave(p, s)
  /\ UNCHANGED <<conf, closing, seq, closed, journal, subs, history>>

\* Block: the queue is full, and p waits for space, the end of s or its context.
Block(p, s) ==
  /\ Target(p, s) /\ sub[s].pc = "open"
  /\ Len(sub[s].queue) = sub[s].opt.buffer /\ sub[s].opt.overflow = "Block"
  /\ pub' = [pub EXCEPT ![p].pc = "blocked", ![p].at = s]
  /\ UNCHANGED <<conf, closing, seq, closed, journal, subs, sub, history>>

Done(s) == sub[s].pc \in {"unregister", "gone"}

TakeSpace(p) ==
  LET s == pub[p].at IN
  /\ pub[p].pc = "blocked" /\ sub[s].space
  /\ sub' = [sub EXCEPT ![s].space = FALSE]
  /\ pub' = [pub EXCEPT ![p].pc = "enqueue"]
  /\ UNCHANGED <<conf, closing, seq, closed, journal, subs, history>>

BlockedOnDone(p) ==
  /\ pub[p].pc = "blocked" /\ Done(pub[p].at)
  /\ pub' = Leave(p, pub[p].at)
  /\ UNCHANGED <<conf, closing, seq, closed, journal, subs, sub, history>>

\* The context ends: the targets that are left get nothing.
BlockedCanceled(p) ==
  /\ conf.closing /\ pub[p].pc = "blocked"
  /\ pub' = PubEnd(p, "canceled")
  /\ UNCHANGED <<conf, closing, seq, closed, journal, subs, sub, history>>

PubStep(p) ==
  \/ Fanout(p) \/ Return(p) \/ Signal(p) \/ TakeSpace(p) \/ BlockedOnDone(p)
  \/ \E s \in Subs : EnqueueClosed(p, s) \/ Enqueue(p, s) \/ Block(p, s)

-----------------------------------------------------------------------------
(* The goroutine of a subscription and its consumer.                       *)

RunWake(s) ==
  /\ sub[s].run = "wait" /\ sub[s].notify
  /\ sub' = [sub EXCEPT ![s].notify = FALSE, ![s].run = "pop"]
  /\ UNCHANGED <<conf, closing, seq, closed, journal, subs, pub, history>>

RunPop(s) ==
  LET q == sub[s].queue
      i == HighestFront(q)
  IN
  /\ sub[s].run = "pop"
  /\ \/ q = <<>> /\ sub' = [sub EXCEPT ![s].run = "wait"]
     \/ q # <<>> /\ sub' = [sub EXCEPT ![s].queue = RemoveAt(q, i),
                                      ![s].hand = q[i], ![s].run = "space"]
  /\ UNCHANGED <<conf, closing, seq, closed, journal, subs, pub, history>>

\* Mutant: the goroutine does not tell that there is space.
RunSignalNot(s) ==
  /\ sub[s].run = "space"
  /\ sub' = [sub EXCEPT ![s].run = "offer"]
  /\ UNCHANGED <<conf, closing, seq, closed, journal, subs, pub, history>>

RunSignal(s) ==
  /\ sub[s].run = "space"
  /\ sub' = [sub EXCEPT ![s].space = TRUE, ![s].run = "offer"]
  /\ UNCHANGED <<conf, closing, seq, closed, journal, subs, pub, history>>

\* Mutant: one frame for each notification.
DeliverOne(s) ==
  /\ sub[s].run = "offer"
  /\ got' = [got EXCEPT ![s] = Append(@, sub[s].hand)]
  /\ sub' = [sub EXCEPT ![s].hand = None, ![s].delivered = @ + 1, ![s].run = "wait"]
  /\ UNCHANGED <<conf, closing, seq, closed, journal, subs, pub, log, offered>>

\* The consumer receives; the inner loop goes on.
Deliver(s) ==
  /\ sub[s].run = "offer"
  /\ got' = [got EXCEPT ![s] = Append(@, sub[s].hand)]
  /\ sub' = [sub EXCEPT ![s].hand = None, ![s].delivered = @ + 1, ![s].run = "pop"]
  /\ UNCHANGED <<conf, closing, seq, closed, journal, subs, pub, log, offered>>

\* done is closed; run closes the channel of frames.
RunStop(s) ==
  /\ sub[s].run \in {"wait", "offer"} /\ Done(s)
  /\ sub' = [sub EXCEPT ![s].run = "stopped", ![s].hand = None]
  /\ UNCHANGED <<conf, closing, seq, closed, journal, subs, pub, history>>

RunStep(s) == RunWake(s) \/ RunPop(s) \/ RunSignal(s) \/ Deliver(s) \/ RunStop(s)

-----------------------------------------------------------------------------
(* Close of a subscription, by its owner, its context or the bus: it is    *)
(* marked, done is closed, and the bus forgets it.                         *)

CloseMark(s) ==
  /\ conf.closing /\ sub[s].pc = "open"
  /\ sub' = [sub EXCEPT ![s].pc = "marked"]
  /\ UNCHANGED <<conf, closing, seq, closed, journal, subs, pub, history>>

CloseDone(s) ==
  /\ sub[s].pc = "marked"
  /\ sub' = [sub EXCEPT ![s].pc = "unregister"]
  /\ UNCHANGED <<conf, closing, seq, closed, journal, subs, pub, history>>

Unregister(s) ==
  /\ sub[s].pc = "unregister"
  /\ sub' = [sub EXCEPT ![s].pc = "gone"]
  /\ subs' = subs \ {s}
  /\ UNCHANGED <<conf, closing, seq, closed, journal, pub, history>>

\* Mutant: the prefix trie is not searched.
BusCloseExact ==
  /\ conf.closing /\ ~closed
  /\ closed' = TRUE
  /\ closing' = {s \in subs : ~sub[s].opt.prefix}
  /\ subs' = {}
  /\ UNCHANGED <<conf, seq, journal, pub, sub, history>>

\* Close of the bus; a second one returns at once.
BusClose ==
  /\ conf.closing /\ ~closed
  /\ closed' = TRUE
  /\ closing' = subs
  /\ subs' = {}
  /\ UNCHANGED <<conf, seq, journal, pub, sub, history>>

BusCloseSub(s) ==
  /\ s \in closing
  /\ closing' = closing \ {s}
  /\ sub' = [sub EXCEPT ![s].pc = IF @ = "open" THEN "marked" ELSE @]
  /\ UNCHANGED <<conf, seq, closed, journal, subs, pub, history>>

CloseStep(s) == CloseDone(s) \/ Unregister(s) \/ BusCloseSub(s)

Next ==
  \/ \E s \in Subs :
       \/ \E o \in conf.options : Subscribe(s, o)
       \/ RunStep(s) \/ CloseMark(s) \/ CloseStep(s)
  \/ \E p \in Pubs :
       \/ PublishRefused(p) \/ BlockedCanceled(p) \/ PubStep(p)
       \/ \E prio \in conf.prios, t \in conf.topics : Publish(p, prio, t)
  \/ BusClose

Spec == Init /\ [][Next]_vars

\* Goroutines that can run do, and consumers keep reading; nobody has to close.
Fairness ==
  /\ \A p \in Pubs : WF_vars(PubStep(p))
  /\ \A s \in Subs : WF_vars(RunStep(s)) /\ WF_vars(CloseStep(s))

FairSpec == Spec /\ Fairness

-----------------------------------------------------------------------------
PubState ==
  [pc : {"idle", "fanout", "enqueue", "signal", "blocked", "done"},
   frame : {None} \cup Frame, targets : SUBSET Subs, at : {None} \cup Subs,
   res : {"none", "nil", "refused", "ErrClosed", "canceled"}]

SubState ==
  [pc : {"idle", "open", "marked", "unregister", "gone"},
   opt : {None} \cup Options, res : {"none", "nil", "ErrClosed", "ErrReplayUnavailable"},
   queue : Seq(Frame), notify : BOOLEAN, space : BOOLEAN,
   run : {"off", "wait", "pop", "space", "offer", "stopped"},
   hand : {None} \cup Frame, delivered : Nat, dropped : Nat]

\* Type invariant of the stream bus: indices stay within the ring and queues within
\* their buffers.
StreamTypeOK ==
  /\ seq \in Nat /\ closed \in BOOLEAN
  /\ subs \subseteq Subs /\ closing \subseteq Subs
  /\ \A t \in Topics :
       /\ journal[t].frames \in [0..(conf.capacity - 1) -> {None} \cup Frame]
       /\ journal[t].len \in 0..conf.capacity
       /\ journal[t].next \in 0..conf.capacity
       /\ conf.capacity > 0 => journal[t].next < conf.capacity
  /\ pub \in [Pubs -> PubState]
  /\ \A s \in Subs :
       /\ sub[s] \in SubState
       /\ sub[s].pc # "idle" => Len(sub[s].queue) <= sub[s].opt.buffer

\* The replay ring always holds exactly the newest frames of its topic, in the
\* order in which the bus accepted them, also after it has wrapped around
\* (inmemory.go:32-52).
RingHoldsLatest ==
  \A t \in Topics :
    LET kept == IF Len(log[t]) < conf.capacity THEN Len(log[t]) ELSE conf.capacity
    IN RingLast(journal[t], journal[t].len)
         = SubSeq(log[t], Len(log[t]) - kept + 1, Len(log[t]))

Handed(s) == IF sub[s].hand = None THEN <<>> ELSE <<sub[s].hand>>

\* docs/streambus.md: "Dropped frames are observable rather than silently
\* discarded".  What an open subscription was offered is delivered, counted as
\* dropped, queued or in the hand of run, whatever the policy
\* (subscription.go:80-142).
Accounted ==
  \A s \in Subs : sub[s].run # "stopped" =>
    Cardinality(offered[s]) =
      sub[s].delivered + sub[s].dropped + Len(sub[s].queue) + Len(Handed(s))

\* A subscription never gets a frame twice, not even one that is published while
\* Subscribe replays, and calls of Publish that do not overlap are delivered in
\* sequence order within a priority class (queue.go:64-74, inmemory.go:182-226).
ClassOrder ==
  \A s \in Subs :
    LET q == got[s] \o Handed(s) \o sub[s].queue IN
    \A i, j \in DOMAIN q : i < j =>
      /\ q[i] # q[j]
      /\ ~conf.overlap /\ Class(q[i]) = Class(q[j]) => q[i].seq < q[j].seq

\* docs/streambus.md: a client that resumes after a sequence number gets every newer
\* frame, or ErrReplayUnavailable.  Nothing falls between the replay and the
\* frames published since.
ResumeComplete ==
  \A s \in Subs :
    sub[s].pc = "open" /\ ~sub[s].opt.prefix /\ sub[s].opt.since > 0 =>
      \A t \in sub[s].opt.topics : \A f \in ToSet(log[t]) :
        f.seq > sub[s].opt.since =>
          f \in offered[s] \/ \E p \in Pubs : pub[p].frame = f /\ s \in pub[p].targets

\* Resumption is complete when calls of Publish do not overlap.
SerialResumeComplete == ~conf.overlap => ResumeComplete

\* queue.go: popOldest "removes the earliest sequence regardless of priority".
\* When calls of Publish do not overlap, what DropOldest gives up is older than
\* everything it keeps.
DropsByAge ==
  [][\A s \in Subs :
       ~conf.overlap /\ sub[s].pc = "open" /\ sub[s].opt.overflow = "DropOldest"
       /\ sub'[s].dropped > sub[s].dropped
       => \A f \in ToSet(sub[s].queue) \ ToSet(sub'[s].queue), g \in ToSet(sub'[s].queue) :
            f.seq < g.seq]_vars

\* Every Publish returns while consumers keep reading: a publisher that waits for
\* space is woken although the space channel holds one token only and several
\* publishers may wait for it (subscription.go:131-141, 158).
PublishReturns == <>[](\A p \in Pubs : pub[p].pc \in {"idle", "done"})

\* A frame that is queued in an open subscription is handed over: no notification is
\* lost between the push, the signal and the loop of run.
Drained == <>[](\A s \in Subs : sub[s].pc = "open" => sub[s].queue \o Handed(s) = <<>>)

\* A closed bus leaves no goroutine behind, also when Subscribe and Close overlap: a
\* subscription that was refused or whose bus was closed stops.
Stopped ==
  <>[](\A s \in Subs : sub[s].res \notin {"none", "nil"} \/ (closed /\ sub[s].res = "nil")
         => sub[s].run = "stopped")
=============================================================================
