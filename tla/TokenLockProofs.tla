-------------------------- MODULE TokenLockProofs --------------------------
(***************************************************************************)
(* Proofs about the token lockers, for any number of calls, of instances   *)
(* and of failures, and for both backends.                                 *)
(***************************************************************************)
EXTENDS TokenLock, TLAPS

\* A token is in the server, in an entries map or in a timer only if its call
\* obtained the lock, and a run of releaseWithToken works on a token whose
\* tenure has ended.
LockInv ==
  /\ LockTypeOK
  /\ Exclusive
  /\ kv # None => kv \in Won
  /\ \A l \in Lockers : entries[l] # None => entries[l] \in Won
  /\ \A p \in Calls : op[p].pc \in {"idle", "create", "watch", "wait"} => p \notin Won
  /\ \A p \in Calls : op[p].pc = "record" => p \in Won
  /\ \A p \in Calls : rel[p].pc = "armed" => p \in Won
  /\ \A p \in Calls : rel[p].pc = "armed" => rel[p].tok = p
  /\ \A p \in Calls : rel[p].pc \in {"get", "delete", "cleanup"} => rel[p].tok \in ended
  /\ ended \subseteq Won

-----------------------------------------------------------------------------
\* The initial states satisfy the inductive invariant.
LEMMA InitInv == Init => LockInv
<1> SUFFICES ASSUME Init PROVE LockInv
  OBVIOUS
<1>1. NoOp \in OpState /\ ~NoOp.won /\ NoOp.pc = "idle"
  BY DEF NoOp, OpState
<1>2. NoRel \in RelState /\ NoRel.pc = "off"
  BY DEF NoRel, RelState
<1>3. LockTypeOK
  BY <1>1, <1>2 DEF Init, LockTypeOK
<1>4. Won = {}
  BY <1>1 DEF Init, Won
<1> QED
  BY <1>1, <1>2, <1>3, <1>4 DEF Init, LockInv, Exclusive

\* A step that changes only the program counter and the result of one call.
LEMMA OpStep ==
  ASSUME LockInv, NEW p \in Calls, NEW r \in OpState, r.won = op[p].won,
         op' = [op EXCEPT ![p] = r]
  PROVE  /\ op' \in [Calls -> OpState]
         /\ op'[p] = r
         /\ \A q \in Calls : q # p => op'[q] = op[q]
         /\ Won' = Won
<1>1. /\ op' \in [Calls -> OpState] /\ op'[p] = r
      /\ \A q \in Calls : q # p => op'[q] = op[q]
  BY DEF LockInv, LockTypeOK
<1>2. Won' = Won
  BY <1>1 DEF Won
<1> QED
  BY <1>1, <1>2

\* Such a step, of a call that moves within the same stage, keeps the invariant.
LEMMA PlainStep ==
  ASSUME LockInv, NEW p \in Calls, NEW r \in OpState, r.won = op[p].won,
         op' = [op EXCEPT ![p] = r],
         r.pc \in {"idle", "create", "watch", "wait"} => p \notin Won,
         r.pc # "record",
         UNCHANGED <<conf, kv, entries, rel, up, ended>>
  PROVE  LockInv' /\ Won' = Won
<1>1. /\ op' \in [Calls -> OpState] /\ op'[p] = r
      /\ \A q \in Calls : q # p => op'[q] = op[q]
      /\ Won' = Won
  BY OpStep
<1>2. LockTypeOK'
  BY <1>1 DEF LockInv, LockTypeOK
<1> QED
  BY <1>1, <1>2 DEF LockInv, Exclusive

\* The start of TryLock or Acquire.
LEMMA BeginInv ==
  ASSUME LockInv, NEW p \in Calls, NEW l \in Lockers, NEW kind \in {"try", "acquire"},
         Begin(p, kind, l)
  PROVE  LockInv' /\ Won' = Won
<1> DEFINE r == [op[p] EXCEPT !.kind = kind, !.on = l, !.pc = "create"]
<1>1. /\ r \in OpState /\ r.won = op[p].won /\ r.pc = "create"
      /\ op' = [op EXCEPT ![p] = r]
  BY DEF LockInv, LockTypeOK, Begin, OpState
<1>2. p \notin Won
  BY DEF LockInv, Begin, MayBegin
<1> HIDE DEF r
<1> QED
  BY <1>1, <1>2, PlainStep DEF Begin

\* SET NX or kv.Create: it succeeds only on a free key, when every earlier
\* tenure has ended.
LEMMA CreateInv ==
  ASSUME LockInv, NEW p \in Calls, Create(p) PROVE LockInv'
<1>1. p \notin Won /\ op[p].pc = "create" /\ op[p] \in OpState
  BY DEF LockInv, LockTypeOK, Create
<1>2. CASE kv = None
  <2> DEFINE r == [op[p] EXCEPT !.pc = "record", !.won = TRUE]
             a == [pc |-> "armed", tok |-> p]
  <2>1. /\ r \in OpState /\ r.won /\ r.pc = "record"
        /\ op' = [op EXCEPT ![p] = r] /\ kv' = p
    BY <1>1, <1>2 DEF LockInv, LockTypeOK, Create, OpState
  <2> HIDE DEF r
  <2>2. /\ op' \in [Calls -> OpState] /\ op'[p] = r
        /\ \A q \in Calls : q # p => op'[q] = op[q]
    BY <2>1 DEF LockInv, LockTypeOK
  <2>3. Won' = Won \cup {p}
    BY <2>1, <2>2 DEF Won
  <2>4. a \in RelState /\ a.pc = "armed" /\ a.tok = p
    BY DEF RelState
  <2>5. rel' = rel \/ rel' = [rel EXCEPT ![p] = a]
    BY <1>2 DEF Create
  <2> HIDE DEF a
  <2>6. /\ rel' \in [Calls -> RelState]
        /\ \A q \in Calls : rel'[q] = rel[q] \/ (q = p /\ rel'[q] = a)
    BY <2>4, <2>5 DEF LockInv, LockTypeOK
  <2>7. LockTypeOK'
    BY <2>1, <2>2, <2>6 DEF LockInv, LockTypeOK, Create
  <2>8. Exclusive'
    BY <1>2, <2>1, <2>3, TokenLockAssumption DEF LockInv, Exclusive, Create, Won
  <2> QED
    BY <2>1, <2>2, <2>3, <2>4, <2>6, <2>7, <2>8 DEF LockInv, Create
<1>3. CASE kv # None
  <2>1. PICK r \in OpState : /\ r.won = op[p].won /\ r.pc # "record"
                             /\ op' = [op EXCEPT ![p] = r]
    <3>1. CASE op[p].kind = "try"
      <4> DEFINE r == [op[p] EXCEPT !.pc = "done", !.res = "false"]
      <4>1. r \in OpState /\ r.won = op[p].won /\ r.pc # "record"
        BY <1>1 DEF OpState
      <4>2. op' = [op EXCEPT ![p] = r]
        BY <1>3, <3>1 DEF Create, AfterRefusal, Done, LockInv, LockTypeOK, OpState
      <4> HIDE DEF r
      <4> QED
        BY <4>1, <4>2
    <3>2. CASE op[p].kind # "try"
      <4> DEFINE pc == IF conf.backend = "nats" THEN "watch" ELSE "wait"
                 r == [op[p] EXCEPT !.pc = pc]
      <4>1. r \in OpState /\ r.won = op[p].won /\ r.pc # "record"
        BY <1>1 DEF OpState
      <4>2. op' = [op EXCEPT ![p] = r]
        BY <1>3, <3>2 DEF Create, AfterRefusal, Goto, LockInv, LockTypeOK
      <4> HIDE DEF r
      <4> QED
        BY <4>1, <4>2
    <3> QED
      BY <3>1, <3>2
  <2> QED
    BY <1>1, <1>3, <2>1, PlainStep DEF Create
<1> QED
  BY <1>2, <1>3

\* The answer of the create is lost: the token may be there all the same.
LEMMA CreateFailsInv ==
  ASSUME LockInv, NEW p \in Calls, CreateFails(p) PROVE LockInv'
<1>1. p \notin Won /\ op[p].pc = "create" /\ op[p] \in OpState
  BY DEF LockInv, LockTypeOK, CreateFails
<1>2. CASE op' = Done(p, "error") /\ UNCHANGED kv
  <2> DEFINE r == [op[p] EXCEPT !.pc = "done", !.res = "error"]
  <2>1. r \in OpState /\ r.won = op[p].won /\ r.pc = "done" /\ op' = [op EXCEPT ![p] = r]
    BY <1>1, <1>2 DEF Done, OpState, LockInv, LockTypeOK
  <2> HIDE DEF r
  <2> QED
    BY <1>2, <2>1, PlainStep DEF CreateFails
<1>3. CASE /\ kv = None /\ kv' = p
           /\ op' = [op EXCEPT ![p].pc = "done", ![p].won = TRUE, ![p].res = "error"]
  <2> DEFINE r == [op[p] EXCEPT !.pc = "done", !.won = TRUE, !.res = "error"]
  <2>1. r \in OpState /\ r.won /\ r.pc = "done" /\ op' = [op EXCEPT ![p] = r]
    BY <1>1, <1>3 DEF OpState, LockInv, LockTypeOK
  <2> HIDE DEF r
  <2>2. /\ op' \in [Calls -> OpState] /\ op'[p] = r
        /\ \A q \in Calls : q # p => op'[q] = op[q]
    BY <2>1 DEF LockInv, LockTypeOK
  <2>3. Won' = Won \cup {p}
    BY <2>1, <2>2 DEF Won
  <2>4. LockTypeOK'
    BY <1>3, <2>2 DEF LockInv, LockTypeOK, CreateFails
  <2>5. Exclusive'
    BY <1>3, <2>3, TokenLockAssumption DEF LockInv, Exclusive, CreateFails, Won
  <2> QED
    BY <1>3, <2>1, <2>2, <2>3, <2>4, <2>5 DEF LockInv, CreateFails
<1> QED
  BY <1>2, <1>3 DEF CreateFails

\* The entry is recorded.
LEMMA RecordInv ==
  ASSUME LockInv, NEW p \in Calls, Record(p) PROVE LockInv' /\ Won' = Won
<1> DEFINE r == [op[p] EXCEPT !.pc = "done", !.res = "true"]
<1>0. op[p] \in OpState /\ op' = [op EXCEPT ![p] = r]
  BY DEF Record, Done, LockInv, LockTypeOK, OpState
<1>1. /\ r \in OpState /\ r.won = op[p].won /\ r.pc = "done"
      /\ op' = [op EXCEPT ![p] = r]
  BY <1>0 DEF OpState
<1> HIDE DEF r
<1>2. /\ op' \in [Calls -> OpState] /\ op'[p] = r
      /\ \A q \in Calls : q # p => op'[q] = op[q]
      /\ Won' = Won
  BY <1>1, OpStep
<1>3. /\ entries' \in [Lockers -> {None} \cup Calls]
      /\ \A l \in Lockers : entries'[l] \in {entries[l], p}
  BY DEF Record, LockInv, LockTypeOK
<1>4. p \in Won
  BY DEF Record, LockInv
<1>5. LockTypeOK'
  BY <1>2, <1>3 DEF Record, LockInv, LockTypeOK
<1> QED
  BY <1>1, <1>2, <1>3, <1>4, <1>5 DEF Record, LockInv, Exclusive

\* The wait of Acquire.
LEMMA WaitInv ==
  ASSUME LockInv, NEW p \in Calls,
         RedisRetry(p) \/ NatsWatch(p) \/ WatcherCloses(p) \/ Cancel(p)
  PROVE  LockInv' /\ Won' = Won
<1>1. p \notin Won /\ op[p] \in OpState
  BY DEF LockInv, LockTypeOK, RedisRetry, NatsWatch, WatcherCloses, Cancel
<1>2. UNCHANGED <<conf, kv, entries, rel, up, ended>>
  BY DEF RedisRetry, NatsWatch, WatcherCloses, Cancel
<1>3. ASSUME NEW pc \in {"create", "wait"}, op' = Goto(p, pc)
      PROVE  LockInv' /\ Won' = Won
  <2> DEFINE r == [op[p] EXCEPT !.pc = pc]
  <2>1. /\ r \in OpState /\ r.won = op[p].won /\ r.pc = pc
        /\ op' = [op EXCEPT ![p] = r]
    BY <1>1, <1>3 DEF OpState, LockInv, LockTypeOK, Goto
  <2> HIDE DEF r
  <2> QED
    BY <1>1, <1>2, <2>1, PlainStep
<1>4. ASSUME NEW res \in {"error", "canceled"}, op' = Done(p, res)
      PROVE  LockInv' /\ Won' = Won
  <2> DEFINE r == [op[p] EXCEPT !.pc = "done", !.res = res]
  <2>1. /\ r \in OpState /\ r.won = op[p].won /\ r.pc = "done"
        /\ op' = [op EXCEPT ![p] = r]
    BY <1>1, <1>4 DEF OpState, LockInv, LockTypeOK, Done
  <2> HIDE DEF r
  <2> QED
    BY <1>1, <1>2, <2>1, PlainStep
<1> QED
  BY <1>3, <1>4 DEF RedisRetry, NatsWatch, WatcherCloses, Cancel

-----------------------------------------------------------------------------
\* Steps that take locks away.  A token leaves the server only when its tenure
\* has ended, and no call comes to hold anything.
TenureStep ==
  /\ op' \in [Calls -> OpState] /\ rel' \in [Calls -> RelState]
  /\ entries' \in [Lockers -> {None} \cup Calls]
  /\ conf' = conf /\ up' \subseteq Lockers
  /\ \A q \in Calls : op'[q].won = op[q].won
  /\ \A q \in Calls : op'[q].pc \in {"idle", "create", "watch", "wait"} =>
                        op[q].pc \in {"idle", "create", "watch", "wait"}
  /\ \A q \in Calls : op'[q].pc = "record" => op[q].pc = "record"
  /\ \A q \in Calls : rel'[q].pc = "armed" => rel'[q] = rel[q]
  /\ \A q \in Calls : rel'[q].pc \in {"get", "delete", "cleanup"} => rel'[q].tok \in ended'
  /\ \A l \in Lockers : entries'[l] \in {entries[l], None}
  /\ ended \subseteq ended' /\ ended' \subseteq Won
  /\ kv' = kv \/ (kv' = None /\ kv \in ended')

\* Such a step keeps the inductive invariant.
LEMMA TenureInv ==
  ASSUME LockInv, TenureStep PROVE LockInv' /\ Won' = Won
<1>1. Won' = Won
  BY DEF TenureStep, Won
<1>2. LockTypeOK'
  BY <1>1 DEF TenureStep, LockInv, LockTypeOK, Won
<1>3. Exclusive'
  BY <1>1 DEF TenureStep, LockInv, Exclusive
<1> QED
  BY <1>1, <1>2, <1>3 DEF TenureStep, LockInv

\* Release reads the entry and starts to remove its token.
LEMMA BeginReleaseInv ==
  ASSUME LockInv, NEW p \in Calls, NEW l \in Lockers, BeginRelease(p, l)
  PROVE  TenureStep
<1> DEFINE t == entries[l]
           r == [op[p] EXCEPT !.kind = "release", !.on = l,
                              !.pc = IF t = None THEN "done" ELSE "release",
                              !.res = IF t = None THEN "nil" ELSE "none"]
<1>1. op[p] \in OpState /\ op' = [op EXCEPT ![p] = r]
  BY DEF BeginRelease, LockInv, LockTypeOK
<1>2. r \in OpState /\ r.won = op[p].won /\ r.pc \in {"done", "release"}
  <2>1. CASE t = None
    BY <1>1, <2>1 DEF OpState
  <2>2. CASE t # None
    BY <1>1, <2>2 DEF OpState
  <2> QED
    BY <2>1, <2>2
<1> HIDE DEF r
<1>3. /\ op' \in [Calls -> OpState] /\ op'[p] = r
      /\ \A q \in Calls : q # p => op'[q] = op[q]
  BY <1>1, <1>2, OpStep
<1>4. CASE t = None
  <2>1. UNCHANGED <<conf, kv, entries, rel, up, ended>>
    BY <1>4 DEF BeginRelease
  <2> QED
    BY <1>2, <1>3, <2>1 DEF TenureStep, LockInv, LockTypeOK
<1>5. CASE t # None
  <2>1. t \in Won /\ t \in Calls
    BY <1>5 DEF LockInv, Won
  <2> DEFINE a == [pc |-> FirstRel, tok |-> t]
  <2>2. /\ a \in RelState /\ a.pc \in {"get", "delete"} /\ a.tok = t
        /\ NoRel \in RelState /\ NoRel.pc = "off"
    BY <2>1 DEF RelState, NoRel, FirstRel
  <2>3. /\ rel' = [q \in Calls |->
             IF q = p THEN a
             ELSE IF conf.backend = "redis" /\ q = t /\ rel[q].pc = "armed"
               THEN NoRel
             ELSE rel[q]]
        /\ ended' = ended \cup {t} /\ UNCHANGED <<conf, kv, entries, up>>
    BY <1>5 DEF BeginRelease
  <2> HIDE DEF a
  <2>4. /\ rel' \in [Calls -> RelState]
        /\ \A q \in Calls : rel'[q] \in {a, NoRel, rel[q]}
    BY <2>2, <2>3 DEF LockInv, LockTypeOK
  <2> QED
    BY <1>2, <1>3, <2>1, <2>2, <2>3, <2>4 DEF TenureStep, LockInv, LockTypeOK
<1> QED
  BY <1>4, <1>5

\* The timer fires for the token it was armed with.
LEMMA FireInv ==
  ASSUME LockInv, NEW p \in Calls, Fire(p) PROVE TenureStep
<1> DEFINE a == [rel[p] EXCEPT !.pc = FirstRel]
<1>1. rel[p] \in RelState /\ rel[p].pc = "armed" /\ rel[p].tok = p /\ p \in Won
  BY DEF LockInv, LockTypeOK, Fire
<1>2. a \in RelState /\ a.pc \in {"get", "delete"} /\ a.tok = p
  BY <1>1 DEF RelState, FirstRel
<1>3. rel' = [rel EXCEPT ![p] = a] /\ ended' = ended \cup {p}
      /\ UNCHANGED <<conf, kv, entries, op, up>>
  BY DEF Fire, LockInv, LockTypeOK
<1> HIDE DEF a
<1>4. /\ rel' \in [Calls -> RelState] /\ rel'[p] = a
      /\ \A q \in Calls : q # p => rel'[q] = rel[q]
  BY <1>2, <1>3 DEF LockInv, LockTypeOK
<1> QED
  BY <1>1, <1>2, <1>3, <1>4 DEF TenureStep, LockInv, LockTypeOK

\* The wake-up of the watchers moves waiting calls only.
LEMMA WakeFacts ==
  ASSUME LockInv
  PROVE  /\ Wake \in [Calls -> OpState]
         /\ \A q \in Calls : Wake[q].won = op[q].won
         /\ \A q \in Calls : Wake[q].pc = op[q].pc
                             \/ (op[q].pc = "wait" /\ Wake[q].pc = "create")
<1> SUFFICES ASSUME NEW q \in Calls
             PROVE  /\ Wake[q] \in OpState /\ Wake[q].won = op[q].won
                    /\ Wake[q].pc = op[q].pc
                       \/ (op[q].pc = "wait" /\ Wake[q].pc = "create")
  BY DEF Wake
<1> DEFINE w == [op[q] EXCEPT !.pc = "create"]
<1>1. op[q] \in OpState
  BY DEF LockInv, LockTypeOK
<1>2. w \in OpState /\ w.won = op[q].won /\ w.pc = "create"
  BY <1>1 DEF OpState
<1>3. Wake[q] = IF conf.backend = "nats" /\ op[q].pc = "wait" THEN w ELSE op[q]
  BY DEF Wake
<1> HIDE DEF w
<1> QED
  BY <1>1, <1>2, <1>3

\* What the end of a run of releaseWithToken does to itself and to the calls.
LEMMA RelDoneFacts ==
  ASSUME LockInv, NEW p \in Calls, NEW res \in {"nil", "error"}, NEW o \in {op, Wake},
         RelDone(p, res, o)
  PROVE  /\ op' \in [Calls -> OpState] /\ rel' \in [Calls -> RelState]
         /\ \A q \in Calls : op'[q].won = op[q].won
         /\ \A q \in Calls : op'[q].pc \in {op[q].pc, "done"}
                              \/ (op[q].pc = "wait" /\ op'[q].pc = "create")
         /\ \A q \in Calls : rel'[q] = rel[q] \/ rel'[q].pc = "off"
<1> DEFINE a == [rel[p] EXCEPT !.pc = "off"]
           r == [o[p] EXCEPT !.pc = "done", !.res = res]
<1>1. /\ rel[p] \in RelState /\ o \in [Calls -> OpState] /\ o[p] \in OpState
      /\ \A q \in Calls : o[q].won = op[q].won
      /\ \A q \in Calls : o[q].pc = op[q].pc
                           \/ (op[q].pc = "wait" /\ o[q].pc = "create")
  BY WakeFacts DEF LockInv, LockTypeOK
<1>2. a \in RelState /\ a.pc = "off"
  BY <1>1 DEF RelState
<1>3. r \in OpState /\ r.won = o[p].won /\ r.pc = "done"
  BY <1>1 DEF OpState
<1>4. rel' = [rel EXCEPT ![p] = a]
  BY DEF RelDone, LockInv, LockTypeOK
<1>5. op' = o \/ op' = [o EXCEPT ![p] = r]
  BY <1>1 DEF RelDone, OpState
<1> HIDE DEF a, r
<1>6. rel' \in [Calls -> RelState] /\ \A q \in Calls : rel'[q] = rel[q] \/ rel'[q].pc = "off"
  BY <1>2, <1>4 DEF LockInv, LockTypeOK
<1>7. op' \in [Calls -> OpState] /\ \A q \in Calls : op'[q] = o[q] \/ (q = p /\ op'[q] = r)
  BY <1>1, <1>3, <1>5
<1> QED
  BY <1>1, <1>3, <1>6, <1>7

\* A run of releaseWithToken that goes on keeps its token.
LEMMA RelGoesOn ==
  ASSUME LockInv, NEW p \in Calls, NEW pc \in {"delete", "cleanup"},
         rel[p].pc \in {"get", "delete"}, rel' = [rel EXCEPT ![p].pc = pc]
  PROVE  /\ rel' \in [Calls -> RelState]
         /\ \A q \in Calls : rel'[q].pc = "armed" => rel'[q] = rel[q]
         /\ \A q \in Calls : rel'[q].pc \in {"get", "delete", "cleanup"} =>
                               rel'[q].tok \in ended
<1> DEFINE a == [rel[p] EXCEPT !.pc = pc]
<1>1. rel[p] \in RelState /\ rel[p].tok \in ended
  BY DEF LockInv, LockTypeOK
<1>2. a \in RelState /\ a.pc = pc /\ a.tok = rel[p].tok
  BY <1>1 DEF RelState
<1>3. rel' = [rel EXCEPT ![p] = a]
  BY DEF LockInv, LockTypeOK
<1> HIDE DEF a
<1> QED
  BY <1>1, <1>2, <1>3 DEF LockInv, LockTypeOK

\* NATS looks at the entry.
LEMMA NatsGetInv ==
  ASSUME LockInv, NEW p \in Calls, NatsGet(p) PROVE TenureStep
<1>1. CASE RelDone(p, "nil", op)
  BY <1>1, RelDoneFacts DEF NatsGet, TenureStep, LockInv, LockTypeOK
<1>2. CASE ~RelDone(p, "nil", op)
  <2>1. PICK pc \in {"delete", "cleanup"} : rel' = [rel EXCEPT ![p].pc = pc]
    BY <1>2 DEF NatsGet
  <2>2. UNCHANGED <<conf, kv, entries, op, up, ended>>
    BY <1>2 DEF NatsGet
  <2>3. rel[p].pc \in {"get", "delete"}
    BY DEF NatsGet
  <2>4. /\ rel' \in [Calls -> RelState]
        /\ \A q \in Calls : rel'[q].pc = "armed" => rel'[q] = rel[q]
        /\ \A q \in Calls : rel'[q].pc \in {"get", "delete", "cleanup"} =>
                              rel'[q].tok \in ended
    BY <2>1, <2>3, RelGoesOn
  <2> QED
    BY <2>2, <2>4 DEF TenureStep, LockInv, LockTypeOK
<1> QED
  BY <1>1, <1>2

\* The delete removes the token of the run or nothing.
LEMMA DeleteInv ==
  ASSUME LockInv, NEW p \in Calls, Delete(p) PROVE TenureStep
<1>1. rel[p].pc \in {"get", "delete"} /\ rel[p].tok \in ended
      /\ UNCHANGED <<conf, entries, up, ended>>
  BY DEF Delete, LockInv
<1>2. CASE /\ kv = rel[p].tok /\ kv' = None /\ op' = Wake
           /\ rel' = [rel EXCEPT ![p].pc = "cleanup"]
  <2>1. /\ rel' \in [Calls -> RelState]
        /\ \A q \in Calls : rel'[q].pc = "armed" => rel'[q] = rel[q]
        /\ \A q \in Calls : rel'[q].pc \in {"get", "delete", "cleanup"} =>
                              rel'[q].tok \in ended
    BY <1>1, <1>2, RelGoesOn
  <2>2. /\ op' \in [Calls -> OpState] /\ \A q \in Calls : op'[q].won = op[q].won
        /\ \A q \in Calls : op'[q].pc = op[q].pc
                             \/ (op[q].pc = "wait" /\ op'[q].pc = "create")
    BY <1>2, WakeFacts
  <2> QED
    BY <1>1, <1>2, <2>1, <2>2 DEF TenureStep, LockInv, LockTypeOK
<1>3. CASE rel' = [rel EXCEPT ![p].pc = "cleanup"] /\ UNCHANGED <<kv, op>>
  <2>1. /\ rel' \in [Calls -> RelState]
        /\ \A q \in Calls : rel'[q].pc = "armed" => rel'[q] = rel[q]
        /\ \A q \in Calls : rel'[q].pc \in {"get", "delete", "cleanup"} =>
                              rel'[q].tok \in ended
    BY <1>1, <1>3, RelGoesOn
  <2> QED
    BY <1>1, <1>3, <2>1 DEF TenureStep, LockInv, LockTypeOK
<1>4. CASE RelDone(p, "nil", op) /\ UNCHANGED kv
  BY <1>1, <1>4, RelDoneFacts DEF TenureStep, LockInv, LockTypeOK
<1> QED
  BY <1>2, <1>3, <1>4 DEF Delete

\* A request of releaseWithToken fails, with or without its effect.
LEMMA DeleteFailsInv ==
  ASSUME LockInv, NEW p \in Calls, DeleteFails(p) PROVE TenureStep
<1>1. rel[p].tok \in ended
  BY DEF DeleteFails, LockInv
<1>2. kv' = kv \/ (kv' = None /\ kv \in ended)
  BY <1>1 DEF DeleteFails
<1>3. PICK o \in {op, Wake} : RelDone(p, "error", o)
  BY DEF DeleteFails
<1> QED
  BY <1>2, <1>3, RelDoneFacts DEF DeleteFails, TenureStep, LockInv, LockTypeOK

\* The local entry and its timer go.
LEMMA CleanupInv ==
  ASSUME LockInv, NEW p \in Calls, Cleanup(p) PROVE TenureStep
<1> DEFINE r == [op[p] EXCEPT !.pc = "done", !.res = "nil"]
<1>1. op[p] \in OpState /\ NoRel \in RelState /\ NoRel.pc = "off"
  BY DEF LockInv, LockTypeOK, NoRel, RelState
<1>2. r \in OpState /\ r.won = op[p].won /\ r.pc = "done"
  BY <1>1 DEF OpState
<1>3. op' = op \/ op' = [op EXCEPT ![p] = r]
  BY <1>1 DEF Cleanup, Done, LockInv, LockTypeOK, OpState
<1> HIDE DEF r
<1>4. /\ op' \in [Calls -> OpState] /\ \A q \in Calls : op'[q].won = op[q].won
      /\ \A q \in Calls : op'[q].pc = op[q].pc \/ op'[q].pc = "done"
  BY <1>2, <1>3 DEF LockInv, LockTypeOK
<1>5. /\ rel' \in [Calls -> RelState]
      /\ \A q \in Calls : rel'[q] = rel[q] \/ rel'[q] = NoRel
  BY <1>1 DEF Cleanup, LockInv, LockTypeOK
<1>6. /\ entries' \in [Lockers -> {None} \cup Calls]
      /\ \A l \in Lockers : entries'[l] \in {entries[l], None}
  BY DEF Cleanup, LockInv, LockTypeOK
<1>7. UNCHANGED <<conf, kv, up, ended>>
  BY DEF Cleanup
<1> QED
  BY <1>1, <1>4, <1>5, <1>6, <1>7 DEF TenureStep, LockInv, LockTypeOK

\* The server expires the key.
LEMMA ExpireInv == ASSUME LockInv, Expire PROVE TenureStep
<1>1. kv \in Won
  BY DEF Expire, LockInv
<1> QED
  BY <1>1 DEF Expire, TenureStep, LockInv, LockTypeOK

\* A crash takes calls, entries and timers with it.
LEMMA CrashInv ==
  ASSUME LockInv, NEW l \in Lockers, Crash(l) PROVE TenureStep
<1>1. NoRel \in RelState /\ NoRel.pc = "off"
  BY DEF NoRel, RelState
<1>2. ASSUME NEW q \in Calls
      PROVE  /\ op'[q] \in OpState /\ op'[q].won = op[q].won
             /\ op'[q].pc = op[q].pc \/ op'[q].pc = "dead"
  <2> DEFINE d == [op[q] EXCEPT !.pc = "dead"]
  <2>1. op[q] \in OpState
    BY DEF LockInv, LockTypeOK
  <2>2. d \in OpState /\ d.won = op[q].won /\ d.pc = "dead"
    BY <2>1 DEF OpState
  <2>3. op'[q] = IF op[q].on = l /\ op[q].pc # "done" THEN d ELSE op[q]
    BY DEF Crash
  <2> HIDE DEF d
  <2> QED
    BY <2>1, <2>2, <2>3
<1>3. op' \in [Calls -> OpState]
  BY <1>2 DEF Crash
<1>4. /\ rel' \in [Calls -> RelState]
      /\ \A q \in Calls : rel'[q] = rel[q] \/ rel'[q] = NoRel
  BY <1>1 DEF Crash, LockInv, LockTypeOK
<1>5. /\ entries' \in [Lockers -> {None} \cup Calls]
      /\ \A m \in Lockers : entries'[m] \in {entries[m], None}
  BY DEF Crash, LockInv, LockTypeOK
<1>6. UNCHANGED <<conf, kv, ended>> /\ up' \subseteq Lockers
  BY DEF Crash, LockInv, LockTypeOK
<1> QED
  BY <1>1, <1>2, <1>3, <1>4, <1>5, <1>6 DEF TenureStep, LockInv, LockTypeOK

-----------------------------------------------------------------------------
\* The steps that take nothing away and grant nothing.
Neutral ==
  \/ \E p \in Calls, l \in Lockers : Begin(p, "try", l) \/ Begin(p, "acquire", l)
  \/ \E p \in Calls : Record(p) \/ RedisRetry(p) \/ NatsWatch(p)
                      \/ WatcherCloses(p) \/ Cancel(p)

\* The steps that may end a tenure.
Taking ==
  \/ \E p \in Calls, l \in Lockers : BeginRelease(p, l)
  \/ \E p \in Calls : Fire(p) \/ RelStep(p)
  \/ Expire
  \/ \E l \in Lockers : Crash(l)

\* Every step is one of a create, a neutral step and a step that takes away.
LEMMA StepKinds ==
  Next <=> \/ \E p \in Calls : Create(p) \/ CreateFails(p)
           \/ Neutral \/ Taking
BY DEF Next, LockStep, Neutral, Taking

\* A neutral step keeps the invariant and the set of winners.
LEMMA NeutralInv == ASSUME LockInv, Neutral PROVE LockInv' /\ Won' = Won
BY BeginInv, RecordInv, WaitInv DEF Neutral

\* A step that may end a tenure is a TenureStep.
LEMMA TakingInv == ASSUME LockInv, Taking PROVE TenureStep
BY BeginReleaseInv, FireInv, NatsGetInv, DeleteInv, DeleteFailsInv, CleanupInv,
   ExpireInv, CrashInv DEF Taking, RelStep

\* Every step keeps the inductive invariant.
LEMMA NextInv == LockInv /\ [Next]_vars => LockInv'
<1> SUFFICES ASSUME LockInv, [Next]_vars PROVE LockInv'
  OBVIOUS
<1>1. CASE \E p \in Calls : Create(p) \/ CreateFails(p)
  BY <1>1, CreateInv, CreateFailsInv
<1>2. CASE Neutral
  BY <1>2, NeutralInv
<1>3. CASE Taking
  BY <1>3, TakingInv, TenureInv
<1>4. CASE UNCHANGED vars
  BY <1>4 DEF vars, LockInv, LockTypeOK, Exclusive, Won
<1> QED
  BY <1>1, <1>2, <1>3, <1>4, StepKinds

-----------------------------------------------------------------------------
\* The strengthened invariant holds in every reachable state of either backend.
THEOREM LockInvariant == Spec => []LockInv
<1>1. Init => LockInv
  BY InitInv
<1>2. LockInv /\ [Next]_vars => LockInv'
  BY NextInv
<1> QED
  BY <1>1, <1>2, PTL DEF Spec

\* Mutual exclusion of the Redis and the NATS locker, whatever fails or crashes:
\* who obtained the lock keeps it until its own tenure has ended.
THEOREM MutualExclusion == Spec => []Exclusive
<1>1. LockInv => Exclusive
  BY DEF LockInv
<1> QED
  BY <1>1, LockInvariant, PTL

\* A granting step of the server is a Grant of the abstract locker.
LEMMA CreateRefines ==
  ASSUME LockInv, NEW p \in Calls, Create(p) \/ CreateFails(p)
  PROVE  [L!LockerNext]_(L!lockerVars)
<1>1. op[p] \in OpState /\ p \notin Won /\ op \in [Calls -> OpState]
  BY DEF LockInv, LockTypeOK, Create, CreateFails
<1>2. CASE kv' = kv
  <2>1. \A q \in Calls : op'[q].won = op[q].won
    BY <1>1, <1>2, TokenLockAssumption
       DEF Create, CreateFails, AfterRefusal, Done, Goto, OpState
  <2> QED
    BY <1>2, <2>1 DEF L!lockerVars, Won, Create, CreateFails
<1>3. CASE kv' # kv
  <2>1. kv = None /\ kv' = p /\ ended' = ended
    BY <1>3 DEF Create, CreateFails
  <2>2. op'[p].won /\ \A q \in Calls : q # p => op'[q] = op[q]
    BY <1>1, <1>3 DEF Create, CreateFails, OpState
  <2>3. Won' = Won \cup {p}
    BY <2>2 DEF Won
  <2>4. L!Grant(p)
    BY <1>1, <2>1, <2>3 DEF L!Grant
  <2> QED
    BY <2>4 DEF L!LockerNext
<1> QED
  BY <1>2, <1>3

\* A step that may end a tenure is an End or a Free of the abstract locker, or a
\* stuttering step of it.
LEMMA TakingRefines ==
  ASSUME LockInv, Taking PROVE [L!LockerNext]_(L!lockerVars)
<1>1. Won' = Won
  BY TakingInv, TenureInv
<1>2. ASSUME NEW t \in Calls, t \in Won, ended' = ended \cup {t},
             kv' = kv \/ (kv = t /\ kv' = None)
      PROVE  L!LockerNext
  BY <1>1, <1>2 DEF L!LockerNext, L!End
<1>3. ASSUME ended' = ended, kv' = kv \/ (kv # None /\ kv \in ended /\ kv' = None)
      PROVE  [L!LockerNext]_(L!lockerVars)
  <2>1. kv \in {None} \cup Calls
    BY DEF LockInv, LockTypeOK
  <2> QED
    BY <1>1, <1>3, <2>1 DEF L!LockerNext, L!Free, L!lockerVars
<1>4. ASSUME NEW p \in Calls, NEW l \in Lockers, BeginRelease(p, l)
      PROVE  [L!LockerNext]_(L!lockerVars)
  <2>1. entries[l] # None => entries[l] \in Won /\ entries[l] \in Calls
    BY DEF LockInv, Won
  <2>2. kv' = kv /\ (entries[l] = None => ended' = ended)
                 /\ (entries[l] # None => ended' = ended \cup {entries[l]})
    BY <1>4 DEF BeginRelease
  <2> QED
    BY <1>2, <1>3, <2>1, <2>2
<1>5. ASSUME NEW p \in Calls, Fire(p) PROVE L!LockerNext
  BY <1>2, <1>5 DEF Fire, LockInv
<1>6. ASSUME NEW p \in Calls, RelStep(p) PROVE [L!LockerNext]_(L!lockerVars)
  <2>1. rel[p].pc = "delete" => rel[p].tok \in ended /\ rel[p].tok # None
    BY TokenLockAssumption DEF LockInv, LockTypeOK
  <2>2. ended' = ended
    BY <1>6 DEF RelStep, NatsGet, Delete, DeleteFails, Cleanup
  <2>3. kv' = kv \/ (kv # None /\ kv \in ended /\ kv' = None)
    BY <1>6, <2>1 DEF RelStep, NatsGet, Delete, DeleteFails, Cleanup
  <2> QED
    BY <1>3, <2>2, <2>3
<1>7. CASE Expire
  <2>1. kv \in Won /\ kv \in Calls
    BY <1>7 DEF Expire, LockInv, Won
  <2> QED
    BY <1>2, <1>7, <2>1 DEF Expire
<1>8. ASSUME NEW l \in Lockers, Crash(l) PROVE [L!LockerNext]_(L!lockerVars)
  BY <1>3, <1>8 DEF Crash
<1> QED
  BY <1>4, <1>5, <1>6, <1>7, <1>8 DEF Taking

\* Refinement: both lockers implement the abstract locker of lock/lock.go, so a
\* caller may reason about Redis and NATS locks alike.
THEOREM TokenLockRefines == Spec => ImplementsLocker
<1>1. Init => L!LockerInit
  BY DEF Init, L!LockerInit, Won, NoOp
<1>2. LockInv /\ [Next]_vars => [L!LockerNext]_(L!lockerVars)
  <2> SUFFICES ASSUME LockInv, [Next]_vars PROVE [L!LockerNext]_(L!lockerVars)
    OBVIOUS
  <2>1. CASE \E p \in Calls : Create(p) \/ CreateFails(p)
    BY <2>1, CreateRefines
  <2>2. CASE Neutral
    <3>1. Won' = Won
      BY <2>2, NeutralInv
    <3>2. UNCHANGED <<kv, ended>>
      BY <2>2 DEF Neutral, Begin, Record, RedisRetry, NatsWatch,
                     WatcherCloses, Cancel
    <3> QED
      BY <3>1, <3>2 DEF L!lockerVars
  <2>3. CASE Taking
    BY <2>3, TakingRefines
  <2>4. CASE UNCHANGED vars
    BY <2>4 DEF vars, L!lockerVars, Won
  <2> QED
    BY <2>1, <2>2, <2>3, <2>4, StepKinds
<1> QED
  BY <1>1, <1>2, LockInvariant, PTL DEF Spec, ImplementsLocker, L!LockerSpec
=============================================================================
