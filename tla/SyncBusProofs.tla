--------------------------- MODULE SyncBusProofs ---------------------------
(***************************************************************************)
(* Proofs about the in-process bus, for any number of overlapping calls    *)
(* and of subscribers.                                                     *)
(***************************************************************************)
EXTENDS SyncBus, FiniteSetTheorems, TLAPS

\* No channel is registered twice and a registered channel is open.
SubsInv ==
  /\ \A i, j \in 1..Len(subs) : subs[i] = subs[j] => i = j
  /\ \A i \in 1..Len(subs) : subs[i] \notin closed
  /\ \A p \in Calls : owed[p] \subseteq Registered

\* What a call has done by the point it has reached.
CallInv(p) ==
  LET s == call[p] IN
  /\ s.pc \in {"idle", "lock", "send"} <=> s.res = "none"
  /\ s.pc \in {"idle", "lock"} => s.next = 1 /\ s.sent = 0 /\ got[p] = {}
  /\ s.pc = "send" =>
       /\ s.chans = subs
       /\ s.next \in 1..Len(subs)
       /\ \A j \in 1..(s.next - 1) : subs[j] \in owed[p] => full[subs[j]]
       /\ \A c \in got[p] : \E j \in 1..(s.next - 1) : c = subs[j]
       /\ IsFiniteSet(got[p])
       /\ Cardinality(got[p]) = s.sent
  /\ s.res = "nil" =>
       /\ \A c \in owed[p] : full[c]
       /\ IsFiniteSet(got[p])
       /\ Cardinality(got[p]) >= s.need

BusInv ==
  /\ BusTypeOK
  /\ OnePublisher
  /\ SubsInv
  /\ \A p \in Calls : CallInv(p)

-----------------------------------------------------------------------------
\* The initial bus satisfies the inductive invariant.
LEMMA InitInv == BusInit => BusInv
<1> SUFFICES ASSUME BusInit PROVE BusInv
  OBVIOUS
<1> USE DEF BusInit, NoCall
<1>1. BusTypeOK
  <2>1. <<>> \in Seq(Channels)
    OBVIOUS
  <2>2. NoCall \in CallState
    BY <2>1 DEF CallState, Results
  <2> QED
    BY <2>1, <2>2 DEF BusTypeOK
<1>2. OnePublisher
  BY DEF OnePublisher, Owners
<1>3. SubsInv
  BY DEF SubsInv, Registered
<1>4. ASSUME NEW p \in Calls PROVE CallInv(p)
  BY DEF CallInv
<1> QED
  BY <1>1, <1>2, <1>3, <1>4 DEF BusInv

\* Subscribe registers a fresh channel while no loop runs.
LEMMA SubscribeInv ==
  ASSUME BusInv, NEW c \in Channels, Subscribe(c) PROVE BusInv'
<1> USE DEF BusInv, Subscribe
<1>1. /\ subs' \in Seq(Channels) /\ Len(subs') = Len(subs) + 1
      /\ \A i \in 1..Len(subs) : subs'[i] = subs[i]
      /\ subs'[Len(subs) + 1] = c
  BY DEF BusTypeOK
<1>2. BusTypeOK'
  BY <1>1 DEF BusTypeOK
<1>3. OnePublisher'
  BY DEF OnePublisher, Owners
<1>4. Len(subs) \in Nat
  BY DEF BusTypeOK
<1>5. Registered \subseteq Registered'
  BY <1>1, <1>4 DEF Registered
<1>6. SubsInv'
  BY <1>1, <1>4, <1>5 DEF SubsInv, Registered
<1>7. ASSUME NEW p \in Calls PROVE CallInv(p)'
  BY DEF CallInv, Readers
<1> QED
  BY <1>2, <1>3, <1>6, <1>7

\* SwapRemove drops one channel and keeps the others, once each.
LEMMA SwapRemoveFacts ==
  ASSUME NEW s \in Seq(Channels), NEW i \in 1..Len(s),
         \A j, k \in 1..Len(s) : s[j] = s[k] => j = k
  PROVE  /\ SwapRemove(s, i) \in Seq(Channels)
         /\ Len(SwapRemove(s, i)) = Len(s) - 1
         /\ \A j \in 1..(Len(s) - 1) :
              SwapRemove(s, i)[j] = IF j = i THEN s[Len(s)] ELSE s[j]
         /\ \A j \in 1..Len(s) : j # i =>
              \E k \in 1..(Len(s) - 1) : SwapRemove(s, i)[k] = s[j]
<1> DEFINE t == [s EXCEPT ![i] = s[Len(s)]]
<1>1. t \in Seq(Channels) /\ Len(t) = Len(s)
  OBVIOUS
<1>2. /\ SwapRemove(s, i) \in Seq(Channels)
      /\ Len(SwapRemove(s, i)) = Len(s) - 1
      /\ \A j \in 1..(Len(s) - 1) : SwapRemove(s, i)[j] = t[j]
  BY <1>1 DEF SwapRemove
<1>3. \A j \in 1..Len(s) : t[j] = IF j = i THEN s[Len(s)] ELSE s[j]
  OBVIOUS
<1>4. ASSUME NEW j \in 1..Len(s), j # i
      PROVE  \E k \in 1..(Len(s) - 1) : SwapRemove(s, i)[k] = s[j]
  <2>1. CASE j = Len(s)
    BY <1>2, <1>3, <1>4, <2>1
  <2>2. CASE j # Len(s)
    BY <1>2, <1>3, <1>4, <2>2
  <2> QED
    BY <2>1, <2>2
<1> QED
  BY <1>2, <1>3, <1>4

\* Unsubscribe takes one channel out while no loop runs.
LEMMA UnsubscribeInv ==
  ASSUME BusInv, NEW c \in Channels, Unsubscribe(c) PROVE BusInv'
<1> USE DEF BusInv, Unsubscribe
<1>1. PICK i \in 1..Len(subs) : subs[i] = c /\ subs' = SwapRemove(subs, i)
  OBVIOUS
<1>2. subs \in Seq(Channels) /\ Len(subs) \in Nat
  BY DEF BusTypeOK
<1>3. /\ subs' \in Seq(Channels)
      /\ Len(subs') = Len(subs) - 1
      /\ \A j \in 1..(Len(subs) - 1) :
           subs'[j] = IF j = i THEN subs[Len(subs)] ELSE subs[j]
      /\ \A j \in 1..Len(subs) : j # i =>
           \E k \in 1..(Len(subs) - 1) : subs'[k] = subs[j]
  <2>1. \A j, k \in 1..Len(subs) : subs[j] = subs[k] => j = k
    BY DEF SubsInv
  <2>2. /\ SwapRemove(subs, i) \in Seq(Channels)
        /\ Len(SwapRemove(subs, i)) = Len(subs) - 1
        /\ \A j \in 1..(Len(subs) - 1) :
             SwapRemove(subs, i)[j] = IF j = i THEN subs[Len(subs)] ELSE subs[j]
        /\ \A j \in 1..Len(subs) : j # i =>
             \E k \in 1..(Len(subs) - 1) : SwapRemove(subs, i)[k] = subs[j]
    BY <1>2, <2>1, SwapRemoveFacts
  <2> QED
    BY <1>1, <2>2
<1>4. BusTypeOK'
  BY <1>3 DEF BusTypeOK
<1>5. OnePublisher'
  BY DEF OnePublisher, Owners
<1>6. SubsInv'
  <2>1. \A j, k \in 1..Len(subs') : subs'[j] = subs'[k] => j = k
    <3>1. SUFFICES ASSUME NEW j \in 1..(Len(subs) - 1), NEW k \in 1..(Len(subs) - 1),
                          subs'[j] = subs'[k]
                   PROVE  j = k
      BY <1>3
    <3>2. \A a, b \in 1..Len(subs) : subs[a] = subs[b] => a = b
      BY DEF SubsInv
    <3>3. Len(subs) \in 1..Len(subs) /\ j \in 1..Len(subs) /\ k \in 1..Len(subs)
      BY <1>2
    <3>4. /\ subs'[j] = subs[IF j = i THEN Len(subs) ELSE j]
          /\ subs'[k] = subs[IF k = i THEN Len(subs) ELSE k]
      BY <1>3
    <3>5. (IF j = i THEN Len(subs) ELSE j) = (IF k = i THEN Len(subs) ELSE k)
      BY <3>1, <3>2, <3>3, <3>4
    <3> QED
      BY <1>2, <3>5
  <2>2. ASSUME NEW j \in 1..Len(subs') PROVE subs'[j] \notin closed'
    <3>1. j \in 1..(Len(subs) - 1) /\ j \in 1..Len(subs) /\ Len(subs) \in 1..Len(subs)
      BY <1>2, <1>3
    <3>2. subs'[j] \in {subs[k] : k \in 1..Len(subs)} /\ subs'[j] # c
      <4>1. CASE j = i
        BY <1>1, <1>2, <1>3, <3>1, <4>1 DEF SubsInv
      <4>2. CASE j # i
        BY <1>1, <1>2, <1>3, <3>1, <4>2 DEF SubsInv
      <4> QED
        BY <4>1, <4>2
    <3> QED
      BY <3>2 DEF SubsInv
  <2>3. ASSUME NEW p \in Calls, NEW d \in owed'[p] PROVE d \in Registered'
    <3>1. d \in owed[p] /\ d # c
      BY <2>3 DEF BusTypeOK
    <3>2. PICK j \in 1..Len(subs) : subs[j] = d
      BY <3>1 DEF SubsInv, Registered
    <3> QED
      BY <1>1, <1>2, <1>3, <3>1, <3>2 DEF Registered
  <2> QED
    BY <2>1, <2>2, <2>3 DEF SubsInv
<1>7. ASSUME NEW p \in Calls PROVE CallInv(p)'
  BY DEF CallInv, Readers, BusTypeOK
<1> QED
  BY <1>4, <1>5, <1>6, <1>7

\* Receive empties a buffer and settles what every call owed that channel.
LEMMA ReceiveInv ==
  ASSUME BusInv, NEW c \in Channels, Receive(c) PROVE BusInv'
<1> USE DEF BusInv, Receive
<1>1. BusTypeOK'
  BY DEF BusTypeOK
<1>2. OnePublisher'
  BY DEF OnePublisher, Owners
<1>3. SubsInv'
  BY DEF SubsInv, Registered, BusTypeOK
<1>4. ASSUME NEW p \in Calls PROVE CallInv(p)'
  <2>1. /\ owed'[p] = owed[p] \ {c}
        /\ \A d \in Channels : d # c => full'[d] = full[d]
    BY DEF BusTypeOK
  <2>2. owed[p] \subseteq Channels /\ subs \in Seq(Channels)
    BY DEF BusTypeOK
  <2> QED
    BY <2>1, <2>2 DEF CallInv
<1> QED
  BY <1>1, <1>2, <1>3, <1>4

\* A step that changes the record of one call only.
LEMMA OneCall ==
  ASSUME BusInv, NEW p \in Calls, NEW r \in CallState,
         call' = [call EXCEPT ![p] = r]
  PROVE  /\ call' \in [Calls -> CallState]
         /\ call'[p] = r
         /\ \A q \in Calls : q # p => call'[q] = call[q]
BY DEF BusInv, BusTypeOK

\* Such a step keeps the key with its owner when the call is in the pending map
\* before and after, or neither before nor after.
LEMMA SameOwners ==
  ASSUME BusInv, NEW p \in Calls, NEW r \in CallState,
         call' = [call EXCEPT ![p] = r], pending' = pending,
         p \in Owners <=> r.pc \in {"lock", "send", "unmark"}
  PROVE  OnePublisher'
<1>1. Owners' = Owners
  BY OneCall DEF Owners
<1> QED
  BY <1>1 DEF OnePublisher, BusInv

\* A call whose context has ended returns before it touches the bus.
LEMMA EnterCanceledInv ==
  ASSUME BusInv, NEW p \in Calls, EnterCanceled(p) PROVE BusInv'
<1> DEFINE r == [call[p] EXCEPT !.pc = "done", !.res = "canceled"]
<1> USE DEF BusInv, EnterCanceled, Return
<1>1. /\ r \in CallState /\ r.pc = "done" /\ r.res = "canceled"
      /\ call' = [call EXCEPT ![p] = r]
  BY DEF BusTypeOK, CallState, Results
<1> HIDE DEF r
<1>2. /\ call' \in [Calls -> CallState] /\ call'[p] = r
      /\ \A q \in Calls : q # p => call'[q] = call[q]
  BY <1>1, OneCall
<1>3. BusTypeOK'
  BY <1>2 DEF BusTypeOK
<1>4. OnePublisher'
  BY <1>1, SameOwners DEF Owners
<1>5. SubsInv'
  BY DEF SubsInv, Registered
<1>6. ASSUME NEW q \in Calls PROVE CallInv(q)'
  BY <1>1, <1>2 DEF CallInv
<1> QED
  BY <1>3, <1>4, <1>5, <1>6

\* The check of the pending map keeps one call at a time past it.
LEMMA EnterInv ==
  ASSUME BusInv, NEW p \in Calls, NEW need \in Nat, NEW ctx \in BOOLEAN,
         Enter(p, need, ctx)
  PROVE  BusInv'
<1> USE DEF BusInv, Enter
<1>1. /\ Registered \subseteq Channels
      /\ call[p] \in CallState
  BY DEF Registered, BusTypeOK
<1>2. /\ owed' \in [Calls -> SUBSET Channels]
      /\ \A q \in Calls : q # p => owed'[q] = owed[q]
      /\ owed'[p] = Registered
      /\ Registered' = Registered
  BY <1>1 DEF BusTypeOK, Registered
<1>3. SubsInv'
  BY <1>2 DEF SubsInv
<1>4. CASE pending
  <2> DEFINE r == [call[p] EXCEPT !.pc = "done", !.need = need,
                                  !.res = "deduplicated"]
  <2>1. /\ r \in CallState /\ r.pc = "done" /\ r.res = "deduplicated"
        /\ call' = [call EXCEPT ![p] = r] /\ pending' = pending
    BY <1>1, <1>4 DEF BusTypeOK, CallState, Results
  <2> HIDE DEF r
  <2>2. /\ call' \in [Calls -> CallState] /\ call'[p] = r
        /\ \A q \in Calls : q # p => call'[q] = call[q]
    BY <2>1, OneCall
  <2>3. BusTypeOK'
    BY <1>2, <2>1, <2>2 DEF BusTypeOK
  <2>4. OnePublisher'
    BY <2>1, SameOwners DEF Owners
  <2>5. ASSUME NEW q \in Calls PROVE CallInv(q)'
    BY <1>2, <2>1, <2>2 DEF CallInv
  <2> QED
    BY <1>3, <2>3, <2>4, <2>5
<1>5. CASE ~pending
  <2> DEFINE r == [call[p] EXCEPT !.pc = "lock", !.need = need, !.ctx = ctx]
  <2>1. /\ r \in CallState /\ r.pc = "lock" /\ r.res = call[p].res
        /\ r.next = call[p].next /\ r.sent = call[p].sent
        /\ call' = [call EXCEPT ![p] = r] /\ pending' = TRUE
    BY <1>1, <1>5 DEF BusTypeOK, CallState, Results
  <2> HIDE DEF r
  <2>2. /\ call' \in [Calls -> CallState] /\ call'[p] = r
        /\ \A q \in Calls : q # p => call'[q] = call[q]
    BY <2>1, OneCall
  <2>3. BusTypeOK'
    BY <1>2, <2>1, <2>2 DEF BusTypeOK
  <2>4. Owners = {}
    BY <1>5 DEF OnePublisher
  <2>5. Owners' = {p}
    BY <2>1, <2>2, <2>4 DEF Owners
  <2>6. OnePublisher'
    BY <2>1, <2>5 DEF OnePublisher
  <2>7. ASSUME NEW q \in Calls PROVE CallInv(q)'
    <3>1. CASE q = p
      <4>1. CallInv(p)
        OBVIOUS
      <4> QED
        BY <2>1, <2>2, <3>1, <4>1 DEF CallInv
    <3>2. CASE q # p
      <4>1. CallInv(q)
        OBVIOUS
      <4> QED
        BY <1>2, <2>2, <3>2, <4>1 DEF CallInv
    <3> QED
      BY <3>1, <3>2
  <2> QED
    BY <1>3, <2>3, <2>6, <2>7
<1> QED
  BY <1>4, <1>5

\* The steps of the owner leave what the other calls have done.
LEMMA OtherCalls ==
  ASSUME BusInv, NEW p \in Calls, p \in Owners, NEW q \in Calls, q # p,
         call'[q] = call[q], got'[q] = got[q], UNCHANGED <<subs, owed>>,
         \A c \in Channels : full[c] => full'[c]
  PROVE  CallInv(q)'
<1>1. call[q].pc # "send"
  BY DEF BusInv, OnePublisher, Owners
<1>2. owed[q] \subseteq Channels
  BY DEF BusInv, BusTypeOK
<1>3. CallInv(q)
  BY DEF BusInv
<1> QED
  BY <1>1, <1>2, <1>3 DEF CallInv

\* The read of the slice: the loop starts on the registered channels.
LEMMA LockInv ==
  ASSUME BusInv, NEW p \in Calls, Lock(p) PROVE BusInv'
<1> USE DEF BusInv, Lock
<1>1. /\ call[p] \in CallState /\ subs \in Seq(Channels) /\ Len(subs) \in Nat
      /\ p \in Owners /\ CallInv(p)
  BY DEF BusTypeOK, Owners
<1>2. /\ call[p].next = 1 /\ call[p].sent = 0 /\ got[p] = {}
      /\ call[p].res = "none" /\ call[p].need \in Nat
  BY <1>1 DEF CallInv, CallState
<1>3. IsFiniteSet({}) /\ Cardinality({}) = 0
  BY FS_EmptySet
<1> DEFINE r == IF Len(subs) < call[p].need
                  THEN [call[p] EXCEPT !.pc = "unmark", !.res = "ErrQuorumNotSatisfied"]
                ELSE IF subs = <<>>
                  THEN [call[p] EXCEPT !.pc = "unmark", !.res = "nil"]
                ELSE [call[p] EXCEPT !.pc = "send", !.chans = subs]
<1>4. r \in CallState
  BY <1>1 DEF CallState, Results
<1>5. r.pc \in {"unmark", "send"} /\ r.need = call[p].need /\ r.next = 1 /\ r.sent = 0
  BY <1>1, <1>2 DEF CallState
<1>6. r.pc = "send" => r.chans = subs /\ subs # <<>> /\ r.res = "none"
  BY <1>1, <1>2 DEF CallState
<1>7. r.pc = "unmark" =>
        /\ r.res \in {"nil", "ErrQuorumNotSatisfied"}
        /\ r.res = "nil" => subs = <<>> /\ ~(0 < call[p].need)
  BY <1>1, <1>2 DEF CallState
<1>8. call' = [call EXCEPT ![p] = r]
  BY DEF BusTypeOK
<1> HIDE DEF r
<1>9. /\ call' \in [Calls -> CallState] /\ call'[p] = r
      /\ \A q \in Calls : q # p => call'[q] = call[q]
  BY <1>4, <1>8, OneCall
<1>10. BusTypeOK'
  BY <1>9 DEF BusTypeOK
<1>11. OnePublisher'
  BY <1>1, <1>4, <1>5, <1>8, SameOwners
<1>12. SubsInv'
  BY DEF SubsInv, Registered
<1>13. CallInv(p)'
  <2>1. CASE r.pc = "send"
    <3>1. Len(subs) >= 1
      BY <1>1, <1>6, <2>1
    <3>2. r.next \in 1..Len(subs) /\ 1..(r.next - 1) = {}
      BY <1>1, <1>5, <3>1
    <3>3. IsFiniteSet(got[p]) /\ Cardinality(got[p]) = r.sent
      BY <1>2, <1>3, <1>5
    <3> QED
      BY <1>2, <1>5, <1>6, <1>9, <2>1, <3>2, <3>3 DEF CallInv
  <2>2. CASE r.pc = "unmark"
    <3>1. r.res = "nil" => owed[p] = {}
      BY <1>7, <2>2 DEF SubsInv, Registered
    <3>2. IsFiniteSet(got[p]) /\ Cardinality(got[p]) = 0
      BY <1>2, <1>3
    <3>3. r.res = "nil" => Cardinality(got[p]) >= r.need
      BY <1>2, <1>5, <1>7, <2>2, <3>2
    <3>4. r.res # "none"
      BY <1>7, <2>2
    <3> QED
      BY <1>9, <2>2, <3>1, <3>2, <3>3, <3>4 DEF CallInv
  <2> QED
    BY <1>5, <2>1, <2>2
<1>14. ASSUME NEW q \in Calls PROVE CallInv(q)'
  BY <1>1, <1>9, <1>13, OtherCalls
<1> QED
  BY <1>10, <1>11, <1>12, <1>14

\* One turn of the loop: the channel it reaches has an event afterwards, and
\* counts as a delivery exactly when the buffer was empty.
LEMMA SendInv ==
  ASSUME BusInv, NEW p \in Calls, Send(p) PROVE BusInv'
<1> DEFINE n == call[p].next
           c == subs[n]
           sent == call[p].sent + (IF full[c] THEN 0 ELSE 1)
           r == IF n = Len(subs)
                  THEN [call[p] EXCEPT !.sent = sent, !.pc = "unmark",
                                       !.res = LoopResult(sent, call[p].need)]
                  ELSE [call[p] EXCEPT !.sent = sent, !.next = n + 1]
<1> USE DEF BusInv
<1>1. /\ call[p] \in CallState /\ subs \in Seq(Channels) /\ Len(subs) \in Nat
      /\ p \in Owners /\ CallInv(p) /\ call[p].pc = "send"
  BY DEF BusTypeOK, Owners, Send
<1>2. /\ call[p].chans = subs /\ n \in 1..Len(subs) /\ c \in Channels
      /\ call[p].res = "none"
      /\ \A j \in 1..(n - 1) : subs[j] \in owed[p] => full[subs[j]]
      /\ \A d \in got[p] : \E j \in 1..(n - 1) : d = subs[j]
      /\ IsFiniteSet(got[p]) /\ Cardinality(got[p]) = call[p].sent
      /\ call[p].need \in Nat /\ call[p].sent \in Nat
  BY <1>1 DEF CallInv, CallState
<1>3. /\ full' = [full EXCEPT ![c] = TRUE]
      /\ got' = IF full[c] THEN got ELSE [got EXCEPT ![p] = got[p] \cup {c}]
      /\ call' = [call EXCEPT ![p] = r]
      /\ UNCHANGED <<subs, closed, pending, owed>>
  <2>1. call[p].chans[call[p].next] = c /\ Len(call[p].chans) = Len(subs)
    BY <1>2
  <2>2. full' = [full EXCEPT ![c] = TRUE] /\ UNCHANGED <<subs, closed, pending, owed>>
    BY <2>1 DEF Send
  <2>3. got' = IF full[c] THEN got ELSE [got EXCEPT ![p] = got[p] \cup {c}]
    BY <2>1 DEF Send
  <2>4. call' = [call EXCEPT ![p] = r]
    BY <2>1 DEF Send
  <2> QED
    BY <2>2, <2>3, <2>4
<1>4. /\ full' \in [Channels -> BOOLEAN] /\ full'[c]
      /\ \A d \in Channels : full[d] => full'[d]
  BY <1>2, <1>3 DEF BusTypeOK
<1>5. /\ got' \in [Calls -> SUBSET Channels]
      /\ got'[p] = IF full[c] THEN got[p] ELSE got[p] \cup {c}
      /\ \A q \in Calls : q # p => got'[q] = got[q]
  BY <1>2, <1>3 DEF BusTypeOK
<1>6. c \notin got[p]
  <2> SUFFICES ASSUME c \in got[p] PROVE FALSE
    OBVIOUS
  <2>1. PICK j \in 1..(n - 1) : c = subs[j]
    BY <1>2
  <2> QED
    BY <1>1, <1>2, <2>1 DEF SubsInv
<1>7. /\ IsFiniteSet(got'[p]) /\ Cardinality(got'[p]) = sent
      /\ \A d \in got'[p] : \E j \in 1..n : d = subs[j]
  <2>1. CASE full[c]
    BY <1>2, <1>5, <2>1
  <2>2. CASE ~full[c]
    <3>1. /\ IsFiniteSet(got[p] \cup {c})
          /\ Cardinality(got[p] \cup {c}) = Cardinality(got[p]) + 1
      BY <1>2, <1>6, FS_AddElement
    <3> QED
      BY <1>2, <1>5, <2>2, <3>1
  <2> QED
    BY <2>1, <2>2
<1>8. \A j \in 1..n : subs[j] \in owed[p] => full'[subs[j]]
  <2> SUFFICES ASSUME NEW j \in 1..n, subs[j] \in owed[p] PROVE full'[subs[j]]
    OBVIOUS
  <2>1. CASE j = n
    BY <1>4, <2>1
  <2>2. CASE j # n
    BY <1>1, <1>2, <1>4, <2>2
  <2> QED
    BY <2>1, <2>2
<1>9. sent \in Nat /\ LoopResult(sent, call[p].need) \in {"nil", "ErrQuorumNotSatisfied"}
  <2>1. sent \in Nat
    BY <1>2
  <2>2. LoopResult(sent, call[p].need) \in {"nil", "ErrQuorumNotSatisfied"}
    BY DEF LoopResult
  <2> QED
    BY <2>1, <2>2
<1>10. r \in CallState
  <2>1. n + 1 \in Nat \ {0}
    BY <1>2
  <2> HIDE DEF sent
  <2>2. CASE n = Len(subs)
    BY <1>1, <1>9, <2>2 DEF CallState, Results
  <2>3. CASE n # Len(subs)
    BY <1>1, <1>9, <2>1, <2>3 DEF CallState, Results
  <2> QED
    BY <2>2, <2>3
<1>11. CASE n = Len(subs)
  <2>1. /\ r.pc = "unmark" /\ r.res = LoopResult(sent, call[p].need)
        /\ r.need = call[p].need
    BY <1>1, <1>11 DEF CallState
  <2>2. \A d \in owed[p] : full'[d]
    BY <1>1, <1>8, <1>11 DEF SubsInv, Registered
  <2> HIDE DEF r, sent
  <2>3. /\ call' \in [Calls -> CallState] /\ call'[p] = r
        /\ \A q \in Calls : q # p => call'[q] = call[q]
    BY <1>3, <1>10, OneCall
  <2>4. OnePublisher'
    BY <1>1, <1>3, <1>10, <2>1, SameOwners
  <2>5. CallInv(p)'
    BY <1>2, <1>3, <1>7, <1>9, <2>1, <2>2, <2>3 DEF CallInv, LoopResult
  <2>6. ASSUME NEW q \in Calls PROVE CallInv(q)'
    BY <1>1, <1>3, <1>4, <1>5, <2>3, <2>5, OtherCalls
  <2>7. BusTypeOK'
    BY <1>3, <1>4, <1>5, <2>3 DEF BusTypeOK
  <2>8. SubsInv'
    BY <1>3 DEF SubsInv, Registered
  <2> QED
    BY <2>4, <2>6, <2>7, <2>8
<1>12. CASE n # Len(subs)
  <2>1. /\ r.pc = "send" /\ r.res = "none" /\ r.next = n + 1 /\ r.sent = sent
        /\ r.chans = subs
    BY <1>1, <1>2, <1>12 DEF CallState
  <2>2. n + 1 \in 1..Len(subs) /\ (n + 1) - 1 = n
    BY <1>1, <1>2, <1>12
  <2> HIDE DEF r, sent
  <2>3. /\ call' \in [Calls -> CallState] /\ call'[p] = r
        /\ \A q \in Calls : q # p => call'[q] = call[q]
    BY <1>3, <1>10, OneCall
  <2>4. OnePublisher'
    BY <1>1, <1>3, <1>10, <2>1, SameOwners
  <2>5. CallInv(p)'
    BY <1>3, <1>7, <1>8, <2>1, <2>2, <2>3 DEF CallInv
  <2>6. ASSUME NEW q \in Calls PROVE CallInv(q)'
    BY <1>1, <1>3, <1>4, <1>5, <2>3, <2>5, OtherCalls
  <2>7. BusTypeOK'
    BY <1>3, <1>4, <1>5, <2>3 DEF BusTypeOK
  <2>8. SubsInv'
    BY <1>3 DEF SubsInv, Registered
  <2> QED
    BY <2>4, <2>6, <2>7, <2>8
<1> QED
  BY <1>11, <1>12

\* A context that ends inside the loop stops it with an error.
LEMMA SendCanceledInv ==
  ASSUME BusInv, NEW p \in Calls, SendCanceled(p) PROVE BusInv'
<1> DEFINE r == [call[p] EXCEPT !.pc = "unmark", !.res = "canceled"]
<1> USE DEF BusInv, SendCanceled
<1>1. /\ r \in CallState /\ r.pc = "unmark" /\ r.res = "canceled"
      /\ call' = [call EXCEPT ![p] = r] /\ p \in Owners
  BY DEF BusTypeOK, CallState, Results, Owners
<1> HIDE DEF r
<1>2. /\ call' \in [Calls -> CallState] /\ call'[p] = r
      /\ \A q \in Calls : q # p => call'[q] = call[q]
  BY <1>1, OneCall
<1>3. BusTypeOK'
  BY <1>2 DEF BusTypeOK
<1>4. OnePublisher'
  BY <1>1, SameOwners
<1>5. SubsInv'
  BY DEF SubsInv, Registered
<1>6. CallInv(p)'
  BY <1>1, <1>2 DEF CallInv
<1>7. ASSUME NEW q \in Calls PROVE CallInv(q)'
  BY <1>1, <1>2, <1>6, OtherCalls
<1> QED
  BY <1>3, <1>4, <1>5, <1>7

\* The deferred delete: the owner unmarks the key and nobody owns it.
LEMMA UnmarkInv ==
  ASSUME BusInv, NEW p \in Calls, Unmark(p) PROVE BusInv'
<1> DEFINE r == [call[p] EXCEPT !.pc = "done"]
<1> USE DEF BusInv, Unmark
<1>1. /\ r \in CallState /\ r.pc = "done" /\ r.res = call[p].res
      /\ r.need = call[p].need
      /\ call' = [call EXCEPT ![p] = r] /\ p \in Owners
  BY DEF BusTypeOK, CallState, Results, Owners
<1> HIDE DEF r
<1>2. /\ call' \in [Calls -> CallState] /\ call'[p] = r
      /\ \A q \in Calls : q # p => call'[q] = call[q]
  BY <1>1, OneCall
<1>3. BusTypeOK'
  BY <1>2 DEF BusTypeOK
<1>4. Owners' = {}
  BY <1>1, <1>2 DEF OnePublisher, Owners
<1>5. OnePublisher'
  BY <1>4 DEF OnePublisher
<1>6. SubsInv'
  BY DEF SubsInv, Registered
<1>7. CallInv(p)'
  <2>1. CallInv(p)
    OBVIOUS
  <2> QED
    BY <1>1, <1>2, <2>1 DEF CallInv
<1>8. ASSUME NEW q \in Calls PROVE CallInv(q)'
  BY <1>1, <1>2, <1>7, OtherCalls
<1> QED
  BY <1>3, <1>5, <1>6, <1>8

\* A step that changes nothing of the bus keeps its invariant.
LEMMA StutterInv == ASSUME BusInv, UNCHANGED busVars PROVE BusInv'
BY DEF BusInv, BusTypeOK, OnePublisher, Owners, SubsInv, Registered, CallInv, busVars

\* Every step of the bus keeps the inductive invariant.
LEMMA NextInv == BusInv /\ [BusNext]_busVars => BusInv'
<1> SUFFICES ASSUME BusInv, [BusNext]_busVars PROVE BusInv'
  OBVIOUS
<1>1. ASSUME NEW c \in Channels, Subscribe(c) PROVE BusInv'
  BY <1>1, SubscribeInv
<1>2. ASSUME NEW c \in Channels, Unsubscribe(c) PROVE BusInv'
  BY <1>2, UnsubscribeInv
<1>3. ASSUME NEW c \in Channels, Receive(c) PROVE BusInv'
  BY <1>3, ReceiveInv
<1>4. ASSUME NEW p \in Calls, EnterCanceled(p) PROVE BusInv'
  BY <1>4, EnterCanceledInv
<1>5. ASSUME NEW p \in Calls, NEW ctx \in BOOLEAN, Publish(p, ctx) PROVE BusInv'
  BY <1>5, EnterInv DEF Publish
<1>6. ASSUME NEW p \in Calls, NEW ctx \in BOOLEAN, NEW k \in Replicas,
             PublishAndAwait(p, k, ctx)
      PROVE  BusInv'
  <2> DEFINE need == IF k <= 0 THEN 1 ELSE k
  <2>1. need \in Nat
    BY ReplicasAssumption
  <2>2. Enter(p, need, ctx)
    BY <1>6 DEF PublishAndAwait
  <2> HIDE DEF need
  <2> QED
    BY <2>1, <2>2, EnterInv
<1>7. ASSUME NEW p \in Calls, CallStep(p) PROVE BusInv'
  BY <1>7, LockInv, SendInv, SendCanceledInv, UnmarkInv DEF CallStep
<1>8. CASE UNCHANGED busVars
  BY <1>8, StutterInv
<1> QED
  BY <1>1, <1>2, <1>3, <1>4, <1>5, <1>6, <1>7, <1>8 DEF BusNext

-----------------------------------------------------------------------------
\* The strengthened invariant holds in every reachable state of the bus.
THEOREM BusInvariant == BusSpec => []BusInv
<1>1. BusInit => BusInv
  BY InitInv
<1>2. BusInv /\ [BusNext]_busVars => BusInv'
  BY NextInv
<1> QED
  BY <1>1, <1>2, PTL DEF BusSpec

\* Type correctness of the bus.
THEOREM BusTypeCorrect == BusSpec => []BusTypeOK
<1>1. BusInv => BusTypeOK
  BY DEF BusInv
<1> QED
  BY <1>1, BusInvariant, PTL

\* Compute and the deferred Delete of the pending map form a mutual exclusion:
\* of any number of overlapping calls at most one works on the key, and the key
\* is marked exactly while one does.
THEOREM OnePublisherAlways == BusSpec => []OnePublisher
<1>1. BusInv => OnePublisher
  BY DEF BusInv
<1> QED
  BY <1>1, BusInvariant, PTL

\* No loop ever sends on a channel that Unsubscribe has closed.
THEOREM NeverSendsOnClosed == BusSpec => []NoSendOnClosed
<1>1. BusInv => NoSendOnClosed
  BY DEF BusInv, NoSendOnClosed, Readers, CallInv, SubsInv, Registered
<1> QED
  BY <1>1, BusInvariant, PTL

\* A call that ran its loop and returned nil leaves no registered subscriber
\* without an event, buffered or received since.
THEOREM AlwaysDelivered == BusSpec => []DeliveredOrBuffered
<1>1. BusInv => DeliveredOrBuffered
  BY DEF BusInv, DeliveredOrBuffered, CallInv
<1> QED
  BY <1>1, BusInvariant, PTL

\* The count that PublishAndAwait compares with replicas is a number of
\* different channels that took the event.
THEOREM AwaitIsExact == BusSpec => []AwaitCountsChannels
<1>1. BusInv => AwaitCountsChannels
  BY DEF BusInv, AwaitCountsChannels, CallInv
<1> QED
  BY <1>1, BusInvariant, PTL
=============================================================================
