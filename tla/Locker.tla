------------------------------- MODULE Locker -------------------------------
(***************************************************************************)
(* What a Locker of lock/lock.go promises for one key, whatever the        *)
(* backend: a call of TryLock or Acquire that obtains the lock keeps it    *)
(* until its tenure ends, which happens because Release is called on the   *)
(* instance that holds it or because its ttl is over.                      *)
(***************************************************************************)
CONSTANTS Calls,   \* calls of TryLock and Acquire
          None     \* nobody

VARIABLES holder,   \* the call that has the lock, or None
          granted,  \* the calls that obtained it so far
          ended     \* the calls whose tenure was asked to end

lockerVars == <<holder, granted, ended>>

LockerInit == holder = None /\ granted = {} /\ ended = {}

Grant(p) ==
  /\ holder = None /\ p \notin granted
  /\ holder' = p
  /\ granted' = granted \cup {p}
  /\ UNCHANGED ended

\* Release is called, or the ttl is over.  The lock may be free at once.
End(p) ==
  /\ p \in granted
  /\ ended' = ended \cup {p}
  /\ holder' \in {holder} \cup {n \in {None} : holder = p}
  /\ UNCHANGED granted

Free(p) ==
  /\ holder = p /\ p \in ended
  /\ holder' = None
  /\ UNCHANGED <<granted, ended>>

LockerNext == \E p \in Calls : Grant(p) \/ End(p) \/ Free(p)

LockerSpec == LockerInit /\ [][LockerNext]_lockerVars

\* Mutual exclusion: a call that obtained the lock and whose tenure has not
\* ended is the one that holds it, so there are no two of them.
HolderKeepsLock == granted \ ended \subseteq {holder}
=============================================================================
