---------------------------- MODULE Deduplication ----------------------------
(***************************************************************************)
(* De-duplication of one uplink frame (internal/uplink/collect.go).        *)
(*                                                                         *)
(* Several gateways receive the same PHYPayload, and the broker may hand   *)
(* one copy to several network-server instances, so that one goroutine per *)
(* reception runs collectAndCallOnce for the same Redis keys: a set that   *)
(* collects the copies and a lock that elects the goroutine that calls the *)
(* handler.  Both keys expire.  The module models one (TxInfo, PHYPayload) *)
(* key; other keys are disjoint copies of it.                              *)
(*                                                                         *)
(* Time is discrete.  MaxLag bounds the time between the moment a step of  *)
(* a goroutine is due and the moment Redis executes it: the code relies on *)
(* such a bound (the expiration is twice the delay), it does not enforce   *)
(* one.                                                                    *)
(***************************************************************************)
EXTENDS Naturals

CONSTANTS
    Rx,         \* receptions: one goroutine of HandleUplinkFrames each
    Frames,     \* marshalled gw.UplinkFrame values (rx-info included)
    frameOf,    \* [Rx -> Frames]; a copy delivered twice is the same value
    Delay,      \* deduplicationDelay
    MinTTL,     \* the 200ms floor of the expiration
    MaxLag,     \* bound on the latency of one step
    MaxArrival  \* bound: no reception arrives later than this time

VARIABLES
    now,        \* the clock shared by Redis and the goroutines
    pc,         \* where each goroutine is in collectAndCallOnce
    due,        \* time by which the goroutine's next step has happened
    wake,       \* end of the goroutine's time.Sleep
    collectSet, \* members of the Redis set CollectKeyTempl
    setExp,     \* expiration of that set
    lockExp,    \* expiration of the Redis key CollectLockKeyTempl
    read,       \* result of SMEMBERS, local to the goroutine
    putAt,      \* history: time of the goroutine's SADD
    lockAt      \* history: time at which the goroutine took the lock

vars == <<now, pc, due, wake, collectSet, setExp, lockExp, read, putAt, lockAt>>

\* deduplicationTTL: twice the delay, and never below the floor
TTL == IF 2 * Delay < MinTTL THEN MinTTL ELSE 2 * Delay

ASSUME ConstantTypes ==
    /\ Delay \in Nat \ {0}
    /\ MinTTL \in Nat
    /\ MaxLag \in Nat
    /\ MaxArrival \in Nat
    /\ frameOf \in [Rx -> Frames]

\* What the choice TTL = 2 * Delay has to buy: three steps of latency.
ASSUME LatencyAssumption == Delay + 3 * MaxLag < TTL

Steps == {"idle", "put", "sleep", "read", "called", "locked", "zero", "failed"}

\* The goroutine owns a step that has yet to happen.
Active == {"put", "sleep", "read"}

\* The goroutine has won the lock and has not finished collecting.
Collecting == {"sleep", "read"}

Deadline == MaxArrival + Delay + 3 * MaxLag

TypeOK ==
    /\ now \in Nat
    /\ pc \in [Rx -> Steps]
    /\ due \in [Rx -> Nat]
    /\ wake \in [Rx -> Nat]
    /\ collectSet \in SUBSET Frames
    /\ setExp \in Nat
    /\ lockExp \in Nat
    /\ read \in [Rx -> SUBSET Frames]
    /\ putAt \in [Rx -> Nat]
    /\ lockAt \in [Rx -> Nat]

Init ==
    /\ now = 0
    /\ pc = [r \in Rx |-> "idle"]
    /\ due = [r \in Rx |-> 0]
    /\ wake = [r \in Rx |-> 0]
    /\ collectSet = {}
    /\ setExp = 0
    /\ lockExp = 0
    /\ read = [r \in Rx |-> {}]
    /\ putAt = [r \in Rx |-> 0]
    /\ lockAt = [r \in Rx |-> 0]

-----------------------------------------------------------------------------
\* A Redis key with an expiration is visible strictly before it.
Members == IF now < setExp THEN collectSet ELSE {}

LockHeld == now < lockExp

\* Mutant: the reception itself is stored, not the marshalled frame.
PutStoresReception(r) ==
    /\ pc[r] = "idle"
    /\ now <= MaxArrival
    /\ collectSet' = Members \cup {r}
    /\ setExp' = now + TTL
    /\ putAt' = [putAt EXCEPT ![r] = now]
    /\ due' = [due EXCEPT ![r] = now + MaxLag]
    /\ pc' = [pc EXCEPT ![r] = "put"]
    /\ UNCHANGED <<now, wake, lockExp, read, lockAt>>

\* Mutant: the set lives only as long as the collector sleeps.
PutExpiresWithDelay(r) ==
    /\ pc[r] = "idle"
    /\ now <= MaxArrival
    /\ collectSet' = Members \cup {frameOf[r]}
    /\ setExp' = now + Delay
    /\ putAt' = [putAt EXCEPT ![r] = now]
    /\ due' = [due EXCEPT ![r] = now + MaxLag]
    /\ pc' = [pc EXCEPT ![r] = "put"]
    /\ UNCHANGED <<now, wake, lockExp, read, lockAt>>

\* collectAndCallOncePut: SADD and PEXPIRE in one MULTI/EXEC
collectAndCallOncePut(r) ==
    /\ pc[r] = "idle"
    /\ now <= MaxArrival
    /\ collectSet' = Members \cup {frameOf[r]}
    /\ setExp' = now + TTL
    /\ putAt' = [putAt EXCEPT ![r] = now]
    /\ due' = [due EXCEPT ![r] = now + MaxLag]
    /\ pc' = [pc EXCEPT ![r] = "put"]
    /\ UNCHANGED <<now, wake, lockExp, read, lockAt>>

\* Mutant: the lock lives only as long as the collector sleeps.
LockExpiresWithDelay(r) ==
    /\ pc[r] = "put"
    /\ ~LockHeld
    /\ lockExp' = now + Delay
    /\ lockAt' = [lockAt EXCEPT ![r] = now]
    /\ wake' = [wake EXCEPT ![r] = now + Delay]
    /\ due' = [due EXCEPT ![r] = now + Delay + MaxLag]
    /\ pc' = [pc EXCEPT ![r] = "sleep"]
    /\ UNCHANGED <<now, collectSet, setExp, read, putAt>>

\* Mutant: the result of SETNX is returned without the negation.
LockResultInverted(r) ==
    /\ pc[r] = "put"
    /\ LockHeld
    /\ lockExp' = now + TTL
    /\ lockAt' = [lockAt EXCEPT ![r] = now]
    /\ wake' = [wake EXCEPT ![r] = now + Delay]
    /\ due' = [due EXCEPT ![r] = now + Delay + MaxLag]
    /\ pc' = [pc EXCEPT ![r] = "sleep"]
    /\ UNCHANGED <<now, collectSet, setExp, read, putAt>>

\* collectAndCallOnceLocked, SETNX succeeds: go to sleep for Delay
AcquireLock(r) ==
    /\ pc[r] = "put"
    /\ ~LockHeld
    /\ lockExp' = now + TTL
    /\ lockAt' = [lockAt EXCEPT ![r] = now]
    /\ wake' = [wake EXCEPT ![r] = now + Delay]
    /\ due' = [due EXCEPT ![r] = now + Delay + MaxLag]
    /\ pc' = [pc EXCEPT ![r] = "sleep"]
    /\ UNCHANGED <<now, collectSet, setExp, read, putAt>>

\* collectAndCallOnceLocked, SETNX fails: another goroutine collects
AlreadyLocked(r) ==
    /\ pc[r] = "put"
    /\ LockHeld
    /\ pc' = [pc EXCEPT ![r] = "locked"]
    /\ UNCHANGED <<now, due, wake, collectSet, setExp, lockExp, read, putAt, lockAt>>

\* Mutant: the collector does not sleep.
CollectWithoutSleep(r) ==
    /\ pc[r] = "sleep"
    /\ read' = [read EXCEPT ![r] = Members]
    /\ due' = [due EXCEPT ![r] = now + MaxLag]
    /\ pc' = [pc EXCEPT ![r] = "read"]
    /\ UNCHANGED <<now, wake, collectSet, setExp, lockExp, putAt, lockAt>>

\* collectAndCallOnceCollect, first command of a pipeline without MULTI
CollectRead(r) ==
    /\ pc[r] = "sleep"
    /\ wake[r] <= now
    /\ read' = [read EXCEPT ![r] = Members]
    /\ due' = [due EXCEPT ![r] = now + MaxLag]
    /\ pc' = [pc EXCEPT ![r] = "read"]
    /\ UNCHANGED <<now, wake, collectSet, setExp, lockExp, putAt, lockAt>>

\* Mutant: the collector deletes the lock together with the set.
DeleteReleasesLock(r) ==
    /\ pc[r] = "read"
    /\ collectSet' = {}
    /\ setExp' = 0
    /\ lockExp' = 0
    /\ pc' = [pc EXCEPT ![r] = IF read[r] = {} THEN "zero" ELSE "called"]
    /\ UNCHANGED <<now, due, wake, read, putAt, lockAt>>

\* collectAndCallOnceCollect, second command; then the callback, or the
\* "zero items in collect set" error
CollectDelete(r) ==
    /\ pc[r] = "read"
    /\ collectSet' = {}
    /\ setExp' = 0
    /\ pc' = [pc EXCEPT ![r] = IF read[r] = {} THEN "zero" ELSE "called"]
    /\ UNCHANGED <<now, due, wake, lockExp, read, putAt, lockAt>>

\* A Redis command returns an error (or the instance dies): the goroutine ends
RedisError(r) ==
    /\ pc[r] \in Active
    /\ pc' = [pc EXCEPT ![r] = "failed"]
    /\ UNCHANGED <<now, due, wake, collectSet, setExp, lockExp, read, putAt, lockAt>>

\* Time passes unless the step of a goroutine is overdue.
Tick ==
    /\ now < Deadline
    /\ \A r \in Rx : pc[r] \in Active => now < due[r]
    /\ now' = now + 1
    /\ UNCHANGED <<pc, due, wake, collectSet, setExp, lockExp, read, putAt, lockAt>>

collectAndCallOnce(r) ==
    \/ AcquireLock(r)
    \/ AlreadyLocked(r)
    \/ CollectRead(r)
    \/ CollectDelete(r)

Next ==
    \/ Tick
    \/ \E r \in Rx :
        \/ collectAndCallOncePut(r)
        \/ collectAndCallOnce(r)
        \/ RedisError(r)

Spec == Init /\ [][Next]_vars

\* A started goroutine keeps running and time keeps passing; receptions and
\* errors are under no obligation.
FairSpec == Spec /\ WF_vars(Tick) /\ \A r \in Rx : WF_vars(collectAndCallOnce(r))

-----------------------------------------------------------------------------
(* Properties *)

\* Two goroutines never collect the same frame at the same time, although the
\* lock is never released and only its expiration ends it (collect.go:134).
OneCollector ==
    \A r, q \in Rx : pc[r] \in Collecting /\ pc[q] \in Collecting => r = q

\* Two calls of the handler for one frame are at least an expiration apart:
\* every copy that arrives within TTL of the first lock is de-duplicated.
CallsAreApart ==
    \A r, q \in Rx :
        r # q /\ pc[r] = "called" /\ pc[q] = "called"
            => lockAt[r] + TTL <= lockAt[q] \/ lockAt[q] + TTL <= lockAt[r]

\* The goroutine that calls the handler hands over its own copy, so that
\* "zero items in collect set" (collect.go:72) never drops a frame: neither the
\* expiration of the set nor the DEL of an earlier collector takes it away.
OwnFrameCollected ==
    \A r \in Rx :
        /\ pc[r] # "zero"
        /\ pc[r] \in {"read", "called"} => frameOf[r] \in read[r]

\* Every copy that arrives while the collector sleeps reaches the handler
\* (collect.go:62, "more packets might be received from other gateways").
WindowComplete ==
    \A r, q \in Rx :
        ( /\ pc[r] \in {"read", "called"}
          /\ pc[q] # "idle"
          /\ lockAt[r] <= putAt[q]
          /\ putAt[q] < lockAt[r] + Delay )
        => frameOf[q] \in read[r]

\* A copy that reached Redis is eventually followed by a call of the handler
\* for this frame, unless a Redis command failed.
EventuallyHandled ==
    \A r \in Rx :
        pc[r] = "put" ~> \E q \in Rx : pc[q] \in {"called", "failed"}
=============================================================================
