------------------------- MODULE DeduplicationProofs -------------------------
(***************************************************************************)
(* Proofs about Deduplication, for every set of receptions, every delay    *)
(* and every latency that satisfies LatencyAssumption.                     *)
(*                                                                         *)
(* None of the four safety properties is inductive.  What makes them hold  *)
(* is the timing: a collector is done well before its lock expires         *)
(* (Timing), so that there is never a second one (LockOwner), and a frame  *)
(* stays in the set unless a collector deletes it, in which case the lock  *)
(* outlives the next step of whoever stored it (FrameKept).                *)
(***************************************************************************)
EXTENDS Deduplication, TLAPS

\* Steps of goroutines that have stored their copy and taken the lock
Owners == {"sleep", "read", "called", "zero"}

\* When the next step of each goroutine happens at the latest
Timing ==
    \A r \in Rx :
        /\ pc[r] \in Active => now <= due[r]
        /\ pc[r] # "idle" => putAt[r] <= now
        /\ pc[r] \in Owners => lockAt[r] <= now
        /\ pc[r] = "put" => due[r] = putAt[r] + MaxLag
        /\ pc[r] = "sleep" => /\ wake[r] = lockAt[r] + Delay
                              /\ due[r] = lockAt[r] + Delay + MaxLag
        /\ pc[r] = "read" => due[r] <= lockAt[r] + Delay + 2 * MaxLag
        /\ pc[r] \in {"read", "called"} => lockAt[r] + Delay <= now

\* The lock belongs to the goroutine that collects; it never gets shorter
LockOwner ==
    \A r \in Rx :
        /\ pc[r] \in Collecting => lockExp = lockAt[r] + TTL
        /\ pc[r] \in Owners => lockAt[r] + TTL <= lockExp

\* Two locks are at least an expiration apart
LocksApart ==
    \A r, q \in Rx : r # q /\ pc[r] \in Owners /\ pc[q] \in Owners
        => lockAt[r] + TTL <= lockAt[q] \/ lockAt[q] + TTL <= lockAt[r]

\* The set still holds the copy r has stored
Kept(r) == frameOf[r] \in collectSet /\ putAt[r] + TTL <= setExp

\* A stored copy is in the set, unless it is old or a collector took it away, and
\* then the lock is held longer than r needs for its next step
FrameKept ==
    \A r \in Rx :
        pc[r] # "idle" => \/ Kept(r)
                          \/ putAt[r] + MaxLag < lockExp
                          \/ putAt[r] + TTL <= now

\* While a goroutine sleeps, the set holds its copy and those of its window
SleepKeeps ==
    \A r \in Rx : pc[r] = "sleep" =>
        /\ frameOf[r] \in collectSet
        /\ lockAt[r] + Delay + MaxLag < setExp
        /\ \A q \in Rx : pc[q] # "idle" /\ lockAt[r] <= putAt[q]
                            => frameOf[q] \in collectSet

IInv ==
    /\ TypeOK
    /\ Timing
    /\ LockOwner
    /\ LocksApart
    /\ FrameKept
    /\ SleepKeeps
    /\ OneCollector
    /\ OwnFrameCollected
    /\ WindowComplete

\* The expiration is a natural number, longer than the delay and three latencies.
LEMMA TTLFacts == /\ TTL \in Nat
                  /\ Delay \in Nat /\ MaxLag \in Nat /\ MaxArrival \in Nat
                  /\ Delay + 3 * MaxLag < TTL
  BY ConstantTypes, LatencyAssumption DEF TTL

\* No action takes a variable out of its type.
LEMMA TypeStep == TypeOK /\ [Next]_vars => TypeOK'
<1> SUFFICES ASSUME TypeOK, [Next]_vars PROVE TypeOK'
  OBVIOUS
<1> USE TTLFacts, ConstantTypes DEF TypeOK, Steps, Members
<1>1. CASE Tick
  BY <1>1 DEF Tick
<1>2. ASSUME NEW r \in Rx, collectAndCallOncePut(r) PROVE TypeOK'
  BY <1>2 DEF collectAndCallOncePut
<1>3. ASSUME NEW r \in Rx, AcquireLock(r) PROVE TypeOK'
  BY <1>3 DEF AcquireLock
<1>4. ASSUME NEW r \in Rx, AlreadyLocked(r) PROVE TypeOK'
  BY <1>4 DEF AlreadyLocked
<1>5. ASSUME NEW r \in Rx, CollectRead(r) PROVE TypeOK'
  BY <1>5 DEF CollectRead
<1>6. ASSUME NEW r \in Rx, CollectDelete(r) PROVE TypeOK'
  BY <1>6 DEF CollectDelete
<1>7. ASSUME NEW r \in Rx, RedisError(r) PROVE TypeOK'
  BY <1>7 DEF RedisError
<1>8. CASE UNCHANGED vars
  BY <1>8 DEF vars
<1> QED
  BY <1>1, <1>2, <1>3, <1>4, <1>5, <1>6, <1>7, <1>8 DEF Next, collectAndCallOnce

\* Every variable of the model keeps its type: the Redis set only ever holds
\* marshalled frames (collectAndCallOncePut) and times are natural numbers.
THEOREM TypeCorrect == Spec => []TypeOK
<1>1. Init => TypeOK
  BY DEF Init, TypeOK, Steps
<1> QED
  BY <1>1, TypeStep, PTL DEF Spec

-----------------------------------------------------------------------------
\* A goroutine that is still collecting is within its lock: nobody else can take it.
LEMMA LockHeldWhileCollecting ==
  ASSUME TypeOK, Timing, LockOwner, NEW r \in Rx, pc[r] \in Collecting
  PROVE  LockHeld
<1>1. now <= lockAt[r] + Delay + 2 * MaxLag
  <2>1. pc[r] \in Active /\ now <= due[r]
    BY DEF Timing, Collecting, Active
  <2>2. due[r] <= lockAt[r] + Delay + 2 * MaxLag
    BY TTLFacts DEF Timing, Collecting, TypeOK
  <2> QED
    BY <2>1, <2>2, TTLFacts DEF TypeOK
<1>2. lockExp = lockAt[r] + TTL
  BY DEF LockOwner
<1> QED
  BY <1>1, <1>2, TTLFacts DEF LockHeld, TypeOK

\* The inductive invariant holds initially.
LEMMA InitIInv == Init => IInv
  BY DEF Init, IInv, TypeOK, Steps, Timing, LockOwner, FrameKept, SleepKeeps,
         LocksApart, OneCollector, OwnFrameCollected, WindowComplete, Active,
         Collecting, Owners

\* Time passes: no deadline is missed, and a stored copy may become old.
LEMMA TickIInv == ASSUME IInv, TypeOK', Tick PROVE IInv'
<1> USE TTLFacts DEF IInv, Tick, TypeOK
<1>1. Timing'
  BY DEF Timing, Active, Owners
<1>2. LockOwner'
  BY DEF LockOwner
<1>3. FrameKept'
  BY DEF FrameKept, Kept
<1>4. SleepKeeps'
  BY DEF SleepKeeps
<1>5. (LocksApart /\ OneCollector /\ OwnFrameCollected /\ WindowComplete)'
  BY DEF LocksApart, OneCollector, OwnFrameCollected, WindowComplete
<1> QED
  BY <1>1, <1>2, <1>3, <1>4, <1>5

\* SADD and PEXPIRE: the set keeps what a sleeping collector waits for.
LEMMA PutIInv ==
  ASSUME IInv, TypeOK', NEW r \in Rx, collectAndCallOncePut(r)
  PROVE  IInv'
<1> USE TTLFacts, ConstantTypes DEF IInv, collectAndCallOncePut, TypeOK
<1>1. Timing'
  BY DEF Timing, Active, Owners
<1>2. LockOwner'
  BY DEF LockOwner, Collecting, Owners
<1>3. FrameKept'
  <2> SUFFICES ASSUME NEW q \in Rx, pc'[q] # "idle"
               PROVE  Kept(q)' \/ putAt'[q] + MaxLag < lockExp' \/ putAt'[q] + TTL <= now'
    BY DEF FrameKept
  <2>1. CASE q = r
    BY <2>1 DEF Kept
  <2>2. CASE q # r /\ Kept(q) /\ ~(putAt[q] + TTL <= now)
    <3>1. now < setExp /\ putAt[q] <= now
      BY <2>2 DEF Kept, Timing
    <3> QED
      BY <2>2, <3>1 DEF Kept, Members
  <2>3. CASE q # r /\ (~Kept(q) \/ putAt[q] + TTL <= now)
    BY <2>3 DEF FrameKept
  <2> QED
    BY <2>1, <2>2, <2>3
<1>4. SleepKeeps'
  <2> SUFFICES ASSUME NEW q \in Rx, pc'[q] = "sleep"
               PROVE  /\ frameOf[q] \in collectSet'
                      /\ lockAt'[q] + Delay + MaxLag < setExp'
                      /\ \A s \in Rx : pc'[s] # "idle" /\ lockAt'[q] <= putAt'[s]
                                          => frameOf[s] \in collectSet'
    BY DEF SleepKeeps
  <2>1. q # r /\ pc[q] = "sleep"
    OBVIOUS
  <2>2. now <= lockAt[q] + Delay + MaxLag
    BY <2>1 DEF Timing, Active
  <2>3. now < setExp /\ lockAt[q] + Delay + MaxLag < setExp
    BY <2>1, <2>2 DEF SleepKeeps
  <2>4. collectSet' = collectSet \cup {frameOf[r]}
    BY <2>3 DEF Members
  <2>5. lockAt[q] <= now
    BY <2>1 DEF Timing, Owners
  <2> QED
    BY <2>1, <2>3, <2>4, <2>5 DEF SleepKeeps
<1>5. OneCollector'
  BY DEF OneCollector, Collecting
<1>6. (LocksApart /\ OwnFrameCollected)'
  BY DEF LocksApart, Owners, OwnFrameCollected
<1>7. WindowComplete'
  BY DEF WindowComplete, Timing
<1> QED
  BY <1>1, <1>2, <1>3, <1>4, <1>5, <1>6, <1>7

\* SETNX succeeds: nobody collects, and the copy of r is still in the set.
LEMMA AcquireIInv ==
  ASSUME IInv, TypeOK', NEW r \in Rx, AcquireLock(r)
  PROVE  IInv'
<1> USE TTLFacts DEF IInv, AcquireLock, TypeOK
<1>1. \A q \in Rx : pc[q] \notin Collecting
  BY LockHeldWhileCollecting
<1>2. lockExp <= now /\ putAt[r] <= now /\ now <= putAt[r] + MaxLag
  BY DEF LockHeld, Timing, Active
<1>3. Timing'
  BY DEF Timing, Active, Owners
<1>4. LockOwner'
  BY <1>1, <1>2 DEF LockOwner, Collecting, Owners
<1>5. FrameKept'
  BY <1>2 DEF FrameKept, Kept
<1>6. SleepKeeps'
  <2>1. Kept(r)
    BY <1>2 DEF FrameKept
  <2>2. \A q \in Rx : pc[q] # "idle" /\ now <= putAt[q] => frameOf[q] \in collectSet
    BY <1>2 DEF FrameKept, Kept
  <2>3. lockAt'[r] = now /\ now + Delay + MaxLag < setExp
    BY <1>2, <2>1 DEF Kept
  <2>4. \A q \in Rx : pc'[q] = "sleep" => q = r
    BY <1>1 DEF Collecting
  <2> QED
    BY <2>1, <2>2, <2>3, <2>4 DEF SleepKeeps, Kept
<1>7. OneCollector'
  BY <1>1 DEF OneCollector, Collecting
<1>8. LocksApart'
  <2>1. \A q \in Rx : pc[q] \in Owners => lockAt[q] + TTL <= now
    BY <1>2 DEF LockOwner
  <2> QED
    BY <2>1 DEF LocksApart, Owners
<1>9. (OwnFrameCollected /\ WindowComplete)'
  BY DEF OwnFrameCollected, WindowComplete
<1> QED
  BY <1>3, <1>4, <1>5, <1>6, <1>7, <1>8, <1>9

\* SETNX fails, or a command fails: r takes no further step.
LEMMA EndIInv ==
  ASSUME IInv, TypeOK', NEW r \in Rx, AlreadyLocked(r) \/ RedisError(r)
  PROVE  IInv'
<1> USE TTLFacts DEF IInv, AlreadyLocked, RedisError, TypeOK
<1>1. Timing'
  BY DEF Timing, Active, Owners
<1>2. LockOwner'
  BY DEF LockOwner, Collecting, Owners
<1>3. FrameKept'
  BY DEF FrameKept, Kept, Active
<1>4. SleepKeeps'
  BY DEF SleepKeeps, Active
<1>5. OneCollector'
  BY DEF OneCollector, Collecting
<1>6. (LocksApart /\ OwnFrameCollected)'
  BY DEF LocksApart, Owners, OwnFrameCollected
<1>7. WindowComplete'
  BY DEF WindowComplete, Active
<1> QED
  BY <1>1, <1>2, <1>3, <1>4, <1>5, <1>6, <1>7

\* SMEMBERS: the set has not expired, so the collector reads all of it.
LEMMA ReadIInv ==
  ASSUME IInv, TypeOK', NEW r \in Rx, CollectRead(r)
  PROVE  IInv'
<1> USE TTLFacts DEF IInv, CollectRead, TypeOK
<1>1. now <= lockAt[r] + Delay + MaxLag /\ lockAt[r] + Delay <= now
  BY DEF Timing, Active
<1>2. Members = collectSet
  BY <1>1 DEF SleepKeeps, Members
<1>3. Timing'
  BY <1>1 DEF Timing, Active, Owners
<1>4. LockOwner'
  BY DEF LockOwner, Collecting, Owners
<1>5. FrameKept'
  BY DEF FrameKept, Kept
<1>6. SleepKeeps'
  BY DEF SleepKeeps
<1>7. OneCollector'
  BY DEF OneCollector, Collecting
<1>8. LocksApart'
  BY DEF LocksApart, Owners
<1>9. OwnFrameCollected'
  BY <1>2 DEF OwnFrameCollected, SleepKeeps
<1>10. WindowComplete'
  BY <1>2 DEF WindowComplete, SleepKeeps
<1> QED
  BY <1>3, <1>4, <1>5, <1>6, <1>7, <1>8, <1>9, <1>10

\* DEL and the call: nobody else collects, and the lock outlives every goroutine
\* whose copy is deleted with the set.
LEMMA DeleteIInv ==
  ASSUME IInv, TypeOK', NEW r \in Rx, CollectDelete(r)
  PROVE  IInv'
<1> USE TTLFacts DEF IInv, CollectDelete, TypeOK
<1>1. now <= lockAt[r] + Delay + 2 * MaxLag /\ lockExp = lockAt[r] + TTL
  BY DEF Timing, Active, LockOwner, Collecting
<1>2. read[r] # {}
  BY DEF OwnFrameCollected
<1>3. Timing'
  BY DEF Timing, Active, Owners
<1>4. LockOwner'
  BY DEF LockOwner, Collecting, Owners
<1>5. FrameKept'
  BY <1>1 DEF FrameKept, Timing
<1>6. SleepKeeps'
  BY DEF SleepKeeps, OneCollector, Collecting
<1>7. OneCollector'
  BY DEF OneCollector, Collecting
<1>8. LocksApart'
  BY DEF LocksApart, Owners
<1>9. OwnFrameCollected'
  BY <1>2 DEF OwnFrameCollected
<1>10. WindowComplete'
  BY DEF WindowComplete
<1> QED
  BY <1>3, <1>4, <1>5, <1>6, <1>7, <1>8, <1>9, <1>10

-----------------------------------------------------------------------------
\* The inductive invariant holds in every reachable state.
LEMMA Invariance == Spec => []IInv
<1>1. IInv /\ [Next]_vars => IInv'
  <2> SUFFICES ASSUME IInv, [Next]_vars PROVE IInv'
    OBVIOUS
  <2>1. TypeOK'
    BY TypeStep DEF IInv
  <2>2. CASE Tick
    BY <2>1, <2>2, TickIInv
  <2>3. ASSUME NEW r \in Rx, collectAndCallOncePut(r) PROVE IInv'
    BY <2>1, <2>3, PutIInv
  <2>4. ASSUME NEW r \in Rx, AcquireLock(r) PROVE IInv'
    BY <2>1, <2>4, AcquireIInv
  <2>5. ASSUME NEW r \in Rx, AlreadyLocked(r) \/ RedisError(r) PROVE IInv'
    BY <2>1, <2>5, EndIInv
  <2>6. ASSUME NEW r \in Rx, CollectRead(r) PROVE IInv'
    BY <2>1, <2>6, ReadIInv
  <2>7. ASSUME NEW r \in Rx, CollectDelete(r) PROVE IInv'
    BY <2>1, <2>7, DeleteIInv
  <2>8. CASE UNCHANGED vars
    BY <2>8 DEF vars, IInv, TypeOK, Timing, LockOwner, LocksApart, FrameKept, Kept,
                SleepKeeps, OneCollector, OwnFrameCollected, WindowComplete
  <2> QED
    BY <2>2, <2>3, <2>4, <2>5, <2>6, <2>7, <2>8 DEF Next, collectAndCallOnce
<1> QED
  BY <1>1, InitIInv, PTL DEF Spec

\* The lock of collectAndCallOnceLocked excludes a second collector although nobody
\* releases it: the collector is done before it expires.
THEOREM CollectorExclusion == Spec => []OneCollector
<1>1. IInv => OneCollector
  BY DEF IInv
<1> QED
  BY <1>1, Invariance, PTL

\* The handler is called again for the same frame only by a goroutine that took the
\* lock an expiration after the previous one (collectAndCallOnceLocked).
THEOREM CallsSeparated == Spec => []CallsAreApart
<1>1. IInv => CallsAreApart
  BY DEF IInv, LocksApart, CallsAreApart, Owners
<1> QED
  BY <1>1, Invariance, PTL

\* The set read by collectAndCallOnceCollect holds the collector's own copy: neither
\* its expiration nor the DEL of an earlier collector takes it away.
THEOREM CollectorKeepsFrame == Spec => []OwnFrameCollected
<1>1. IInv => OwnFrameCollected
  BY DEF IInv
<1> QED
  BY <1>1, Invariance, PTL

\* Every copy stored within the delay of the lock reaches the handler
\* (collectAndCallOnce sleeps for the whole delay before it reads the set).
THEOREM WindowCollected == Spec => []WindowComplete
<1>1. IInv => WindowComplete
  BY DEF IInv
<1> QED
  BY <1>1, Invariance, PTL
=============================================================================
