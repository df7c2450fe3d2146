------------------------ MODULE DeviceDownlinkProofs ------------------------
(***************************************************************************)
(* Proofs about DeviceDownlink, for any number of goroutines, payloads,    *)
(* ids and tokens, duplicated acknowledgements and crashes, with and       *)
(* without Class-C and LoRaWAN 1.1.                                        *)
(*                                                                         *)
(* Neither PendingSticky nor OutcomeOnce is inductive.  They need to know  *)
(* who holds the lock on the device row and that only the holder has       *)
(* uncommitted writes (Locking), that ids are never used twice (Fresh),    *)
(* that what the holder has written or read undoes no committed is_pending *)
(* (PendingKept), and that the last writer of a row whose outcome is known *)
(* has deleted it (Once).  That an acknowledged payload was transmitted    *)
(* and that none is lost need that a row never changes its payload         *)
(* (PayloadInv), that is_pending comes from a gateway (AckInv), and that   *)
(* no payload is lost whether the open transaction commits or not          *)
(* (LossInv).  Each part has a lemma with one step per group               *)
(* of actions; DeviceDownlink's helpers get a lemma each that says what a  *)
(* statement does to the table (WriteEffect, DeleteEffect, RecreateEffect).*)
(***************************************************************************)
EXTENDS DeviceDownlink, FiniteSetTheorems, TLAPS

Rows == [Ids -> DeviceQueueItem]

-----------------------------------------------------------------------------
(* The inductive invariant *)

\* The steps between taking the device row and the end of the transaction
Holding(c) ==
    \/ c \in Schedulers /\ pc[c] \notin {"idle", "lock"}
    \/ c \in AckHandlers /\ pc[c] \in {"sessionAck", "applyAck", "bump", "commit"}

\* At most one goroutine is between these steps, and only its transaction has
\* written rows that are not committed yet.
Locking ==
    /\ \A c \in Procs : devLock = c <=> Holding(c)
    /\ devLock = None => dirty = {}
    /\ \A a \in AckHandlers : pc[a] \in {"sessionAck", "applyAck"} => dirty = {}

\* The ids that the sequence has not produced yet are unused.
Fresh ==
    /\ \A i \in Ids : nextId <= i => ~queue[i].live /\ i \notin dirty /\ outcomes[i] = 0
    /\ \A c \in Procs, i \in Ids : i \in target[c] => i < nextId

\* A row as its last writer left it, committed or not
Latest(i) == IF i \in dirty THEN txQueue[i] ELSE queue[i]

Pending(r) == r.live /\ r.isPending

\* What the holder of the lock has written, or will write from what it has read,
\* undoes no committed is_pending.
TxKept ==
    \A i \in dirty : Pending(queue[i]) /\ txQueue[i].live => txQueue[i].isPending
ReadKept ==
    \A s \in Schedulers :
        pc[s] \in {"compose", "retry"} /\ item[s].id \in Ids /\ Pending(queue[item[s].id])
            => item[s].isPending
PendingKept == TxKept /\ ReadKept

\* The AS has heard the outcome of a row only if its last writer deleted it.
Once ==
    \A i \in Ids \ rolledBack :
        outcomes[i] <= 1 /\ (outcomes[i] = 1 => ~Latest(i).live)

\* The rows as their last writer left them
Last == [i \in Ids |-> Latest(i)]

\* The rows goroutine c has read and may still work on
Reads(c) == snap[c] \cup target[c] \cup ({item[c].id} \ {0})

\* A row has one payload for ever: it gets it with its id, a transaction that has
\* written it has not changed it, and every row that somebody has read has one.
RowPayloads ==
    /\ \A i \in Ids : nextId <= i => queue[i].payload = None
    /\ \A i \in dirty : queue[i].payload # None => txQueue[i].payload = queue[i].payload
    /\ \A i \in Ids : queue[i].live => queue[i].payload # None
    /\ \A i \in Ids : Latest(i).live => Latest(i).payload # None
ReadPayloads == \A c \in Procs : \A i \in Reads(c) : View(c)[i].payload # None
PayloadInv == RowPayloads /\ ReadPayloads

\* A gateway has transmitted the payload of row i.
Vouched(i) == queue[i].payload \in txAcked /\ Latest(i).payload \in txAcked

\* Who is marked as pending, was read as pending or is acknowledged, was transmitted.
AckInv ==
    /\ \A i \in acked : Vouched(i)
    /\ \A i \in Ids : queue[i].isPending \/ Latest(i).isPending => Vouched(i)
    /\ \A c \in Procs : item[c].isPending /\ item[c].id # 0 => Vouched(item[c].id)
    /\ \A c \in Procs : pc[c] = "ackDelete" => item[c].isPending

\* The payloads that need no row any more
Accounted == excused \cup (txAcked \ Confirmed)

\* The outcome of p was told to the AS, and p is in the queue, as the rows v say.
Told(v, o, p) == \E i \in Ids : v[i].payload = p /\ o[i] > 0
Alive(v, p) == \E i \in Ids : v[i].payload = p /\ v[i].live

\* The steps between the read of the queue and its re-creation
Reencrypting == {"reencrypt", "recreate"}

\* No payload is lost if the open transaction commits, nor if it does not; and what
\* was not read for a re-encryption is not lost when the queue is flushed.
CommittedKept == \A p \in submitted \ Accounted : Told(queue, outcomes, p) \/ Alive(queue, p)
LastKept == \A p \in submitted \ Accounted : Told(Last, outcomes, p) \/ Alive(Last, p)
SnapKept ==
    \A c \in Procs : pc[c] \in Reencrypting =>
        \A p \in submitted \ Accounted :
            Told(View(c), outcomes, p) \/ \E i \in snap[c] : View(c)[i].payload = p
LossInv == CommittedKept /\ LastKept /\ SnapKept

-----------------------------------------------------------------------------
(* Types *)

\* The initial values of the variables have their types.
LEMMA ConstantsInType ==
    /\ Zero \in Counters
    /\ NoItem \in ItemRead
    /\ NoJob \in Job
    /\ NoRow \in DeviceQueueItem
  BY ConstantTypes
  DEF Zero, Counters, NoItem, ItemRead, NoJob, Job, NoRow, DeviceQueueItem, Times

\* A goroutine sees well-typed rows.
LEMMA ViewType == ASSUME StoreTypes, NEW c PROVE View(c) \in Rows
  BY DEF StoreTypes, View, Rows

\* What Write may change, and that it keeps the rows well-typed
LEMMA WriteType ==
  ASSUME StoreTypes, NEW c, NEW S \in SUBSET Ids, NEW q \in Rows, Write(c, S, q)
  PROVE  /\ queue' \in Rows
         /\ txQueue' \in Rows
         /\ dirty' \in SUBSET Ids
         /\ devLock' = devLock
  BY DEF StoreTypes, Write, Rows

\* Deleting a row keeps the rows well-typed.
LEMMA DeadRowType ==
  ASSUME NEW q \in Rows, NEW i \in Ids
  PROVE  /\ [q EXCEPT ![i].live = FALSE] \in Rows
         /\ [q[i] EXCEPT !.live = FALSE] \in DeviceQueueItem
  BY DEF Rows, DeviceQueueItem

\* DeleteDeviceQueueItem keeps the table well-typed.
LEMMA DeleteType ==
  ASSUME StoreTypes, NEW c, NEW i \in Ids, Delete(c, i)
  PROVE  /\ queue' \in Rows
         /\ txQueue' \in Rows
         /\ dirty' \in SUBSET Ids
         /\ devLock' = devLock
<1>1. [View(c) EXCEPT ![i].live = FALSE] \in Rows
  BY ViewType, DeadRowType
<1> QED
  BY <1>1, WriteType DEF Delete

\* A row inserted by CreateDeviceQueueItem is well-typed.
LEMMA NewRowType ==
  ASSUME NEW p \in Payloads \cup {None}, NEW n \in Nat PROVE NewRow(p, n) \in DeviceQueueItem
  BY DEF NewRow, DeviceQueueItem, Times

\* The row a tx acknowledgement marks as pending is well-typed.
LEMMA PendingItemType ==
  ASSUME NEW r \in DeviceQueueItem
  PROVE  PendingItem(r) \in DeviceQueueItem
<1>1. PendingItem(r) = [r EXCEPT !.isPending = TRUE, !.timeoutAfter = PendingItem(r).timeoutAfter]
  BY DEF PendingItem, DeviceQueueItem
<1>2. PendingItem(r).timeoutAfter \in Times
  BY DEF PendingItem, DeviceQueueItem, Times
<1> QED
  BY <1>1, <1>2 DEF DeviceQueueItem

\* Resetting the locals of a goroutine keeps them well-typed.
LEMMA ForgetType ==
  ASSUME LocalTypes, NEW c \in Procs, NEW step \in Steps, Forget(c, step)
  PROVE  LocalTypes'
  BY ConstantsInType DEF LocalTypes, Forget, Goto

\* A goroutine that returns leaves well-typed locals.
LEMMA StopType == ASSUME LocalTypes, NEW c \in Procs, Stop(c) PROVE LocalTypes'
  BY ForgetType DEF Stop, Steps

\* A goroutine whose task list ends leaves well-typed locals.
LEMMA LeaveType == ASSUME LocalTypes, NEW c \in Procs, Leave(c) PROVE LocalTypes'
  BY ForgetType DEF Leave, Steps

\* The queue a goroutine has read has finitely many rows.
LEMMA SnapFinite ==
  ASSUME LocalTypes, NEW c \in Procs
  PROVE  IsFiniteSet(snap[c]) /\ Cardinality(snap[c]) \in Nat
<1>1. IsFiniteSet(Ids)
  BY FS_Interval, ConstantTypes DEF Ids
<1>2. snap[c] \subseteq Ids
  BY DEF LocalTypes
<1> QED
  BY <1>1, <1>2, FS_Subset, FS_CardinalityType

\* A row has a payload or was never inserted.
LEMMA RowPayload ==
  ASSUME NEW q \in Rows, NEW i \in Ids PROVE q[i].payload \in Payloads \cup {None}
  BY DEF Rows, DeviceQueueItem

\* The rows a goroutine sees or has read have a payload.
LEMMA SeenPayload ==
  ASSUME StoreTypes, PayloadInv, NEW c \in Procs, NEW i \in Ids,
         View(c)[i].live \/ i \in Reads(c)
  PROVE  View(c)[i].payload \in Payloads
<1>1. View(c)[i].payload \in Payloads \cup {None}
  BY ViewType, RowPayload
<1>2. View(c)[i] = queue[i] \/ View(c)[i] = Latest(i)
  BY DEF View, Latest, StoreTypes
<1> QED
  BY <1>1, <1>2 DEF PayloadInv, RowPayloads, ReadPayloads

\* The steps that use the id of a queue item read before have one.
ItemKnown ==
    \A c \in Procs : pc[c] \in {"ackDelete", "drop", "retry"} => item[c].id \in Ids

\* Every step preserves ItemKnown: a goroutine's item names a real row.
LEMMA ItemKnownStep == TypeOK /\ ItemKnown /\ [Next]_vars => ItemKnown'
<1> SUFFICES ASSUME TypeOK, ItemKnown, [Next]_vars PROVE ItemKnown'
  OBVIOUS
<1> USE DEF TypeOK, LocalTypes, ItemKnown, Goto
<1>1. ASSUME NEW c \in Procs, NEW step \in Steps \ {"ackDelete", "drop", "retry"}, Forget(c, step)
      PROVE  ItemKnown'
  BY <1>1 DEF Forget
<1>2. ASSUME NEW c \in Procs, Stop(c) \/ Leave(c) PROVE ItemKnown'
  BY <1>1, <1>2 DEF Stop, Leave, Steps
<1>3. ASSUME NEW u \in Uplinks, UplinkStep(u) PROVE ItemKnown'
  <2>1. CASE UplinkGetSession(u) \/ UplinkSaveSession(u) \/ UplinkACKDelete(u)
    BY <2>1 DEF UplinkGetSession, UplinkSaveSession, UplinkACKDelete
  <2>2. CASE UplinkACK(u)
    BY <2>2 DEF UplinkACK, PendingRow, FirstIds, LiveIds, Procs
  <2>3. CASE UplinkACKASError(u) \/ UplinkACKGone(u)
    BY <1>2, <2>3 DEF UplinkACKASError, UplinkACKGone, Procs
  <2> QED
    BY <1>3, <2>1, <2>2, <2>3 DEF UplinkStep
<1>4. ASSUME NEW c \in Uplinks \cup Schedulers, QueueStep(c) PROVE ItemKnown'
  <2>0. c \in Procs
    BY DEF Procs
  <2>1. CASE NextItem(c)
    BY <2>0, <2>1 DEF NextItem, FirstIds, LiveIds
  <2>2. CASE DropItem(c) \/ ReadQueue(c) \/ FlushQueue(c) \/ RecreateQueue(c)
    BY <2>2 DEF DropItem, ReadQueue, FlushQueue, RecreateQueue
  <2>3. CASE DropItemASError(c) \/ DropItemGone(c) \/ ReencryptError(c) \/ NothingSent(c)
    BY <1>2, <2>0, <2>3 DEF DropItemASError, DropItemGone, ReencryptError, NothingSent
  <2>4. CASE SendFrame(c)
    <3>1. CASE c \in Schedulers
      <4>1. item[c].id # 0 /\ item' = item
        BY <2>4, <3>1, ProcsDisjoint DEF SendFrame, WindowItems
      <4>2. item[c].id \in Ids
        BY <2>0, <4>1, ConstantTypes DEF ItemRead, Ids
      <4> QED
        BY <2>4, <3>1, <4>1, <4>2 DEF SendFrame
    <3>2. CASE c \notin Schedulers
      BY <1>2, <2>0, <2>4, <3>2 DEF SendFrame
    <3> QED
      BY <3>1, <3>2
  <2> QED
    BY <1>4, <2>1, <2>2, <2>3, <2>4 DEF QueueStep
<1>5. ASSUME NEW s \in Schedulers, SchedulerStep(s) PROVE ItemKnown'
  <2>1. CASE SelectDevice(s) \/ LockSelected(s) \/ SchedulerGetSession(s) \/ SchedulerSkip(s)
    BY <2>1 DEF SelectDevice, LockSelected, SchedulerGetSession, SchedulerSkip
  <2>2. CASE SetRetryAfter(s)
    BY <1>1, <2>2 DEF SetRetryAfter, Procs, Steps
  <2>3. CASE AbortTransaction(s)
    BY <1>2, <2>3 DEF AbortTransaction, Procs
  <2> QED
    BY <1>5, <2>1, <2>2, <2>3 DEF SchedulerStep
<1>6. ASSUME NEW a \in AckHandlers, AckStep(a) PROVE ItemKnown'
  <2>1. CASE (\E m \in txAcks : ReceiveTXAck(a, m)) \/ LockDevice(a) \/ AckGetSession(a) \/ ApplyTXAck(a)
    BY <2>1 DEF ReceiveTXAck, LockDevice, AckGetSession, ApplyTXAck
  <2>2. CASE TXAckItemGone(a) \/ AckSaveSessionMAC(a)
    BY <1>2, <2>2 DEF TXAckItemGone, AckSaveSessionMAC, Procs
  <2>3. CASE AckSaveSession(a)
    BY <1>1, <2>3 DEF AckSaveSession, Procs, Steps
  <2> QED
    BY <1>6, <2>1, <2>2, <2>3 DEF AckStep
<1>7. ASSUME NEW c \in Procs, Commit(c) \/ Crash(c) PROVE ItemKnown'
  BY <1>2, <1>7 DEF Commit, Crash
<1>8. ASSUME NEW f \in Flushers, FlushStart(f) \/ FlushEnd(f) PROVE ItemKnown'
  BY <1>2, <1>8 DEF FlushStart, FlushEnd, Procs
<1>9. ASSUME UNCHANGED localVars PROVE ItemKnown'
  BY <1>9 DEF localVars
<1> QED
  BY <1>3, <1>4, <1>5, <1>6, <1>7, <1>8, <1>9
  DEF Next, EnvStep, vars, Procs, GetNextDownlinkFCnt, CreateDeviceQueueItem, Transmit, TimeoutPasses, RetryPasses

\* Every step keeps the locals of the goroutines well-typed.
LEMMA LocalStep == TypeOK /\ [Next]_vars => LocalTypes'
<1> SUFFICES ASSUME TypeOK, [Next]_vars PROVE LocalTypes'
  OBVIOUS
<1> USE DEF TypeOK, Goto
<1>1. ASSUME NEW u \in Uplinks, UplinkStep(u) PROVE LocalTypes'
  <2>1. CASE UplinkGetSession(u) \/ UplinkSaveSession(u)
    <3>1. pc' \in [Procs -> Steps]
      BY <2>1 DEF UplinkGetSession, UplinkSaveSession, LocalTypes, Steps, Section
    <3>2. upACK' \in [Procs -> BOOLEAN]
      BY <2>1 DEF UplinkGetSession, UplinkSaveSession, LocalTypes, NetTypes
    <3> QED
      BY <2>1, <3>1, <3>2 DEF UplinkGetSession, UplinkSaveSession, LocalTypes, StoreTypes
  <2>2. CASE UplinkACK(u)
    <3>1. \A i \in Ids : [id |-> i, isPending |-> TRUE] \in ItemRead
      BY ConstantTypes DEF ItemRead, Ids
    <3>2. pc' \in [Procs -> Steps]
      BY <2>2 DEF UplinkACK, LocalTypes, Steps, Section
    <3>3. item' \in [Procs -> ItemRead]
      BY <2>2, <3>1 DEF UplinkACK, PendingRow, FirstIds, LiveIds, LocalTypes
    <3> QED
      BY <2>2, <3>2, <3>3 DEF UplinkACK, LocalTypes
  <2>3. CASE UplinkACKDelete(u)
    BY <2>3, ConstantsInType DEF UplinkACKDelete, LocalTypes, Steps, Section
  <2>4. CASE UplinkACKASError(u) \/ UplinkACKGone(u)
    BY <2>4, StopType DEF UplinkACKASError, UplinkACKGone, Procs
  <2> QED
    BY <1>1, <2>1, <2>2, <2>3, <2>4 DEF UplinkStep
<1>2. ASSUME NEW c \in Uplinks \cup Schedulers, QueueStep(c) PROVE LocalTypes'
  <2>0. c \in Procs
    BY DEF Procs
  <2>1. CASE NextItem(c)
    <3>1. item' \in [Procs -> ItemRead]
      <4>1. \A i \in Ids : View(c)[i].isPending \in BOOLEAN
        BY ViewType DEF Rows, DeviceQueueItem
      <4>2. \A i \in Ids : [id |-> i, isPending |-> View(c)[i].isPending] \in ItemRead
        BY <4>1, ConstantTypes DEF ItemRead, Ids
      <4> QED
        BY <2>0, <2>1, <4>2, ConstantsInType DEF NextItem, LocalTypes, FirstIds, LiveIds
    <3> QED
      BY <2>0, <2>1, <3>1 DEF NextItem, LocalTypes, Steps, Section
  <2>2. CASE DropItem(c)
    BY <2>2, ConstantsInType DEF DropItem, LocalTypes, Steps, Section
  <2>3. CASE ReadQueue(c) \/ FlushQueue(c)
    BY <2>3, ConstantsInType DEF ReadQueue, FlushQueue, LiveIds, LocalTypes, Steps, Section
  <2>4. CASE RecreateQueue(c)
    BY <2>4 DEF RecreateQueue, LocalTypes, Steps, Section
  <2>5. CASE DropItemASError(c) \/ DropItemGone(c) \/ ReencryptError(c) \/ NothingSent(c)
    BY <2>0, <2>5, LeaveType DEF DropItemASError, DropItemGone, ReencryptError, NothingSent
  <2>6. CASE SendFrame(c)
    <3>1. CASE c \in Schedulers
      BY <2>6, <3>1, ConstantsInType DEF SendFrame, LocalTypes, Steps
    <3>2. CASE c \notin Schedulers
      BY <2>0, <2>6, <3>2, StopType DEF SendFrame
    <3> QED
      BY <3>1, <3>2
  <2> QED
    BY <1>2, <2>1, <2>2, <2>3, <2>4, <2>5, <2>6 DEF QueueStep
<1>3. ASSUME NEW s \in Schedulers, SchedulerStep(s) PROVE LocalTypes'
  <2>1. CASE SelectDevice(s) \/ LockSelected(s) \/ SchedulerGetSession(s) \/ SchedulerSkip(s)
    BY <2>1 DEF SelectDevice, LockSelected, SchedulerGetSession, SchedulerSkip,
                LocalTypes, StoreTypes, Steps, Section
  <2>2. CASE SetRetryAfter(s)
    BY <2>2, ForgetType DEF SetRetryAfter, Procs, Steps
  <2>3. CASE AbortTransaction(s)
    BY <2>3, StopType DEF AbortTransaction, Procs
  <2> QED
    BY <1>3, <2>1, <2>2, <2>3 DEF SchedulerStep
<1>4. ASSUME NEW a \in AckHandlers, AckStep(a) PROVE LocalTypes'
  <2>1. CASE \E m \in txAcks : ReceiveTXAck(a, m)
    <3>1. \A m \in TxAck : m.kind # "error" => m \in Job
      BY ConstantTypes DEF TxAck, Job, Tokens
    <3> QED
      BY <2>1, <3>1 DEF ReceiveTXAck, LocalTypes, NetTypes, Steps
  <2>2. CASE LockDevice(a) \/ AckGetSession(a) \/ ApplyTXAck(a)
    BY <2>2 DEF LockDevice, AckGetSession, ApplyTXAck, LocalTypes, StoreTypes, Steps, Section
  <2>3. CASE TXAckItemGone(a) \/ AckSaveSessionMAC(a)
    BY <2>3, StopType DEF TXAckItemGone, AckSaveSessionMAC, Procs
  <2>4. CASE AckSaveSession(a)
    BY <2>4, ForgetType DEF AckSaveSession, Procs, Steps
  <2> QED
    BY <1>4, <2>1, <2>2, <2>3, <2>4 DEF AckStep
<1>5. ASSUME NEW c \in Procs, Commit(c) \/ Crash(c) PROVE LocalTypes'
  BY <1>5, StopType DEF Commit, Crash
<1>6. ASSUME NEW f \in Flushers, FlushStart(f) PROVE LocalTypes'
  BY <1>6 DEF FlushStart, LiveIds, LocalTypes, Steps
<1>7. ASSUME NEW f \in Flushers, FlushEnd(f) PROVE LocalTypes'
  BY <1>7, StopType DEF FlushEnd, Procs
<1>8. ASSUME UNCHANGED localVars PROVE LocalTypes'
  BY <1>8 DEF localVars, LocalTypes
<1> QED
  BY <1>1, <1>2, <1>3, <1>4, <1>5, <1>6, <1>7, <1>8
  DEF Next, EnvStep, vars, Procs, GetNextDownlinkFCnt, CreateDeviceQueueItem, Transmit,
      TimeoutPasses, RetryPasses

\* Every step keeps the saved frames and the messages well-typed.
LEMMA NetStep == TypeOK /\ PayloadInv /\ [Next]_vars => NetTypes'
<1> SUFFICES ASSUME TypeOK, PayloadInv, [Next]_vars PROVE NetTypes'
  OBVIOUS
<1> USE DEF TypeOK
<1>0. ASSUME UNCHANGED netVars PROVE NetTypes'
  BY <1>0 DEF netVars, NetTypes
<1>1. ASSUME NEW u \in Uplinks, UplinkStep(u) PROVE NetTypes'
  <2>1. CASE UplinkGetSession(u)
    BY <2>1 DEF UplinkGetSession, NetTypes
  <2> QED
    BY <1>0, <1>1, <2>1 DEF UplinkStep, UplinkSaveSession, UplinkACK, UplinkACKDelete,
                            UplinkACKASError, UplinkACKGone
<1>2. ASSUME NEW c \in Uplinks \cup Schedulers, QueueStep(c) PROVE NetTypes'
  <2>1. CASE SendFrame(c)
    <3>1. c \in Procs
      BY DEF Procs
    <3>2. PICK t \in Tokens, windows \in WindowItems(c) :
            /\ frames' = [frames EXCEPT ![t] =
                            [saved |-> TRUE, id |-> item[c].id,
                             payload |-> {View(c)[i].payload : i \in {item[c].id} \ {0}},
                             cnt |-> ds[c], items |-> windows]]
            /\ sent' = sent \cup {t}
      BY <2>1 DEF SendFrame
    <3>3. windows \in SUBSET {"app", "mac"}
      BY DEF WindowItems
    <3>4. {View(c)[i].payload : i \in {item[c].id} \ {0}} \in SUBSET Payloads
      <4>1. \A i \in {item[c].id} \ {0} : i \in Ids /\ i \in Reads(c)
        BY <3>1, ConstantTypes DEF LocalTypes, ItemRead, Ids, Reads
      <4> QED
        BY <3>1, <4>1, SeenPayload
    <3>5. item[c].id \in 0 .. MaxId /\ ds[c] \in Counters
      BY <3>1 DEF LocalTypes, ItemRead
    <3>6. frames' \in [Tokens -> DownlinkFrame]
      BY <3>2, <3>3, <3>4, <3>5 DEF NetTypes, DownlinkFrame
    <3> QED
      BY <2>1, <3>2, <3>6 DEF SendFrame, NetTypes
  <2> QED
    BY <1>0, <1>2, <2>1 DEF QueueStep, NextItem, DropItem, DropItemASError, DropItemGone,
         ReadQueue, FlushQueue, RecreateQueue, ReencryptError, NothingSent
<1>3. ASSUME NEW s \in Schedulers, SchedulerStep(s) PROVE NetTypes'
  BY <1>0, <1>3 DEF SchedulerStep, SelectDevice, LockSelected, SchedulerGetSession,
       SchedulerSkip, SetRetryAfter, AbortTransaction
<1>4. ASSUME NEW a \in AckHandlers, AckStep(a) PROVE NetTypes'
  <2>1. CASE \E m \in txAcks : ReceiveTXAck(a, m)
    BY <2>1 DEF ReceiveTXAck, NetTypes
  <2> QED
    BY <1>0, <1>4, <2>1 DEF AckStep, LockDevice, AckGetSession, ApplyTXAck, TXAckItemGone,
         AckSaveSession, AckSaveSessionMAC
<1>5. ASSUME NEW c \in Procs, Commit(c) \/ Crash(c) PROVE NetTypes'
  BY <1>0, <1>5 DEF Commit, Crash
<1>6. CASE GetNextDownlinkFCnt
  <2>1. AppCnt(session) \in Nat /\ \A i \in Ids : queue[i].fCnt \in Nat
    BY DEF AppCnt, StoreTypes, Counters, DeviceQueueItem
  <2> QED
    BY <1>6, <2>1 DEF GetNextDownlinkFCnt, LiveIds, NetTypes
<1>7. ASSUME NEW p \in Payloads, CreateDeviceQueueItem(p) PROVE NetTypes'
  BY <1>7 DEF CreateDeviceQueueItem, NetTypes
<1>8. ASSUME NEW f \in Flushers, FlushStart(f) \/ FlushEnd(f) PROVE NetTypes'
  BY <1>0, <1>8 DEF FlushStart, FlushEnd
<1>9. ASSUME NEW t \in Tokens, NEW kind \in {"app", "mac", "error"}, NEW received \in BOOLEAN,
             Transmit(t, kind, received)
      PROVE  NetTypes'
  BY <1>9 DEF Transmit, NetTypes, TxAck
<1>10. ASSUME NEW i \in Ids, TimeoutPasses(i) \/ RetryPasses(i) PROVE NetTypes'
  BY <1>0, <1>10 DEF TimeoutPasses, RetryPasses
<1> QED
  BY <1>0, <1>1, <1>2, <1>3, <1>4, <1>5, <1>6, <1>7, <1>8, <1>9, <1>10
  DEF Next, EnvStep, vars, Procs

\* A handler of an acknowledgement knows the token until it is done.
Handling == {"lockAck", "sessionAck", "applyAck", "bump", "sessionMAC", "bumpMAC"}
JobKnown ==
    \A c \in Procs : pc[c] \in Handling => c \in AckHandlers /\ job[c].token \in Tokens

\* Every step preserves JobKnown: saved frames name real rows.
LEMMA JobKnownStep == TypeOK /\ JobKnown /\ [Next]_vars => JobKnown'
<1> SUFFICES ASSUME TypeOK, JobKnown, [Next]_vars PROVE JobKnown'
  OBVIOUS
<1> USE DEF TypeOK, LocalTypes, JobKnown, Handling, Goto
<1>1. ASSUME NEW c \in Procs, NEW step \in Steps \ Handling, Forget(c, step)
      PROVE  JobKnown'
  BY <1>1 DEF Forget
<1>2. ASSUME NEW c \in Procs, Stop(c) \/ Leave(c) PROVE JobKnown'
  BY <1>1, <1>2 DEF Stop, Leave, Steps
<1>3. ASSUME NEW u \in Uplinks, UplinkStep(u) PROVE JobKnown'
  <2>1. CASE UplinkGetSession(u) \/ UplinkSaveSession(u) \/ UplinkACKDelete(u) \/ UplinkACK(u)
    BY <2>1 DEF UplinkGetSession, UplinkSaveSession, UplinkACKDelete, UplinkACK
  <2>2. CASE UplinkACKASError(u) \/ UplinkACKGone(u)
    BY <1>2, <2>2 DEF UplinkACKASError, UplinkACKGone, Procs
  <2> QED
    BY <1>3, <2>1, <2>2 DEF UplinkStep
<1>4. ASSUME NEW c \in Uplinks \cup Schedulers, QueueStep(c) PROVE JobKnown'
  <2>0. c \in Procs
    BY DEF Procs
  <2>1. CASE NextItem(c) \/ DropItem(c) \/ ReadQueue(c) \/ FlushQueue(c) \/ RecreateQueue(c)
    BY <2>0, <2>1 DEF NextItem, DropItem, ReadQueue, FlushQueue, RecreateQueue
  <2>2. CASE DropItemASError(c) \/ DropItemGone(c) \/ ReencryptError(c) \/ NothingSent(c)
    BY <1>2, <2>0, <2>2 DEF DropItemASError, DropItemGone, ReencryptError, NothingSent
  <2>3. CASE SendFrame(c)
    BY <1>2, <2>0, <2>3 DEF SendFrame
  <2> QED
    BY <1>4, <2>1, <2>2, <2>3 DEF QueueStep
<1>5. ASSUME NEW s \in Schedulers, SchedulerStep(s) PROVE JobKnown'
  <2>1. CASE SelectDevice(s) \/ LockSelected(s) \/ SchedulerGetSession(s) \/ SchedulerSkip(s)
    BY <2>1 DEF SelectDevice, LockSelected, SchedulerGetSession, SchedulerSkip
  <2>2. CASE SetRetryAfter(s)
    BY <1>1, <2>2 DEF SetRetryAfter, Procs, Steps
  <2>3. CASE AbortTransaction(s)
    BY <1>2, <2>3 DEF AbortTransaction, Procs
  <2> QED
    BY <1>5, <2>1, <2>2, <2>3 DEF SchedulerStep
<1>6. ASSUME NEW a \in AckHandlers, AckStep(a) PROVE JobKnown'
  <2>1. CASE \E m \in txAcks : ReceiveTXAck(a, m)
    BY <2>1 DEF ReceiveTXAck, NetTypes, TxAck
  <2>2. CASE LockDevice(a) \/ AckGetSession(a) \/ ApplyTXAck(a)
    BY <2>2 DEF LockDevice, AckGetSession, ApplyTXAck
  <2>3. CASE TXAckItemGone(a) \/ AckSaveSessionMAC(a)
    BY <1>2, <2>3 DEF TXAckItemGone, AckSaveSessionMAC, Procs
  <2>4. CASE AckSaveSession(a)
    BY <1>1, <2>4 DEF AckSaveSession, Procs, Steps
  <2> QED
    BY <1>6, <2>1, <2>2, <2>3, <2>4 DEF AckStep
<1>7. ASSUME NEW c \in Procs, Commit(c) \/ Crash(c) PROVE JobKnown'
  BY <1>2, <1>7 DEF Commit, Crash
<1>8. ASSUME NEW f \in Flushers, FlushStart(f) \/ FlushEnd(f) PROVE JobKnown'
  BY <1>2, <1>8 DEF FlushStart, FlushEnd, Procs
<1>9. ASSUME UNCHANGED localVars PROVE JobKnown'
  BY <1>9 DEF localVars
<1> QED
  BY <1>3, <1>4, <1>5, <1>6, <1>7, <1>8, <1>9
  DEF Next, EnvStep, vars, Procs, GetNextDownlinkFCnt, CreateDeviceQueueItem, Transmit,
      TimeoutPasses, RetryPasses

\* Every step keeps the history variables well-typed.
LEMMA HistStep ==
  TypeOK /\ ItemKnown /\ JobKnown /\ Locking /\ PayloadInv /\ [Next]_vars => HistTypes'
<1> SUFFICES ASSUME TypeOK, ItemKnown, JobKnown, Locking, PayloadInv, [Next]_vars
             PROVE  HistTypes'
  OBVIOUS
<1> USE DEF TypeOK
<1>0. ASSUME UNCHANGED histVars PROVE HistTypes'
  BY <1>0 DEF histVars, HistTypes
<1>1. ASSUME NEW i \in Ids, Report(i) PROVE outcomes' \in [Ids -> Nat]
  BY <1>1 DEF Report, HistTypes
<1>2. ASSUME NEW c \in Procs, NEW i \in Ids, View(c)[i].live
      PROVE  View(c)[i].payload \in Payloads
  BY <1>2, SeenPayload
<1>3. ASSUME NEW u \in Uplinks, UplinkStep(u) PROVE HistTypes'
  <2>0. u \in Procs
    BY DEF Procs
  <2>1. CASE UplinkACKDelete(u)
    BY <1>1, <2>0, <2>1 DEF UplinkACKDelete, HistTypes, ItemKnown
  <2>2. CASE UplinkACKASError(u)
    BY <1>2, <2>0, <2>2 DEF UplinkACKASError, Delete, HistTypes, ItemKnown
  <2> QED
    BY <1>0, <1>3, <2>1, <2>2 DEF UplinkStep, UplinkGetSession, UplinkSaveSession, UplinkACK,
                                  UplinkACKGone
<1>4. ASSUME NEW c \in Uplinks \cup Schedulers, QueueStep(c) PROVE HistTypes'
  <2>0. c \in Procs
    BY DEF Procs
  <2>1. CASE DropItem(c)
    BY <1>1, <2>0, <2>1 DEF DropItem, HistTypes, ItemKnown
  <2>2. CASE DropItemASError(c)
    BY <1>2, <2>0, <2>2 DEF DropItemASError, Delete, HistTypes, ItemKnown
  <2> QED
    BY <1>0, <1>4, <2>1, <2>2 DEF QueueStep, NextItem, DropItemGone, ReadQueue, FlushQueue,
         RecreateQueue, ReencryptError, NothingSent, SendFrame
<1>5. ASSUME NEW c, Rollback(c) PROVE rolledBack' \in SUBSET Ids
  BY <1>5 DEF Rollback, HistTypes, StoreTypes
<1>6. ASSUME NEW s \in Schedulers, SchedulerStep(s) PROVE HistTypes'
  <2>1. CASE AbortTransaction(s)
    BY <1>5, <2>1 DEF AbortTransaction, HistTypes
  <2> QED
    BY <1>0, <1>6, <2>1 DEF SchedulerStep, SelectDevice, LockSelected, SchedulerGetSession,
         SchedulerSkip, SetRetryAfter
<1>7. ASSUME NEW a \in AckHandlers, AckStep(a) PROVE HistTypes'
  <2>0. a \in Procs
    BY DEF Procs
  <2>1. CASE ApplyTXAck(a)
    BY <1>2, <2>0, <2>1 DEF ApplyTXAck, HistTypes
  <2>2. ASSUME pc[a] \in Handling PROVE frames[job[a].token].cnt \in Counters
    BY <2>0, <2>2 DEF JobKnown, NetTypes, DownlinkFrame
  <2>3. \A m, n \in Nat : LargerOf(m, n) \in Nat
    BY DEF LargerOf
  <2>4. CASE AckSaveSession(a)
    <3>1. AppCnt(frames[job[a].token].cnt) + 1 \in Nat
      BY <2>2, <2>4 DEF AckSaveSession, Handling, AppCnt, Counters
    <3>2. ackedCnt' \in Counters
      BY <2>3, <2>4, <3>1 DEF AckSaveSession, HistTypes, Counters
    <3> QED
      BY <2>4, <3>2 DEF AckSaveSession, HistTypes
  <2>5. CASE AckSaveSessionMAC(a)
    <3>1. frames[job[a].token].cnt.n + 1 \in Nat
      BY <2>2, <2>5 DEF AckSaveSessionMAC, Handling, Counters
    <3>2. ackedCnt' \in Counters
      BY <2>3, <2>5, <3>1 DEF AckSaveSessionMAC, HistTypes, Counters
    <3> QED
      BY <2>5, <3>2 DEF AckSaveSessionMAC, HistTypes
  <2> QED
    BY <1>0, <1>7, <2>1, <2>4, <2>5 DEF AckStep, ReceiveTXAck, LockDevice, AckGetSession,
         TXAckItemGone
<1>8. ASSUME NEW c \in Procs, Commit(c) PROVE HistTypes'
  BY <1>0, <1>8 DEF Commit
<1>9. ASSUME NEW c \in Procs, Crash(c) PROVE HistTypes'
  BY <1>5, <1>9 DEF Crash, HistTypes
<1>10. ASSUME NEW p \in Payloads, CreateDeviceQueueItem(p) PROVE HistTypes'
  BY <1>10 DEF CreateDeviceQueueItem, HistTypes
<1>11. ASSUME NEW f \in Flushers, FlushEnd(f) PROVE HistTypes'
  <2>0. f \in Procs /\ View(f) = queue
    BY ProcsDisjoint DEF Procs, Locking, Holding, View
  <2>1. \A i \in target[f] : queue[i].payload \in Payloads
    BY <2>0, SeenPayload DEF LocalTypes, Reads
  <2> QED
    BY <1>11, <2>1 DEF FlushEnd, HistTypes
<1> QED
  BY <1>0, <1>3, <1>4, <1>6, <1>7, <1>8, <1>9, <1>10, <1>11
  DEF Next, EnvStep, vars, Procs, GetNextDownlinkFCnt, FlushStart, Transmit, TimeoutPasses,
      RetryPasses

\* The re-encryption deletes the rows of its delete statement and inserts rows with
\* new ids, none of them pending, one for each row that was read.
LEMMA RecreateEffect ==
  ASSUME TypeOK, NEW c \in Procs, RecreateQueue(c)
  PROVE  /\ nextId' \in Nat /\ nextId <= nextId'
         /\ \E S \in SUBSET Ids, q \in Rows :
              /\ Write(c, S, q)
              /\ \A i \in S :
                   \/ /\ nextId <= i /\ i < nextId' /\ ~q[i].isPending
                      /\ \E j \in snap[c] : q[i].payload = View(c)[j].payload
                   \/ /\ i \in target[c] /\ ~q[i].live
                      /\ q[i].payload = View(c)[i].payload
                      /\ q[i].isPending = View(c)[i].isPending
              /\ \A j \in snap[c] : \E i \in S : q[i].live /\ q[i].payload = View(c)[j].payload
<1> USE DEF TypeOK
<1> DEFINE new == nextId .. (nextId + Cardinality(snap[c]) - 1)
           rows(src) == [i \in Ids |->
                 IF i \in new
                 THEN NewRow(View(c)[src[i]].payload, AppCnt(ds[c]) + (i - nextId))
                 ELSE [View(c)[i] EXCEPT !.live = FALSE]]
<1>1. PICK src \in [new -> snap[c]] :
        /\ \A k, l \in new : k < l => src[k] # src[l]
        /\ Write(c, target[c] \cup new, rows(src))
  BY DEF RecreateQueue
<1>2. new \subseteq Ids /\ target[c] \subseteq Ids /\ snap[c] \subseteq Ids
  BY DEF RecreateQueue, LocalTypes
<1>3. \A i \in new : AppCnt(ds[c]) + (i - nextId) \in Nat
  <2>1. AppCnt(ds[c]) \in Nat
    BY DEF AppCnt, Counters, LocalTypes
  <2> QED
    BY <2>1, SnapFinite DEF StoreTypes
<1>4. \A i \in new : View(c)[src[i]].payload \in Payloads \cup {None}
  BY <1>2, ViewType, RowPayload
<1>5. rows(src) \in Rows
  <2>1. ASSUME NEW i \in Ids PROVE rows(src)[i] \in DeviceQueueItem
    <3>1. CASE i \in new
      BY <1>3, <1>4, <3>1, NewRowType
    <3>2. CASE i \notin new
      BY <3>2, ViewType, DeadRowType
    <3> QED
      BY <3>1, <3>2
  <2> QED
    BY <2>1 DEF Rows
<1>6. nextId' = nextId + Cardinality(snap[c]) /\ nextId \in Nat /\ Cardinality(snap[c]) \in Nat
  BY SnapFinite DEF RecreateQueue, StoreTypes
<1>7. ASSUME NEW i \in target[c] \cup new
      PROVE  \/ /\ nextId <= i /\ i < nextId' /\ ~rows(src)[i].isPending
                /\ \E j \in snap[c] : rows(src)[i].payload = View(c)[j].payload
             \/ /\ i \in target[c] /\ ~rows(src)[i].live
                /\ rows(src)[i].payload = View(c)[i].payload
                /\ rows(src)[i].isPending = View(c)[i].isPending
  <2>1. CASE i \in new
    <3>1. nextId <= i /\ i < nextId'
      BY <1>6, <2>1
    <3>2. ~rows(src)[i].isPending /\ rows(src)[i].payload = View(c)[src[i]].payload
      BY <1>2, <2>1 DEF NewRow
    <3>3. src[i] \in snap[c]
      BY <2>1
    <3> QED
      BY <3>1, <3>2, <3>3
  <2>2. CASE i \notin new
    <3>1. i \in target[c] /\ i \in Ids
      BY <1>2, <2>2
    <3>2. View(c)[i] \in DeviceQueueItem
      BY <3>1, ViewType DEF Rows
    <3>3. rows(src)[i] = [View(c)[i] EXCEPT !.live = FALSE]
      BY <2>2, <3>1
    <3> QED
      BY <3>1, <3>2, <3>3 DEF DeviceQueueItem
  <2> QED
    BY <2>1, <2>2
<1>8. target[c] \cup new \in SUBSET Ids
  BY <1>2
<1>9. nextId' \in Nat /\ nextId <= nextId'
  BY <1>6
<1>10. ASSUME NEW j \in snap[c]
       PROVE  \E i \in target[c] \cup new :
                rows(src)[i].live /\ rows(src)[i].payload = View(c)[j].payload
  <2>1. IsFiniteSet(snap[c]) /\ IsFiniteSet(new) /\ Cardinality(new) = Cardinality(snap[c])
    <3>1. ASSUME NEW m \in Nat, NEW k \in Nat
          PROVE  IsFiniteSet(m .. (m + k - 1)) /\ Cardinality(m .. (m + k - 1)) = k
      <4>1. m + k - 1 \in Int /\ m \in Int
        OBVIOUS
      <4>2. /\ IsFiniteSet(m .. (m + k - 1))
            /\ Cardinality(m .. (m + k - 1)) =
                 IF m > m + k - 1 THEN 0 ELSE (m + k - 1) - m + 1
        BY <4>1, FS_Interval, Zenon
      <4> QED
        BY <4>2
    <3> QED
      BY <1>6, <3>1, SnapFinite
  <2>2. src \in Injection(new, snap[c])
    <3>1. \A k \in new : k \in Int
      BY <1>6
    <3>2. \A k, l \in new : src[k] = src[l] => k = l
      <4> HIDE DEF new
      <4> QED
        BY <1>1, <3>1
    <3> HIDE DEF new
    <3> QED
      BY <1>1, <3>2 DEF Injection, IsInjective
  <2>3. PICK i \in new : src[i] = j
    <3> HIDE DEF new
    <3>1. src \in Surjection(new, snap[c])
      BY <2>1, <2>2, FS_Injection
    <3> QED
      BY <3>1 DEF Surjection
  <2>4. rows(src)[i].live /\ rows(src)[i].payload = View(c)[j].payload
    BY <1>2, <2>3 DEF NewRow
  <2> HIDE DEF new, rows
  <2> QED
    BY <2>3, <2>4
<1> HIDE DEF new, rows
<1> QED
  BY <1>1, <1>5, <1>7, <1>8, <1>9, <1>10

\* Every step keeps the device-queue and its transaction well-typed.
LEMMA StoreStep == TypeOK /\ ItemKnown /\ [Next]_vars => StoreTypes'
<1> SUFFICES ASSUME TypeOK, ItemKnown, [Next]_vars PROVE StoreTypes'
  OBVIOUS
<1> USE DEF TypeOK
<1>0. ASSUME UNCHANGED dbVars, session' \in Counters PROVE StoreTypes'
  BY <1>0 DEF dbVars, StoreTypes
<1>1. ASSUME NEW c \in Procs, NEW i \in Ids, Delete(c, i), UNCHANGED <<session, nextId>>
      PROVE  StoreTypes'
  BY <1>1, DeleteType DEF StoreTypes, Rows
<1>2. \A c \in Procs : ds[c] \in Counters
  BY DEF LocalTypes
<1>3. ASSUME NEW u \in Uplinks, UplinkStep(u) PROVE StoreTypes'
  <2>0. u \in Procs
    BY DEF Procs
  <2>1. CASE UplinkACKDelete(u) \/ UplinkACKASError(u)
    BY <1>1, <2>0, <2>1 DEF UplinkACKDelete, UplinkACKASError, ItemKnown
  <2> QED
    BY <1>0, <1>2, <1>3, <2>0, <2>1 DEF UplinkStep, UplinkGetSession, UplinkSaveSession,
         UplinkACK, UplinkACKGone, StoreTypes
<1>4. ASSUME NEW c \in Uplinks \cup Schedulers, QueueStep(c) PROVE StoreTypes'
  <2>0. c \in Procs
    BY DEF Procs
  <2>1. CASE DropItem(c) \/ DropItemASError(c)
    BY <1>1, <2>0, <2>1 DEF DropItem, DropItemASError, ItemKnown
  <2>2. CASE RecreateQueue(c)
    <3>1. nextId' \in Nat \ {0} /\ session' = session
      <4>1. nextId' \in Nat /\ nextId <= nextId'
        BY <2>0, <2>2, RecreateEffect
      <4>2. session' = session
        BY <2>2 DEF RecreateQueue
      <4> QED
        BY <4>1, <4>2 DEF StoreTypes
    <3>2. /\ queue' \in Rows /\ txQueue' \in Rows
          /\ dirty' \in SUBSET Ids /\ devLock' = devLock
      BY <2>0, <2>2, RecreateEffect, WriteType
    <3> QED
      BY <3>1, <3>2 DEF StoreTypes, Rows
  <2> QED
    BY <1>0, <1>2, <1>4, <2>0, <2>1, <2>2 DEF QueueStep, NextItem, DropItemGone, ReadQueue,
         FlushQueue, ReencryptError, NothingSent, SendFrame, StoreTypes
<1>5. ASSUME NEW s \in Schedulers, SchedulerStep(s) PROVE StoreTypes'
  <2>0. s \in Procs
    BY DEF Procs
  <2>1. CASE LockSelected(s)
    BY <2>0, <2>1 DEF LockSelected, StoreTypes
  <2>2. CASE SetRetryAfter(s)
    <3> DEFINE q == [View(s) EXCEPT ![item[s].id].isPending = item[s].isPending,
                                    ![item[s].id].retryAfter = "future"]
    <3>1. item[s].id \in Ids /\ item[s].isPending \in BOOLEAN
      BY <2>0, <2>2 DEF SetRetryAfter, ItemKnown, LocalTypes, ItemRead
    <3>2. q \in Rows
      BY <3>1, ViewType DEF Rows, DeviceQueueItem, Times
    <3>3. CASE Write(s, {item[s].id}, q)
      <4> HIDE DEF q
      <4> QED
        BY <2>2, <3>1, <3>2, <3>3, WriteType DEF SetRetryAfter, StoreTypes, Rows
    <3>4. CASE UNCHANGED <<queue, devLock, dirty, txQueue>>
      BY <2>2, <3>4 DEF SetRetryAfter, StoreTypes
    <3> QED
      BY <2>2, <3>3, <3>4 DEF SetRetryAfter
  <2>3. CASE AbortTransaction(s)
    BY <2>3, ConstantsInType DEF AbortTransaction, Rollback, StoreTypes
  <2> QED
    BY <1>0, <1>5, <2>1, <2>2, <2>3 DEF SchedulerStep, SelectDevice, SchedulerGetSession,
         SchedulerSkip, StoreTypes
<1>6. ASSUME NEW a \in AckHandlers, AckStep(a) PROVE StoreTypes'
  <2>0. a \in Procs
    BY DEF Procs
  <2>1. CASE LockDevice(a) \/ TXAckItemGone(a)
    BY <2>0, <2>1 DEF LockDevice, TXAckItemGone, StoreTypes
  <2>2. CASE ApplyTXAck(a)
    <3> DEFINE i == frames[job[a].token].id
               q == [View(a) EXCEPT ![i] = PendingItem(View(a)[i])]
    <3>1. i \in Ids /\ UNCHANGED <<session, nextId>>
      BY <2>2 DEF ApplyTXAck
    <3>2. Write(a, {i}, q) \/ Delete(a, i)
      BY <2>2 DEF ApplyTXAck
    <3>3. PendingItem(View(a)[i]) \in DeviceQueueItem
      BY <3>1, ViewType, PendingItemType DEF Rows
    <3>4. q \in Rows
      BY <3>1, <3>3, ViewType DEF Rows
    <3> HIDE DEF i, q
    <3> QED
      BY <1>1, <2>0, <3>1, <3>2, <3>4, WriteType DEF StoreTypes, Rows
  <2>3. CASE AckSaveSession(a) \/ AckSaveSessionMAC(a)
    <3>1. \A k \in Counters : [k EXCEPT !.n = @ + 1] \in Counters /\ [k EXCEPT !.a = @ + 1] \in Counters
      BY DEF Counters
    <3>2. session' \in Counters
      BY <1>2, <2>0, <2>3, <3>1 DEF AckSaveSession, AckSaveSessionMAC, Incremented
    <3> QED
      BY <1>0, <2>3, <3>2 DEF AckSaveSession, AckSaveSessionMAC
  <2> QED
    BY <1>0, <1>6, <2>1, <2>2, <2>3 DEF AckStep, ReceiveTXAck, AckGetSession, StoreTypes
<1>7. ASSUME NEW c \in Procs, Commit(c) PROVE StoreTypes'
  BY <1>7, ViewType, ConstantsInType DEF Commit, StoreTypes, Rows
<1>8. ASSUME NEW c \in Procs, Crash(c) PROVE StoreTypes'
  BY <1>8, ConstantsInType DEF Crash, Rollback, StoreTypes
<1>9. ASSUME NEW p \in Payloads, CreateDeviceQueueItem(p) PROVE StoreTypes'
  <2>1. NewRow(p, asFCnt) \in DeviceQueueItem
    BY <1>9, NewRowType DEF CreateDeviceQueueItem, NetTypes
  <2> QED
    BY <1>9, <2>1 DEF CreateDeviceQueueItem, StoreTypes
<1>10. ASSUME NEW f \in Flushers, FlushEnd(f) PROVE StoreTypes'
  <2>1. target[f] \in SUBSET Ids
    BY DEF LocalTypes, Procs
  <2>2. [i \in Ids |-> [queue[i] EXCEPT !.live = FALSE]] \in Rows
    BY DeadRowType DEF Rows, StoreTypes
  <2> QED
    BY <1>10, <2>1, <2>2, WriteType DEF FlushEnd, StoreTypes, Rows
<1>11. ASSUME NEW i \in Ids, TimeoutPasses(i) \/ RetryPasses(i) PROVE StoreTypes'
  <2>1. \A t \in Times : Later(t) \in Times
    BY DEF Later, Times
  <2>2. ASSUME NEW q \in Rows
        PROVE  /\ [q EXCEPT ![i].timeoutAfter = Later(@)] \in Rows
               /\ [q EXCEPT ![i].retryAfter = Later(@)] \in Rows
    BY <2>1 DEF Rows, DeviceQueueItem
  <2> QED
    BY <1>11, <2>2 DEF TimeoutPasses, RetryPasses, StoreTypes, Rows
<1> QED
  BY <1>0, <1>3, <1>4, <1>5, <1>6, <1>7, <1>8, <1>9, <1>10, <1>11
  DEF Next, EnvStep, vars, Procs, GetNextDownlinkFCnt, FlushStart, Transmit, StoreTypes

-----------------------------------------------------------------------------
(* What a statement does to the table *)

\* A write changes exactly the rows it names, as their last writer left them; the
\* committed rows only if they are not written by an open transaction.
LEMMA WriteEffect ==
  ASSUME StoreTypes, NEW c, NEW S \in SUBSET Ids, NEW q, Write(c, S, q)
  PROVE  /\ \A i \in S : Latest(i)' = q[i] /\ View(c)[i] = Latest(i)
         /\ \A i \in Ids \ S : Latest(i)' = Latest(i)
         /\ \A i \in Ids : queue'[i] = queue[i] \/ (i \in S \ dirty /\ queue'[i] = q[i])
         /\ \A i \in dirty' : \/ i \in dirty /\ txQueue'[i] = txQueue[i]
                              \/ i \in S /\ txQueue'[i] = q[i]
         /\ devLock = c => queue' = queue
         /\ devLock # c => dirty' = dirty /\ txQueue' = txQueue /\ S \cap dirty = {}
         /\ devLock' = devLock
<1> USE DEF StoreTypes
<1>1. CASE devLock = c
  <2>1. /\ dirty' = dirty \cup S
        /\ \A i \in Ids : txQueue'[i] = IF i \in S THEN q[i] ELSE txQueue[i]
        /\ UNCHANGED <<queue, devLock>>
    BY <1>1 DEF Write
  <2>2. \A i \in Ids : Latest(i)' = IF i \in S THEN q[i] ELSE Latest(i)
    BY <2>1 DEF Latest
  <2>3. \A i \in S : View(c)[i] = Latest(i)
    BY <1>1 DEF View, Latest
  <2> QED
    BY <1>1, <2>1, <2>2, <2>3
<1>2. CASE devLock # c
  <2>1. /\ S \cap dirty = {}
        /\ \A i \in Ids : queue'[i] = IF i \in S THEN q[i] ELSE queue[i]
        /\ UNCHANGED <<devLock, dirty, txQueue>>
    BY <1>2 DEF Write
  <2>2. \A i \in Ids : Latest(i)' = IF i \in S THEN q[i] ELSE Latest(i)
    BY <2>1 DEF Latest
  <2>3. \A i \in S : View(c)[i] = Latest(i)
    BY <1>2, <2>1 DEF View, Latest
  <2> QED
    BY <1>2, <2>1, <2>2, <2>3
<1> QED
  BY <1>1, <1>2

\* A deleted row existed and is dead afterwards; nothing else changes.
LEMMA DeleteEffect ==
  ASSUME StoreTypes, NEW c, NEW i \in Ids, Delete(c, i)
  PROVE  /\ Latest(i).live /\ ~(Latest(i)').live
         /\ \A j \in Ids \ {i} : Latest(j)' = Latest(j)
         /\ \A j \in Ids : \/ queue'[j] = queue[j]
                           \/ j = i /\ queue'[j] = [queue[j] EXCEPT !.live = FALSE]
         /\ \A j \in dirty' : \/ j \in dirty /\ txQueue'[j] = txQueue[j]
                              \/ j = i /\ txQueue'[j] = [Latest(j) EXCEPT !.live = FALSE]
         /\ devLock # c => dirty' = dirty /\ i \notin dirty
         /\ devLock' = devLock
<1> DEFINE q == [View(c) EXCEPT ![i].live = FALSE]
<1>1. View(c) \in Rows
  BY ViewType
<1>2. q[i] = [View(c)[i] EXCEPT !.live = FALSE] /\ ~q[i].live
  BY <1>1 DEF Rows, DeviceQueueItem
<1>3. Write(c, {i}, q) /\ View(c)[i].live
  BY DEF Delete
<1> HIDE DEF q
<1>4. View(c)[i] = Latest(i)
  BY <1>3, WriteEffect
<1>5. CASE devLock = c
  <2>1. /\ dirty' = dirty \cup {i}
        /\ txQueue'[i] = q[i]
        /\ \A j \in Ids \ {i} : txQueue'[j] = txQueue[j]
        /\ UNCHANGED <<queue, devLock>>
    BY <1>3, <1>5 DEF Write
  <2> QED
    BY <1>2, <1>3, <1>4, <1>5, <2>1 DEF Latest, StoreTypes
<1>6. CASE devLock # c
  <2>1. /\ i \notin dirty
        /\ queue'[i] = q[i]
        /\ \A j \in Ids \ {i} : queue'[j] = queue[j]
        /\ UNCHANGED <<devLock, dirty, txQueue>>
    BY <1>3, <1>6 DEF Write
  <2> QED
    BY <1>2, <1>3, <1>4, <1>6, <2>1 DEF Latest, StoreTypes
<1> QED
  BY <1>5, <1>6

\* Time changes nothing but what the two deadlines look like.
LEMMA TimeEffect ==
  ASSUME StoreTypes, NEW i \in Ids, TimeoutPasses(i) \/ RetryPasses(i), NEW j \in Ids
  PROVE  /\ queue'[j].live = queue[j].live
         /\ queue'[j].isPending = queue[j].isPending
         /\ queue'[j].payload = queue[j].payload
         /\ txQueue'[j].live = txQueue[j].live
         /\ txQueue'[j].isPending = txQueue[j].isPending
         /\ txQueue'[j].payload = txQueue[j].payload
         /\ dirty' = dirty
<1> DEFINE Same(r, t) == r.live = t.live /\ r.isPending = t.isPending /\ r.payload = t.payload
<1>1. ASSUME NEW q \in Rows, NEW later
      PROVE  /\ Same([q EXCEPT ![i].timeoutAfter = later][j], q[j])
             /\ Same([q EXCEPT ![i].retryAfter = later][j], q[j])
  <2>1. q[j] \in DeviceQueueItem
    BY DEF Rows
  <2>2. CASE i = j
    BY <2>1, <2>2 DEF Rows, DeviceQueueItem
  <2>3. CASE i # j
    BY <2>3 DEF Rows
  <2> QED
    BY <2>2, <2>3
<1>2. Same(queue'[j], queue[j]) /\ Same(txQueue'[j], txQueue[j])
  <2> HIDE DEF Same
  <2> QED
    BY <1>1 DEF TimeoutPasses, RetryPasses, StoreTypes, Rows
<1> QED
  BY <1>2 DEF TimeoutPasses, RetryPasses

-----------------------------------------------------------------------------
\* Every step preserves Locking: one holder, and only it has dirty rows.
LEMMA LockingStep ==
  TypeOK /\ ItemKnown /\ Locking /\ [Next]_vars => Locking'
<1> SUFFICES ASSUME TypeOK, ItemKnown, Locking, [Next]_vars PROVE Locking'
  OBVIOUS
<1> DEFINE Only(c) == \A d \in Procs \ {c} : pc'[d] = pc[d]
<1>1. ASSUME NEW c \in Procs, Only(c), UNCHANGED <<devLock, dirty>>,
             Holding(c)' <=> Holding(c), pc'[c] \notin {"sessionAck", "applyAck"}
      PROVE  Locking'
  BY <1>1 DEF Locking, Holding, Procs
<1>2. ASSUME NEW c \in Procs, Only(c), devLock = c, devLock' = c, Holding(c)',
             pc'[c] \notin {"sessionAck", "applyAck"}
      PROVE  Locking'
  BY <1>2, ConstantTypes, ProcsDisjoint DEF Locking, Holding, Procs
<1>3. ASSUME NEW c \in Procs, Only(c), devLock = c, devLock' = None, dirty' = {}, ~Holding(c)'
      PROVE  Locking'
  BY <1>3, ConstantTypes DEF Locking, Holding, Procs
<1>4. ASSUME NEW c \in Procs, Only(c), devLock = None, devLock' = c, dirty' = dirty, Holding(c)'
      PROVE  Locking'
  BY <1>4, ConstantTypes DEF Locking, Holding, Procs
<1>5. ASSUME NEW c \in Procs, NEW step, Goto(c, step) PROVE Only(c) /\ pc'[c] = step
  BY <1>5 DEF Goto, TypeOK, LocalTypes
<1>6. ASSUME NEW c \in Procs, NEW step, Forget(c, step) PROVE Only(c) /\ pc'[c] = step
  BY <1>5, <1>6 DEF Forget
<1> HIDE DEF Only
<1>7. ASSUME NEW c \in Uplinks, UplinkStep(c) PROVE Locking'
  <2>0. c \in Procs /\ ~Holding(c) /\ ~Holding(c)' /\ devLock # c
    BY ProcsDisjoint DEF Procs, Locking, Holding
  <2>1. CASE UplinkGetSession(c) \/ UplinkSaveSession(c) \/ UplinkACK(c)
    BY <1>1, <1>5, <2>0, <2>1 DEF UplinkGetSession, UplinkSaveSession, UplinkACK, dbVars
  <2>2. CASE UplinkACKDelete(c)
    <3>1. UNCHANGED <<devLock, dirty>>
      BY <2>0, <2>2, DeleteEffect DEF UplinkACKDelete, ItemKnown, TypeOK
    <3> QED
      BY <1>1, <1>5, <2>0, <2>2, <3>1 DEF UplinkACKDelete
  <2>3. CASE UplinkACKASError(c)
    <3>1. UNCHANGED <<devLock, dirty>>
      BY <2>0, <2>3, DeleteEffect DEF UplinkACKASError, ItemKnown, TypeOK
    <3> QED
      BY <1>1, <1>6, <2>0, <2>3, <3>1 DEF UplinkACKASError, Stop
  <2>4. CASE UplinkACKGone(c)
    BY <1>1, <1>6, <2>0, <2>4 DEF UplinkACKGone, Stop, dbVars
  <2> QED
    BY <1>7, <2>1, <2>2, <2>3, <2>4 DEF UplinkStep
<1>8. ASSUME NEW c \in Uplinks \cup Schedulers, QueueStep(c) PROVE Locking'
  <2>0. c \in Procs
    BY DEF Procs
  <2>1. devLock' = devLock /\ (devLock # c => dirty' = dirty)
    <3>1. CASE DropItem(c) \/ DropItemASError(c)
      BY <2>0, <3>1, DeleteEffect DEF DropItem, DropItemASError, ItemKnown, TypeOK
    <3>2. CASE RecreateQueue(c)
      BY <3>2 DEF RecreateQueue, Write
    <3> QED
      BY <1>8, <3>1, <3>2 DEF QueueStep, NextItem, DropItemGone, ReadQueue, FlushQueue,
           ReencryptError, NothingSent, SendFrame, dbVars
  <2>2. pc[c] \in {"next", "drop", "snapshot", "reencrypt", "recreate", "compose"}
    BY <1>8 DEF QueueStep, NextItem, DropItem, DropItemASError, DropItemGone, ReadQueue,
         FlushQueue, RecreateQueue, ReencryptError, NothingSent, SendFrame
  <2>3. /\ Only(c)
        /\ pc'[c] \in {"next", "drop", "snapshot", "reencrypt", "recreate", "compose",
                       "idle", "retry", "commit"}
        /\ c \in Schedulers => pc'[c] # "idle"
    <3>1. CASE NextItem(c)
      BY <1>5, <2>0, <3>1 DEF NextItem
    <3>2. CASE DropItem(c) \/ ReadQueue(c) \/ FlushQueue(c) \/ RecreateQueue(c)
      BY <1>5, <2>0, <3>2 DEF DropItem, ReadQueue, FlushQueue, RecreateQueue
    <3>3. CASE DropItemASError(c) \/ DropItemGone(c) \/ ReencryptError(c) \/ NothingSent(c)
      BY <1>6, <2>0, <3>3 DEF DropItemASError, DropItemGone, ReencryptError, NothingSent, Leave
    <3>4. CASE SendFrame(c)
      BY <1>5, <1>6, <2>0, <3>4 DEF SendFrame, Stop
    <3> QED
      BY <1>8, <3>1, <3>2, <3>3, <3>4 DEF QueueStep
  <2>4. CASE c \in Schedulers
    <3>1. Holding(c) /\ Holding(c)'
      BY <2>2, <2>3, <2>4 DEF Holding
    <3>2. devLock = c
      BY <2>0, <3>1 DEF Locking
    <3> QED
      BY <1>2, <2>0, <2>1, <2>3, <3>1, <3>2
  <2>5. CASE c \in Uplinks
    <3>1. ~Holding(c) /\ ~Holding(c)'
      BY <2>5, ProcsDisjoint DEF Holding
    <3>2. devLock # c
      BY <2>0, <3>1 DEF Locking
    <3> QED
      BY <1>1, <2>0, <2>1, <2>3, <3>1, <3>2
  <2> QED
    BY <2>4, <2>5
<1>9. ASSUME NEW s \in Schedulers, SchedulerStep(s) PROVE Locking'
  <2>0. s \in Procs
    BY DEF Procs
  <2>1. CASE SelectDevice(s)
    BY <1>1, <1>5, <2>0, <2>1, ProcsDisjoint DEF SelectDevice, Holding, dbVars
  <2>2. CASE LockSelected(s)
    BY <1>1, <1>4, <1>5, <2>0, <2>2, ProcsDisjoint DEF LockSelected, Holding
  <2>3. ASSUME pc[s] \in {"session", "retry", "recreate"} PROVE devLock = s
    BY <2>0, <2>3 DEF Locking, Holding
  <2>4. CASE SchedulerGetSession(s) \/ SchedulerSkip(s)
    <3>1. Only(s) /\ pc'[s] \in {"next", "commit"} /\ devLock = s /\ devLock' = devLock
      BY <1>5, <2>0, <2>3, <2>4 DEF SchedulerGetSession, SchedulerSkip, dbVars
    <3>2. Holding(s)'
      BY <3>1 DEF Holding
    <3> QED
      BY <1>2, <2>0, <3>1, <3>2
  <2>5. CASE SetRetryAfter(s)
    <3>1. Only(s) /\ pc'[s] = "commit" /\ devLock = s /\ devLock' = devLock
      BY <1>6, <2>0, <2>3, <2>5 DEF SetRetryAfter, Write
    <3>2. Holding(s)'
      BY <3>1 DEF Holding
    <3> QED
      BY <1>2, <2>0, <3>1, <3>2
  <2>6. CASE AbortTransaction(s)
    <3>1. Only(s) /\ pc'[s] = "idle" /\ devLock = s /\ devLock' = None /\ dirty' = {}
      BY <1>6, <2>0, <2>3, <2>6 DEF AbortTransaction, Rollback, Stop
    <3>2. ~Holding(s)'
      BY <3>1 DEF Holding
    <3> QED
      BY <1>3, <2>0, <3>1, <3>2
  <2> QED
    BY <1>9, <2>1, <2>2, <2>4, <2>5, <2>6 DEF SchedulerStep
<1>10. ASSUME NEW a \in AckHandlers, AckStep(a) PROVE Locking'
  <2>0. a \in Procs /\ a \notin Schedulers
    BY ProcsDisjoint DEF Procs
  <2>1. CASE \E m \in txAcks : ReceiveTXAck(a, m)
    <3>1. Only(a) /\ UNCHANGED <<devLock, dirty>>
      BY <1>5, <2>0, <2>1 DEF ReceiveTXAck, dbVars, Only
    <3>2. pc[a] = "idle" /\ pc'[a] \in {"idle", "lockAck", "sessionMAC"}
      BY <1>5, <2>0, <2>1 DEF ReceiveTXAck
    <3>3. ~Holding(a) /\ ~Holding(a)'
      BY <2>0, <3>2 DEF Holding
    <3> QED
      BY <1>1, <2>0, <3>1, <3>2, <3>3
  <2>2. CASE LockDevice(a)
    BY <1>4, <1>5, <2>0, <2>2 DEF LockDevice, Holding
  <2>3. CASE AckGetSession(a) /\ pc[a] = "sessionAck"
    <3>1. Only(a) /\ pc'[a] = "applyAck" /\ UNCHANGED <<devLock, dirty>>
      BY <1>5, <2>0, <2>3 DEF AckGetSession, dbVars
    <3>2. devLock = a /\ dirty = {}
      BY <2>0, <2>3 DEF Locking, Holding
    <3> QED
      BY <2>0, <2>3, <3>1, <3>2, ConstantTypes DEF Locking, Holding, Procs, Only
  <2>4. CASE AckGetSession(a) /\ pc[a] = "sessionMAC"
    <3>1. Only(a) /\ pc'[a] = "bumpMAC" /\ UNCHANGED <<devLock, dirty>>
      BY <1>5, <2>0, <2>4 DEF AckGetSession, dbVars
    <3>2. ~Holding(a) /\ ~Holding(a)'
      BY <2>0, <2>4, <3>1 DEF Holding
    <3> QED
      BY <1>1, <2>0, <3>1, <3>2
  <2>5. CASE ApplyTXAck(a)
    <3>1. Only(a) /\ pc'[a] = "bump" /\ devLock' = devLock
      BY <1>5, <2>0, <2>5 DEF ApplyTXAck, Delete, Write
    <3>2. devLock = a /\ Holding(a)'
      BY <2>0, <2>5, <3>1 DEF ApplyTXAck, Locking, Holding
    <3> QED
      BY <1>2, <2>0, <3>1, <3>2
  <2>6. CASE TXAckItemGone(a)
    <3>1. Only(a) /\ pc'[a] = "idle" /\ devLock' = None
      BY <1>6, <2>0, <2>6 DEF TXAckItemGone, Stop
    <3>2. devLock = a /\ dirty' = {} /\ ~Holding(a)'
      BY <2>0, <2>6, <3>1 DEF TXAckItemGone, Locking, Holding
    <3> QED
      BY <1>3, <2>0, <3>1, <3>2
  <2>7. CASE AckSaveSession(a)
    <3>1. Only(a) /\ pc'[a] = "commit" /\ devLock' = devLock
      BY <1>6, <2>0, <2>7 DEF AckSaveSession, dbVars
    <3>2. devLock = a /\ Holding(a)'
      BY <2>0, <2>7, <3>1 DEF AckSaveSession, Locking, Holding
    <3> QED
      BY <1>2, <2>0, <3>1, <3>2
  <2>8. CASE AckSaveSessionMAC(a)
    <3>1. Only(a) /\ pc'[a] = "idle" /\ UNCHANGED <<devLock, dirty>>
      BY <1>6, <2>0, <2>8 DEF AckSaveSessionMAC, Stop, dbVars
    <3>2. ~Holding(a) /\ ~Holding(a)'
      BY <2>0, <2>8, <3>1 DEF AckSaveSessionMAC, Holding
    <3> QED
      BY <1>1, <2>0, <3>1, <3>2
  <2> QED
    BY <1>10, <2>1, <2>2, <2>3, <2>4, <2>5, <2>6, <2>7, <2>8 DEF AckStep, AckGetSession
<1>11. ASSUME NEW c \in Schedulers \cup AckHandlers, Commit(c) PROVE Locking'
  <2>1. c \in Procs /\ Only(c) /\ pc'[c] = "idle" /\ devLock' = None /\ dirty' = {}
    BY <1>6, <1>11 DEF Commit, Stop, Procs
  <2>2. devLock = c /\ ~Holding(c)'
    BY <1>11, <2>1 DEF Commit, Locking, Holding
  <2> QED
    BY <1>3, <2>1, <2>2
<1>12. ASSUME NEW c \in Procs, Crash(c) PROVE Locking'
  <2>1. Only(c) /\ pc'[c] = "idle"
    BY <1>6, <1>12 DEF Crash, Stop
  <2>2. ~Holding(c)'
    BY <2>1 DEF Holding
  <2>3. CASE devLock = c
    BY <1>3, <1>12, <2>1, <2>2, <2>3 DEF Crash, Rollback
  <2>4. CASE devLock # c
    <3>1. ~Holding(c) /\ UNCHANGED <<devLock, dirty>>
      BY <1>12, <2>4 DEF Crash, Locking
    <3> QED
      BY <1>1, <2>1, <2>2, <3>1
  <2> QED
    BY <2>3, <2>4
<1>13. ASSUME NEW f \in Flushers, FlushStart(f) \/ FlushEnd(f) PROVE Locking'
  <2>0. f \in Procs /\ ~Holding(f) /\ ~Holding(f)'
    BY ProcsDisjoint DEF Procs, Holding
  <2>1. devLock # f
    BY <2>0 DEF Locking
  <2>2. UNCHANGED <<devLock, dirty>>
    BY <1>13, <2>1 DEF FlushStart, FlushEnd, Write, dbVars
  <2>3. Only(f) /\ pc'[f] \in {"idle", "flush"}
    BY <1>5, <1>6, <1>13, <2>0 DEF FlushStart, FlushEnd, Stop
  <2> QED
    BY <1>1, <2>0, <2>2, <2>3
<1>14. ASSUME UNCHANGED <<pc, devLock, dirty>> PROVE Locking'
  BY <1>14 DEF Locking, Holding
<1> QED
  BY <1>7, <1>8, <1>9, <1>10, <1>11, <1>12, <1>13, <1>14
  DEF Next, EnvStep, vars, dbVars, localVars, Procs, GetNextDownlinkFCnt,
      CreateDeviceQueueItem, Transmit, TimeoutPasses, RetryPasses

-----------------------------------------------------------------------------
\* A row that somebody sees has an id the sequence has produced.
LEMMA UsedId ==
  ASSUME StoreTypes, Fresh, NEW c, NEW i \in Ids, Latest(i).live \/ View(c)[i].live
  PROVE  i < nextId
  BY DEF StoreTypes, Fresh, Latest, View, Ids

\* Every step preserves Fresh: no id is inserted twice.
LEMMA FreshStep == TypeOK /\ ItemKnown /\ Fresh /\ [Next]_vars => Fresh'
<1> SUFFICES ASSUME TypeOK, ItemKnown, Fresh, [Next]_vars PROVE Fresh'
  OBVIOUS
<1> USE DEF TypeOK
<1> DEFINE Fewer == \A c \in Procs : target'[c] \subseteq target[c]
<1>1. ASSUME UNCHANGED <<queue, nextId, dirty, outcomes>>, Fewer PROVE Fresh'
  BY <1>1 DEF Fresh
<1>2. ASSUME NEW c, NEW i \in Ids, Delete(c, i), nextId' = nextId, Fewer,
             \A j \in Ids \ {i} : outcomes'[j] = outcomes[j]
      PROVE  Fresh'
  <2>1. i < nextId
    BY <1>2, DeleteEffect, UsedId
  <2>2. \A j \in Ids \ {i} : queue'[j] = queue[j] /\ (j \in dirty' => j \in dirty)
    BY <1>2, DeleteEffect
  <2> QED
    BY <1>2, <2>1, <2>2 DEF Fresh, StoreTypes, Ids
<1>3. ASSUME NEW c \in Procs, NEW step, Forget(c, step) PROVE Fewer
  BY <1>3 DEF Forget, LocalTypes
<1>4. ASSUME NEW i \in Ids, Report(i) PROVE \A j \in Ids \ {i} : outcomes'[j] = outcomes[j]
  BY <1>4 DEF Report, HistTypes
<1>5. ASSUME NEW c \in Procs, target' = [target EXCEPT ![c] = LiveIds(View(c))],
             UNCHANGED <<queue, nextId, dirty, outcomes>>
      PROVE  Fresh'
  <2>1. \A i \in LiveIds(View(c)) : i < nextId
    BY UsedId DEF LiveIds
  <2> QED
    BY <1>5, <2>1 DEF Fresh, LocalTypes
<1>6. target' = target => Fewer
  OBVIOUS
<1> HIDE DEF Fewer
<1>7. ASSUME NEW u \in Uplinks, UplinkStep(u) PROVE Fresh'
  <2>0. u \in Procs
    BY DEF Procs
  <2>1. CASE UplinkGetSession(u) \/ UplinkSaveSession(u) \/ UplinkACK(u)
    BY <1>1, <1>6, <2>1 DEF UplinkGetSession, UplinkSaveSession, UplinkACK, dbVars, histVars
  <2>2. CASE UplinkACKDelete(u)
    BY <1>2, <1>4, <1>6, <2>0, <2>2 DEF UplinkACKDelete, ItemKnown
  <2>3. CASE UplinkACKASError(u)
    BY <1>2, <1>3, <2>0, <2>3 DEF UplinkACKASError, Stop, ItemKnown
  <2>4. CASE UplinkACKGone(u)
    BY <1>1, <1>3, <2>0, <2>4 DEF UplinkACKGone, Stop, dbVars, histVars
  <2> QED
    BY <1>7, <2>1, <2>2, <2>3, <2>4 DEF UplinkStep
<1>8. ASSUME NEW c \in Uplinks \cup Schedulers, QueueStep(c) PROVE Fresh'
  <2>0. c \in Procs
    BY DEF Procs
  <2>1. CASE NextItem(c) \/ ReadQueue(c)
    BY <1>1, <1>6, <2>1 DEF NextItem, ReadQueue, dbVars, histVars
  <2>2. CASE DropItem(c)
    BY <1>2, <1>4, <1>6, <2>0, <2>2 DEF DropItem, ItemKnown
  <2>3. CASE DropItemASError(c)
    BY <1>2, <1>3, <2>0, <2>3 DEF DropItemASError, Leave, ItemKnown
  <2>4. CASE DropItemGone(c) \/ ReencryptError(c) \/ NothingSent(c)
    BY <1>1, <1>3, <2>0, <2>4 DEF DropItemGone, ReencryptError, NothingSent, Leave, dbVars, histVars
  <2>5. CASE FlushQueue(c)
    BY <1>5, <2>0, <2>5 DEF FlushQueue, dbVars, histVars
  <2>6. CASE RecreateQueue(c)
    <3>1. PICK S \in SUBSET Ids, q \in Rows :
            /\ Write(c, S, q)
            /\ \A i \in S : (nextId <= i /\ i < nextId') \/ i \in target[c]
      BY <2>0, <2>6, RecreateEffect
    <3>2. nextId' \in Nat /\ nextId <= nextId'
      BY <2>0, <2>6, RecreateEffect
    <3>3. \A i \in S : i < nextId'
      BY <2>0, <3>1, <3>2 DEF Fresh, StoreTypes, Ids
    <3>4. \A i \in Ids \ S : queue'[i] = queue[i] /\ (i \in dirty' => i \in dirty)
      BY <3>1, WriteEffect
    <3>5. outcomes' = outcomes /\ \A d \in Procs : target'[d] \subseteq target[d]
      BY <2>6 DEF RecreateQueue, histVars, LocalTypes
    <3>6. \A i \in Ids : nextId' <= i => i \notin S /\ nextId <= i
      BY <3>2, <3>3 DEF StoreTypes, Ids
    <3>7. \A i \in Ids : nextId' <= i => ~queue'[i].live /\ i \notin dirty' /\ outcomes'[i] = 0
      BY <3>4, <3>5, <3>6 DEF Fresh
    <3>8. \A d \in Procs, i \in Ids : i \in target'[d] => i < nextId'
      BY <3>2, <3>5 DEF Fresh, StoreTypes, Ids
    <3> QED
      BY <3>7, <3>8 DEF Fresh
  <2>7. CASE SendFrame(c)
    BY <1>1, <1>3, <1>6, <2>0, <2>7 DEF SendFrame, Stop, dbVars, histVars
  <2> QED
    BY <1>8, <2>1, <2>2, <2>3, <2>4, <2>5, <2>6, <2>7 DEF QueueStep
<1>9. ASSUME NEW s \in Schedulers, SchedulerStep(s) PROVE Fresh'
  <2>0. s \in Procs
    BY DEF Procs
  <2>1. CASE SelectDevice(s) \/ LockSelected(s) \/ SchedulerGetSession(s) \/ SchedulerSkip(s)
    BY <1>1, <1>6, <2>1 DEF SelectDevice, LockSelected, SchedulerGetSession, SchedulerSkip,
                            dbVars, histVars
  <2>2. CASE SetRetryAfter(s) /\ View(s)[item[s].id].live
    <3>1. item[s].id \in Ids /\ item[s].id < nextId
      BY <2>0, <2>2, UsedId DEF SetRetryAfter, ItemKnown
    <3>2. Fewer /\ UNCHANGED <<nextId, outcomes>>
      BY <1>3, <2>0, <2>2 DEF SetRetryAfter, histVars
    <3>3. PICK q : Write(s, {item[s].id}, q)
      BY <2>2 DEF SetRetryAfter, Gone
    <3>4. \A j \in Ids \ {item[s].id} : queue'[j] = queue[j] /\ (j \in dirty' => j \in dirty)
      BY <3>1, <3>3 DEF Write, StoreTypes
    <3> QED
      BY <3>1, <3>2, <3>4 DEF Fresh, Fewer, StoreTypes, Ids
  <2>3. CASE SetRetryAfter(s) /\ ~View(s)[item[s].id].live
    BY <1>1, <1>3, <2>0, <2>3 DEF SetRetryAfter, histVars
  <2>4. CASE AbortTransaction(s)
    BY <1>3, <2>0, <2>4 DEF AbortTransaction, Rollback, Stop, Fresh, Fewer
  <2> QED
    BY <1>9, <2>1, <2>2, <2>3, <2>4 DEF SchedulerStep
<1>10. ASSUME NEW a \in AckHandlers, AckStep(a) PROVE Fresh'
  <2>0. a \in Procs
    BY DEF Procs
  <2>1. CASE (\E m \in txAcks : ReceiveTXAck(a, m)) \/ LockDevice(a) \/ AckGetSession(a)
    BY <1>1, <1>6, <2>1 DEF ReceiveTXAck, LockDevice, AckGetSession, dbVars, histVars
  <2>2. CASE ApplyTXAck(a)
    <3> DEFINE i == frames[job[a].token].id
    <3>1. i \in Ids /\ View(a)[i].live /\ UNCHANGED <<nextId, outcomes, target>>
      BY <2>2 DEF ApplyTXAck
    <3>2. \E q : Write(a, {i}, q)
      BY <2>2 DEF ApplyTXAck, Delete
    <3> HIDE DEF i
    <3>3. i < nextId
      BY <3>1, UsedId
    <3>4. \A j \in Ids \ {i} : queue'[j] = queue[j] /\ (j \in dirty' => j \in dirty)
      BY <3>1, <3>2 DEF Write, StoreTypes
    <3> QED
      BY <3>1, <3>3, <3>4 DEF Fresh, StoreTypes, Ids
  <2>3. CASE TXAckItemGone(a) \/ AckSaveSessionMAC(a) \/ AckSaveSession(a)
    BY <1>1, <1>3, <2>0, <2>3
    DEF TXAckItemGone, AckSaveSessionMAC, AckSaveSession, Stop, dbVars, histVars
  <2> QED
    BY <1>10, <2>1, <2>2, <2>3 DEF AckStep
<1>11. ASSUME NEW c \in Procs, Commit(c) PROVE Fresh'
  <2>1. \A i \in Ids : nextId <= i => ~View(c)[i].live
    BY UsedId DEF StoreTypes, Ids
  <2> QED
    BY <1>3, <1>11, <2>1 DEF Commit, Stop, Fresh, Fewer, histVars
<1>12. ASSUME NEW c \in Procs, Crash(c) PROVE Fresh'
  BY <1>3, <1>12 DEF Crash, Rollback, Stop, Fresh, Fewer
<1>13. ASSUME NEW p \in Payloads, CreateDeviceQueueItem(p) PROVE Fresh'
  <2>1. nextId' = nextId + 1 /\ UNCHANGED <<dirty, target, outcomes>> /\ nextId \in Ids
    BY <1>13 DEF CreateDeviceQueueItem, localVars
  <2>2. \A i \in Ids \ {nextId} : queue'[i] = queue[i]
    BY <1>13 DEF CreateDeviceQueueItem, StoreTypes
  <2> QED
    BY <2>1, <2>2 DEF Fresh, StoreTypes, Ids
<1>14. ASSUME NEW f \in Flushers, FlushStart(f) PROVE Fresh'
  BY <1>14 DEF FlushStart, LiveIds, Fresh, dbVars, histVars, LocalTypes, StoreTypes, Ids
<1>15. ASSUME NEW f \in Flushers, FlushEnd(f) PROVE Fresh'
  <2>0. f \in Procs
    BY DEF Procs
  <2>1. PICK q : Write(f, target[f], q)
    BY <1>15 DEF FlushEnd
  <2>2. target[f] \in SUBSET Ids /\ \A i \in target[f] : i < nextId
    BY <2>0 DEF LocalTypes, Fresh
  <2>3. \A j \in Ids \ target[f] : queue'[j] = queue[j] /\ (j \in dirty' => j \in dirty)
    BY <2>1, <2>2 DEF Write, StoreTypes
  <2>4. Fewer /\ UNCHANGED <<nextId, outcomes>>
    BY <1>3, <1>15, <2>0 DEF FlushEnd, Stop
  <2> QED
    BY <2>2, <2>3, <2>4 DEF Fresh, Fewer, StoreTypes, Ids
<1>16. ASSUME NEW i \in Ids, TimeoutPasses(i) \/ RetryPasses(i) PROVE Fresh'
  <2>1. \A j \in Ids : queue'[j].live = queue[j].live
    BY <1>16, TimeEffect
  <2>2. UNCHANGED <<nextId, dirty, outcomes, target>>
    BY <1>16 DEF TimeoutPasses, RetryPasses, localVars, histVars
  <2> QED
    BY <2>1, <2>2 DEF Fresh
<1> QED
  BY <1>1, <1>6, <1>7, <1>8, <1>9, <1>10, <1>11, <1>12, <1>13, <1>14, <1>15, <1>16
  DEF Next, EnvStep, vars, dbVars, localVars, histVars, Procs, GetNextDownlinkFCnt, Transmit

-----------------------------------------------------------------------------
(* is_pending *)

KeepsPending == \A i \in Ids : Pending(queue[i]) /\ queue'[i].live => queue'[i].isPending
NoNewPending == \A i \in Ids : Pending(queue'[i]) => Pending(queue[i])

\* A write that undoes no is_pending, and sets none outside the lock
LEMMA WriteKeeps ==
  ASSUME StoreTypes, TxKept, NEW c, NEW S \in SUBSET Ids, NEW q, Write(c, S, q),
         \A i \in S : Pending(queue[i]) /\ q[i].live => q[i].isPending,
         devLock # c => \A i \in S : ~Pending(q[i])
  PROVE  TxKept' /\ KeepsPending /\ NoNewPending
<1>1. CASE devLock = c
  <2>1. queue' = queue
    BY <1>1 DEF Write
  <2>2. \A i \in dirty' : \/ i \in dirty /\ txQueue'[i] = txQueue[i]
                          \/ i \in S /\ txQueue'[i] = q[i]
    BY WriteEffect
  <2>3. TxKept'
    BY <2>1, <2>2 DEF TxKept, Pending
  <2> QED
    BY <2>1, <2>3 DEF KeepsPending, NoNewPending, Pending
<1>2. CASE devLock # c
  <2>1. dirty' = dirty /\ txQueue' = txQueue /\ S \cap dirty = {}
    BY <1>2 DEF Write
  <2>2. \A i \in Ids : queue'[i] = IF i \in S THEN q[i] ELSE queue[i]
    BY <1>2 DEF Write
  <2>3. TxKept'
    BY <2>1, <2>2 DEF TxKept, Pending, StoreTypes
  <2> QED
    BY <1>2, <2>2, <2>3 DEF KeepsPending, NoNewPending, Pending
<1> QED
  BY <1>1, <1>2

\* Deleting a row does not clear the is_pending of another.
LEMMA DeleteKeeps ==
  ASSUME StoreTypes, TxKept, NEW c, NEW i \in Ids, Delete(c, i)
  PROVE  TxKept' /\ KeepsPending /\ NoNewPending
<1> DEFINE q == [View(c) EXCEPT ![i].live = FALSE]
<1>1. ~q[i].live
  BY ViewType DEF Rows, DeviceQueueItem
<1>2. Write(c, {i}, q)
  BY DEF Delete
<1>3. \A j \in {i} : ~q[j].live
  BY <1>1
<1> HIDE DEF q
<1> QED
  BY <1>2, <1>3, WriteKeeps DEF Pending

\* Every step preserves PendingKept: no uncommitted is_pending is undone.
LEMMA PendingStep ==
  TypeOK /\ ItemKnown /\ Locking /\ Fresh /\ PendingKept /\ [Next]_vars
    => PendingKept' /\ KeepsPending
<1> SUFFICES ASSUME TypeOK, ItemKnown, Locking, Fresh, PendingKept, [Next]_vars
             PROVE  PendingKept' /\ KeepsPending
  OBVIOUS
<1> USE DEF TypeOK
<1> DEFINE Table == TxKept' /\ KeepsPending /\ NoNewPending
           Read == \A s \in Schedulers : pc'[s] \in {"compose", "retry"} =>
                      pc[s] \in {"compose", "retry"} /\ item'[s] = item[s]
           Goal == PendingKept' /\ KeepsPending
<1>1. ASSUME Table, Read PROVE Goal
  BY <1>1 DEF PendingKept, ReadKept, NoNewPending
<1>2. ASSUME UNCHANGED <<queue, dirty, txQueue>> PROVE Table
  BY <1>2 DEF PendingKept, TxKept, KeepsPending, NoNewPending, Pending
<1>3. ASSUME NEW c \in Procs, NEW i \in Ids, Delete(c, i) PROVE Table
  BY <1>3, DeleteKeeps DEF PendingKept
<1>4. ASSUME NEW c \in Procs, NEW step, Forget(c, step), step \notin {"compose", "retry"}
      PROVE  Read
  BY <1>4 DEF Forget, Goto, LocalTypes, Procs
<1>5. ASSUME NEW c \in Procs, NEW step, Goto(c, step),
             c \in Schedulers => step \notin {"compose", "retry"},
             \A d \in Procs \ {c} : item'[d] = item[d]
      PROVE  Read
  BY <1>5 DEF Goto, LocalTypes, Procs
<1>6. ASSUME UNCHANGED <<pc, item>> PROVE Read
  BY <1>6
<1>7. ASSUME NEW c \in Procs, NEW x, item' = [item EXCEPT ![c] = x]
      PROVE  \A d \in Procs \ {c} : item'[d] = item[d]
  BY <1>7 DEF LocalTypes
<1> HIDE DEF Table, Read, Goal
<1>8. ASSUME NEW u \in Uplinks, UplinkStep(u) PROVE Goal
  <2>0. u \in Procs /\ u \notin Schedulers
    BY ProcsDisjoint DEF Procs
  <2>1. CASE UplinkGetSession(u) \/ UplinkSaveSession(u) \/ UplinkACK(u)
    <3>1. Table
      BY <1>2, <2>1 DEF UplinkGetSession, UplinkSaveSession, UplinkACK, dbVars
    <3>2. \A d \in Procs \ {u} : item'[d] = item[d]
      BY <1>7, <2>0, <2>1 DEF UplinkGetSession, UplinkSaveSession, UplinkACK
    <3>3. Read
      BY <1>5, <2>0, <2>1, <3>2 DEF UplinkGetSession, UplinkSaveSession, UplinkACK
    <3> QED
      BY <1>1, <3>1, <3>3
  <2>2. CASE UplinkACKDelete(u)
    BY <1>1, <1>3, <1>5, <1>7, <2>0, <2>2 DEF UplinkACKDelete, ItemKnown
  <2>3. CASE UplinkACKASError(u)
    BY <1>1, <1>3, <1>4, <2>0, <2>3 DEF UplinkACKASError, Stop, ItemKnown
  <2>4. CASE UplinkACKGone(u)
    BY <1>1, <1>2, <1>4, <2>0, <2>4 DEF UplinkACKGone, Stop, dbVars
  <2> QED
    BY <1>8, <2>1, <2>2, <2>3, <2>4 DEF UplinkStep
<1>9. ASSUME NEW c \in Uplinks \cup Schedulers, QueueStep(c) PROVE Goal
  <2>0. c \in Procs
    BY DEF Procs
  <2>1. CASE NextItem(c) /\ c \notin Schedulers
    <3>1. Table
      BY <1>2, <2>1 DEF NextItem, dbVars
    <3>2. Read
      BY <1>5, <1>7, <2>0, <2>1 DEF NextItem
    <3> QED
      BY <1>1, <3>1, <3>2
  <2>2. CASE NextItem(c) /\ c \in Schedulers
    <3>1. Table /\ queue' = queue
      BY <1>2, <2>2 DEF NextItem, dbVars
    <3>2. devLock = c
      BY <2>0, <2>2 DEF NextItem, Locking, Holding
    <3>3. \A i \in Ids : View(c)[i].live /\ Pending(queue[i]) => View(c)[i].isPending
      BY <3>2 DEF View, PendingKept, TxKept, Pending
    <3>4. /\ \A d \in Procs \ {c} : item'[d] = item[d] /\ pc'[d] = pc[d]
          /\ \/ item'[c].id = 0
             \/ \E i \in Ids : /\ View(c)[i].live
                               /\ item'[c] = [id |-> i, isPending |-> View(c)[i].isPending]
      BY <2>0, <2>2 DEF NextItem, Goto, FirstIds, LiveIds, LocalTypes, NoItem
    <3>5. item'[c].id \in Ids /\ Pending(queue[item'[c].id]) => item'[c].isPending
      <4>1. CASE item'[c].id = 0
        BY <4>1 DEF Ids
      <4>2. ASSUME NEW i \in Ids, View(c)[i].live,
                   item'[c] = [id |-> i, isPending |-> View(c)[i].isPending]
            PROVE  Pending(queue[item'[c].id]) => item'[c].isPending
        BY <3>3, <4>2
      <4> QED
        BY <3>4, <4>1, <4>2
    <3>6. \A s \in Schedulers \ {c} : item'[s] = item[s] /\ pc'[s] = pc[s]
      BY <3>4 DEF Procs
    <3>7. ReadKept'
      BY <3>1, <3>5, <3>6 DEF ReadKept, PendingKept, Pending
    <3> QED
      BY <3>1, <3>7 DEF Table, Goal, PendingKept
  <2>3. CASE DropItem(c)
    BY <1>1, <1>3, <1>5, <1>7, <2>0, <2>3 DEF DropItem, ItemKnown
  <2>4. CASE DropItemASError(c)
    BY <1>1, <1>3, <1>4, <2>0, <2>4 DEF DropItemASError, Leave, ItemKnown
  <2>5. CASE DropItemGone(c) \/ ReencryptError(c) \/ NothingSent(c)
    BY <1>1, <1>2, <1>4, <2>0, <2>5 DEF DropItemGone, ReencryptError, NothingSent, Leave, dbVars
  <2>6. CASE ReadQueue(c) \/ FlushQueue(c)
    <3>1. Table
      BY <1>2, <2>6 DEF ReadQueue, FlushQueue, dbVars
    <3>2. Read
      BY <1>5, <1>7, <2>0, <2>6 DEF ReadQueue, FlushQueue
    <3> QED
      BY <1>1, <3>1, <3>2
  <2>7. CASE RecreateQueue(c)
    <3>1. PICK S \in SUBSET Ids, q \in Rows :
            /\ Write(c, S, q)
            /\ \A i \in S : (nextId <= i /\ ~q[i].isPending) \/ ~q[i].live
      BY <2>0, <2>7, RecreateEffect
    <3>2. \A i \in S : ~Pending(q[i]) /\ (Pending(queue[i]) /\ q[i].live => q[i].isPending)
      BY <3>1 DEF Fresh, Pending
    <3>3. Table
      BY <3>1, <3>2, WriteKeeps DEF PendingKept, Table
    <3>4. Read
      BY <1>5, <2>0, <2>7 DEF RecreateQueue
    <3> QED
      BY <1>1, <3>3, <3>4
  <2>8. CASE SendFrame(c)
    <3>1. Table
      BY <1>2, <2>8 DEF SendFrame, dbVars
    <3>2. CASE c \in Schedulers
      <4>1. pc[c] = "compose" /\ item' = item /\ Goto(c, "retry")
        BY <2>8, <3>2 DEF SendFrame
      <4>2. Read
        BY <2>0, <4>1 DEF Goto, Read, LocalTypes, Procs
      <4> QED
        BY <1>1, <3>1, <4>2
    <3>3. CASE c \notin Schedulers
      BY <1>1, <1>4, <2>0, <2>8, <3>1, <3>3 DEF SendFrame, Stop
    <3> QED
      BY <3>2, <3>3
  <2> QED
    BY <1>9, <2>1, <2>2, <2>3, <2>4, <2>5, <2>6, <2>7, <2>8 DEF QueueStep
<1>10. ASSUME NEW s \in Schedulers, SchedulerStep(s) PROVE Goal
  <2>0. s \in Procs
    BY DEF Procs
  <2>1. CASE SelectDevice(s) \/ LockSelected(s) \/ SchedulerGetSession(s) \/ SchedulerSkip(s)
    <3>1. Table
      BY <1>2, <2>1 DEF SelectDevice, LockSelected, SchedulerGetSession, SchedulerSkip, dbVars
    <3>2. Read
      BY <1>5, <2>0, <2>1 DEF SelectDevice, LockSelected, SchedulerGetSession, SchedulerSkip
    <3> QED
      BY <1>1, <3>1, <3>2
  <2>2. CASE SetRetryAfter(s)
    <3> DEFINE i == item[s].id
               q == [View(s) EXCEPT ![i].isPending = item[s].isPending,
                                    ![i].retryAfter = "future"]
    <3>1. i \in Ids /\ devLock = s
      BY <2>0, <2>2 DEF SetRetryAfter, ItemKnown, Locking, Holding
    <3>2. q[i].isPending = item[s].isPending
      BY <3>1, ViewType DEF Rows, DeviceQueueItem
    <3>3. Pending(queue[i]) => item[s].isPending
      BY <2>2, <3>1 DEF SetRetryAfter, PendingKept, ReadKept
    <3>4. Read
      BY <1>4, <2>0, <2>2 DEF SetRetryAfter
    <3>5. Write(s, {i}, q) \/ UNCHANGED <<queue, dirty, txQueue>>
      BY <2>2 DEF SetRetryAfter
    <3>6. \A j \in {i} : Pending(queue[j]) /\ q[j].live => q[j].isPending
      BY <3>2, <3>3
    <3> HIDE DEF i, q
    <3>7. Write(s, {i}, q) => Table
      BY <3>1, <3>6, WriteKeeps DEF PendingKept, Table
    <3> QED
      BY <1>1, <1>2, <3>4, <3>5, <3>7
  <2>3. CASE AbortTransaction(s)
    <3>1. Table
      BY <2>3 DEF AbortTransaction, Rollback, Table, TxKept, KeepsPending, NoNewPending, Pending
    <3> QED
      BY <1>1, <1>4, <2>0, <2>3, <3>1 DEF AbortTransaction, Stop
  <2> QED
    BY <1>10, <2>1, <2>2, <2>3 DEF SchedulerStep
<1>11. ASSUME NEW a \in AckHandlers, AckStep(a) PROVE Goal
  <2>0. a \in Procs /\ a \notin Schedulers
    BY ProcsDisjoint DEF Procs
  <2>1. CASE \E m \in txAcks : ReceiveTXAck(a, m)
    <3>1. Table /\ item' = item
      BY <1>2, <2>1 DEF ReceiveTXAck, dbVars
    <3>2. Read
      BY <1>5, <1>6, <2>0, <2>1, <3>1 DEF ReceiveTXAck
    <3> QED
      BY <1>1, <3>1, <3>2
  <2>2. CASE LockDevice(a) \/ AckGetSession(a)
    <3>1. Table
      BY <1>2, <2>2 DEF LockDevice, AckGetSession, dbVars
    <3>2. Read
      BY <1>5, <2>0, <2>2 DEF LockDevice, AckGetSession
    <3> QED
      BY <1>1, <3>1, <3>2
  <2>3. CASE ApplyTXAck(a)
    <3> DEFINE i == frames[job[a].token].id
               q == [View(a) EXCEPT ![i] = PendingItem(View(a)[i])]
    <3>1. i \in Ids /\ devLock = a
      BY <2>0, <2>3 DEF ApplyTXAck, Locking, Holding
    <3>2. Write(a, {i}, q) \/ Delete(a, i)
      BY <2>3 DEF ApplyTXAck
    <3>3. View(a)[i] \in DeviceQueueItem
      BY <3>1, ViewType DEF Rows
    <3>4. PendingItem(View(a)[i]).isPending
      BY <3>3 DEF PendingItem, DeviceQueueItem
    <3>5. \A j \in {i} : q[j].isPending
      BY <3>1, <3>4, ViewType DEF Rows
    <3>6. Read
      BY <1>5, <2>0, <2>3 DEF ApplyTXAck
    <3> HIDE DEF i, q
    <3>7. Write(a, {i}, q) => Table
      BY <3>1, <3>5, WriteKeeps DEF PendingKept, Table
    <3> QED
      BY <1>1, <1>3, <2>0, <3>1, <3>2, <3>6, <3>7
  <2>4. CASE TXAckItemGone(a) \/ AckSaveSessionMAC(a) \/ AckSaveSession(a)
    BY <1>1, <1>2, <1>4, <2>0, <2>4
    DEF TXAckItemGone, AckSaveSessionMAC, AckSaveSession, Stop, dbVars
  <2> QED
    BY <1>11, <2>1, <2>2, <2>3, <2>4 DEF AckStep
<1>12. ASSUME NEW c \in Schedulers \cup AckHandlers, Commit(c) PROVE Goal
  <2>1. c \in Procs /\ devLock = c
    BY <1>12 DEF Commit, Locking, Holding, Procs
  <2>2. \A s \in Schedulers : pc'[s] \notin {"compose", "retry"}
    <3>1. \A s \in Schedulers : pc[s] \notin {"compose", "retry"}
      BY <1>12, <2>1 DEF Commit, Locking, Holding, Procs
    <3> QED
      BY <1>12, <2>1, <3>1 DEF Commit, Stop, Forget, Goto, LocalTypes, Procs
  <2>3. PendingKept'
    BY <1>12, <2>2 DEF Commit, PendingKept, TxKept, ReadKept
  <2>4. KeepsPending
    BY <1>12, <2>1 DEF Commit, View, KeepsPending, PendingKept, TxKept, Pending
  <2> QED
    BY <2>3, <2>4 DEF Goal
<1>13. ASSUME NEW c \in Procs, Crash(c) PROVE Goal
  <2>1. Table
    BY <1>2, <1>13 DEF Crash, Rollback, Table, TxKept, KeepsPending, NoNewPending, Pending
  <2> QED
    BY <1>1, <1>4, <1>13, <2>1 DEF Crash, Stop
<1>14. ASSUME NEW p \in Payloads, CreateDeviceQueueItem(p) PROVE Goal
  <2>1. UNCHANGED <<dirty, txQueue, pc, item>> /\ nextId \notin dirty /\ ~queue[nextId].live
    BY <1>14 DEF CreateDeviceQueueItem, localVars, Fresh, StoreTypes
  <2>2. \A i \in Ids : queue'[i] = queue[i] \/ (i = nextId /\ ~queue'[i].isPending)
    BY <1>14 DEF CreateDeviceQueueItem, StoreTypes, NewRow
  <2>3. Table
    BY <2>1, <2>2 DEF Table, PendingKept, TxKept, KeepsPending, NoNewPending, Pending, StoreTypes
  <2> QED
    BY <1>1, <1>6, <2>1, <2>3
<1>15. ASSUME NEW f \in Flushers, FlushStart(f) PROVE Goal
  <2>1. Table
    BY <1>2, <1>15 DEF FlushStart, dbVars
  <2>2. Read
    BY <1>5, <1>15 DEF FlushStart, Procs
  <2> QED
    BY <1>1, <2>1, <2>2
<1>16. ASSUME NEW f \in Flushers, FlushEnd(f) PROVE Goal
  <2> DEFINE q == [i \in Ids |-> [queue[i] EXCEPT !.live = FALSE]]
  <2>1. target[f] \in SUBSET Ids
    BY DEF LocalTypes, Procs
  <2>2. \A i \in target[f] : ~q[i].live
    BY <2>1 DEF StoreTypes, DeviceQueueItem
  <2>3. Write(f, target[f], q)
    BY <1>16 DEF FlushEnd
  <2> HIDE DEF q
  <2>4. Table
    BY <2>1, <2>2, <2>3, WriteKeeps DEF Pending, PendingKept, Table
  <2> QED
    BY <1>1, <1>4, <1>16, <2>4 DEF FlushEnd, Stop, Procs
<1>17. ASSUME NEW i \in Ids, TimeoutPasses(i) \/ RetryPasses(i) PROVE Goal
  <2>1. Table
    BY <1>17, TimeEffect
    DEF Table, PendingKept, TxKept, KeepsPending, NoNewPending, Pending, StoreTypes
  <2> QED
    BY <1>1, <1>6, <1>17, <2>1 DEF TimeoutPasses, RetryPasses, localVars
<1> QED
  BY <1>1, <1>2, <1>6, <1>8, <1>9, <1>10, <1>11, <1>12, <1>13, <1>14, <1>15, <1>16, <1>17
  DEF Next, EnvStep, vars, dbVars, localVars, Procs, GetNextDownlinkFCnt, Transmit, Goal

-----------------------------------------------------------------------------
(* Outcomes *)

\* No step revives a row, unless the transaction that deleted it is lost.
DeadStays ==
    \A i \in Ids \ rolledBack' : ~Latest(i).live /\ i < nextId => ~(Latest(i)').live

\* Every step preserves Once: a reported row is a deleted row.
LEMMA OnceStep ==
  TypeOK /\ ItemKnown /\ Locking /\ Fresh /\ Once /\ [Next]_vars => Once'
<1> SUFFICES ASSUME TypeOK, ItemKnown, Locking, Fresh, Once, [Next]_vars PROVE Once'
  OBVIOUS
<1> USE DEF TypeOK
<1>1. ASSUME DeadStays, outcomes' = outcomes, rolledBack \subseteq rolledBack' PROVE Once'
  <2> SUFFICES ASSUME NEW i \in Ids \ rolledBack'
               PROVE  outcomes[i] <= 1 /\ (outcomes[i] = 1 => ~(Latest(i)').live)
    BY <1>1 DEF Once
  <2>1. outcomes[i] <= 1 /\ (outcomes[i] = 1 => ~Latest(i).live)
    BY <1>1 DEF Once
  <2>2. outcomes[i] = 1 => i < nextId
    BY DEF Fresh, StoreTypes, Ids
  <2> QED
    BY <1>1, <2>1, <2>2 DEF DeadStays
<1>2. ASSUME UNCHANGED <<queue, dirty, txQueue>> PROVE DeadStays
  BY <1>2 DEF DeadStays, Latest
<1>3. ASSUME NEW c \in Procs, NEW i \in Ids, Delete(c, i) PROVE DeadStays
  BY <1>3, DeleteEffect DEF DeadStays
<1>4. ASSUME NEW c \in Procs, NEW i \in Ids, Delete(c, i), Report(i), rolledBack' = rolledBack
      PROVE  Once'
  <2>1. /\ Latest(i).live /\ ~(Latest(i)').live
        /\ \A j \in Ids \ {i} : Latest(j)' = Latest(j)
    BY <1>4, DeleteEffect
  <2>2. /\ outcomes'[i] = outcomes[i] + 1 /\ outcomes[i] \in Nat
        /\ \A j \in Ids \ {i} : outcomes'[j] = outcomes[j]
    BY <1>4 DEF Report, HistTypes
  <2>3. i \notin rolledBack => outcomes[i] = 0
    BY <2>1, <2>2 DEF Once
  <2> QED
    BY <1>4, <2>1, <2>2, <2>3 DEF Once
<1>5. ASSUME NEW c, NEW i \in Ids, NEW q, Write(c, {i}, q), View(c)[i].live PROVE DeadStays
  <2>1. \A j \in Ids \ {i} : Latest(j)' = Latest(j)
    BY <1>5, WriteEffect
  <2>2. View(c)[i] = Latest(i)
    BY <1>5, WriteEffect
  <2> QED
    BY <1>5, <2>1, <2>2 DEF DeadStays
<1>6. ASSUME NEW u \in Uplinks, UplinkStep(u) PROVE Once'
  <2>0. u \in Procs
    BY DEF Procs
  <2>1. CASE UplinkACKDelete(u)
    BY <1>4, <2>0, <2>1 DEF UplinkACKDelete, ItemKnown
  <2>2. CASE UplinkACKASError(u)
    BY <1>1, <1>3, <2>0, <2>2 DEF UplinkACKASError, ItemKnown
  <2> QED
    BY <1>1, <1>2, <1>6, <2>1, <2>2 DEF UplinkStep, UplinkGetSession, UplinkSaveSession, UplinkACK,
         UplinkACKGone, dbVars, histVars
<1>7. ASSUME NEW c \in Uplinks \cup Schedulers, QueueStep(c) PROVE Once'
  <2>0. c \in Procs
    BY DEF Procs
  <2>1. CASE DropItem(c)
    BY <1>4, <2>0, <2>1 DEF DropItem, ItemKnown
  <2>2. CASE DropItemASError(c)
    BY <1>1, <1>3, <2>0, <2>2 DEF DropItemASError, ItemKnown
  <2>3. CASE RecreateQueue(c)
    <3>1. PICK S \in SUBSET Ids, q \in Rows :
            Write(c, S, q) /\ \A i \in S : nextId <= i \/ ~q[i].live
      BY <2>0, <2>3, RecreateEffect
    <3>2. \A i \in S : i < nextId => ~q[i].live
      BY <3>1 DEF StoreTypes, Ids
    <3>3. /\ \A i \in S : Latest(i)' = q[i]
          /\ \A i \in Ids \ S : Latest(i)' = Latest(i)
      BY <3>1, WriteEffect
    <3>4. DeadStays
      BY <3>2, <3>3 DEF DeadStays
    <3> QED
      BY <1>1, <2>3, <3>4 DEF RecreateQueue, histVars
  <2> QED
    BY <1>1, <1>2, <1>7, <2>1, <2>2, <2>3 DEF QueueStep, NextItem, DropItemGone, ReadQueue,
         FlushQueue, ReencryptError, NothingSent, SendFrame, dbVars, histVars
<1>8. ASSUME NEW c, Rollback(c), queue' = queue PROVE DeadStays
  BY <1>8 DEF Rollback, DeadStays, Latest
<1>9. ASSUME NEW s \in Schedulers, SchedulerStep(s) PROVE Once'
  <2>0. s \in Procs
    BY DEF Procs
  <2>1. CASE SetRetryAfter(s)
    <3>1. DeadStays
      BY <1>2, <1>5, <2>0, <2>1 DEF SetRetryAfter, ItemKnown
    <3> QED
      BY <1>1, <2>1, <3>1 DEF SetRetryAfter, histVars
  <2>2. CASE AbortTransaction(s)
    <3>1. rolledBack \subseteq rolledBack'
      BY <2>2 DEF AbortTransaction, Rollback
    <3> QED
      BY <1>1, <1>8, <2>2, <3>1 DEF AbortTransaction
  <2> QED
    BY <1>1, <1>2, <1>9, <2>1, <2>2 DEF SchedulerStep, SelectDevice, LockSelected,
         SchedulerGetSession, SchedulerSkip, dbVars, histVars
<1>10. ASSUME NEW a \in AckHandlers, AckStep(a) PROVE Once'
  <2>0. a \in Procs
    BY DEF Procs
  <2>1. CASE ApplyTXAck(a)
    <3>1. \E q : /\ Write(a, {frames[job[a].token].id}, q)
                 /\ View(a)[frames[job[a].token].id].live
                /\ frames[job[a].token].id \in Ids
      BY <2>1 DEF ApplyTXAck, Delete
    <3> QED
      BY <1>1, <1>5, <2>1, <3>1 DEF ApplyTXAck
  <2> QED
    BY <1>1, <1>2, <1>10, <2>1 DEF AckStep, ReceiveTXAck, LockDevice, AckGetSession,
         TXAckItemGone, AckSaveSession, AckSaveSessionMAC, dbVars, histVars
<1>11. ASSUME NEW c \in Schedulers \cup AckHandlers, Commit(c) PROVE Once'
  <2>1. c \in Procs /\ devLock = c
    BY <1>11 DEF Commit, Locking, Holding, Procs
  <2>2. \A i \in Ids : Latest(i)' = Latest(i)
    BY <1>11, <2>1 DEF Commit, View, Latest
  <2> QED
    BY <1>1, <1>11, <2>2 DEF Commit, DeadStays, histVars
<1>12. ASSUME NEW c \in Procs, Crash(c) PROVE Once'
  <2>1. DeadStays
    BY <1>2, <1>8, <1>12 DEF Crash
  <2>2. rolledBack \subseteq rolledBack'
    BY <1>12 DEF Crash, Rollback
  <2> QED
    BY <1>1, <1>12, <2>1, <2>2 DEF Crash
<1>13. ASSUME NEW p \in Payloads, CreateDeviceQueueItem(p) PROVE Once'
  <2>1. \A i \in Ids : i < nextId => Latest(i)' = Latest(i)
    BY <1>13 DEF CreateDeviceQueueItem, StoreTypes, Latest, Ids
  <2> QED
    BY <1>1, <1>13, <2>1 DEF CreateDeviceQueueItem, DeadStays
<1>14. ASSUME NEW f \in Flushers, FlushEnd(f) PROVE Once'
  <2> DEFINE q == [i \in Ids |-> [queue[i] EXCEPT !.live = FALSE]]
  <2>1. target[f] \in SUBSET Ids
    BY DEF LocalTypes, Procs
  <2>2. \A i \in target[f] : ~q[i].live
    BY <2>1 DEF StoreTypes, DeviceQueueItem
  <2>3. Write(f, target[f], q)
    BY <1>14 DEF FlushEnd
  <2> HIDE DEF q
  <2>4. /\ \A i \in target[f] : Latest(i)' = q[i]
        /\ \A i \in Ids \ target[f] : Latest(i)' = Latest(i)
    BY <2>1, <2>3, WriteEffect
  <2>5. DeadStays
    BY <2>2, <2>4 DEF DeadStays
  <2> QED
    BY <1>1, <1>14, <2>5 DEF FlushEnd
<1>15. ASSUME NEW i \in Ids, TimeoutPasses(i) \/ RetryPasses(i) PROVE Once'
  <2>1. ASSUME NEW j \in Ids PROVE (Latest(j)').live = Latest(j).live
    <3>1. /\ dirty' = dirty
          /\ queue'[j].live = queue[j].live
          /\ txQueue'[j].live = txQueue[j].live
      BY <1>15, TimeEffect
    <3>2. CASE j \in dirty
      BY <3>1, <3>2 DEF Latest
    <3>3. CASE j \notin dirty
      BY <3>1, <3>3 DEF Latest
    <3> QED
      BY <3>2, <3>3
  <2> QED
    BY <1>1, <1>15, <2>1 DEF TimeoutPasses, RetryPasses, DeadStays, histVars
<1> QED
  BY <1>1, <1>2, <1>6, <1>7, <1>9, <1>10, <1>11, <1>12, <1>13, <1>14, <1>15
  DEF Next, EnvStep, vars, dbVars, histVars, Procs, GetNextDownlinkFCnt, FlushStart, Transmit

-----------------------------------------------------------------------------
(* Payloads *)

\* The rows w have the payloads of the rows v.
Fixed(v, w) == \A i \in Ids : v[i].payload # None => w[i].payload = v[i].payload

\* No step changes the payload of a row that somebody sees; a row that is only in an
\* open transaction is lost with it, and the goroutine with them.
PayloadsStay ==
    /\ Fixed(queue, queue')
    /\ Fixed(Last, Last') \/ Last' = queue'
    /\ \A c \in Procs : pc'[c] = "idle" \/ Fixed(View(c), View(c)')

\* What a goroutine sees keeps its payloads while it neither takes nor gives up the lock.
LEMMA ViewFixed ==
  ASSUME StoreTypes, Fixed(queue, queue'), Fixed(Last, Last'), NEW c,
         (devLock = c) <=> (devLock' = c)
  PROVE  Fixed(View(c), View(c)')
<1>1. CASE devLock = c
  <2>1. View(c) = Last /\ View(c)' = Last'
    BY <1>1 DEF View, Last, Latest
  <2> QED
    BY <2>1
<1>2. CASE devLock # c
  <2>1. View(c) = queue /\ View(c)' = queue'
    BY <1>2 DEF View
  <2> QED
    BY <2>1
<1> QED
  BY <1>1, <1>2

\* A write that copies the payloads of the rows it updates, and names those it inserts
LEMMA WritePayloads ==
  ASSUME StoreTypes, Fresh, RowPayloads, NEW c, NEW S \in SUBSET Ids, NEW q \in Rows,
         Write(c, S, q), nextId' \in Nat, nextId <= nextId',
         \A i \in S : /\ i < nextId'
                      /\ nextId <= i \/ q[i].payload = View(c)[i].payload
                      /\ q[i].live => q[i].payload # None
  PROVE  RowPayloads' /\ Fixed(queue, queue') /\ Fixed(Last, Last')
<1> USE DEF StoreTypes
<1>0. /\ \A i \in S : Latest(i)' = q[i] /\ View(c)[i] = Latest(i)
      /\ \A i \in Ids \ S : Latest(i)' = Latest(i)
      /\ \A i \in Ids : queue'[i] = queue[i] \/ (i \in S \ dirty /\ queue'[i] = q[i])
      /\ \A i \in dirty' : \/ i \in dirty /\ txQueue'[i] = txQueue[i]
                           \/ i \in S /\ txQueue'[i] = q[i]
      /\ devLock = c => queue' = queue
      /\ devLock # c => dirty' = dirty /\ txQueue' = txQueue /\ S \cap dirty = {}
  BY WriteEffect
<1>1. \A i \in Ids : nextId <= i => Latest(i) = queue[i] /\ queue[i].payload = None
  BY DEF Fresh, Latest, RowPayloads
<1>2. \A i \in S : Latest(i).payload # None => q[i].payload = Latest(i).payload
  BY <1>0, <1>1
<1>3. \A i \in Ids : queue[i].payload # None => Latest(i).payload = queue[i].payload
  BY DEF Latest, RowPayloads
<1>4. Fixed(queue, queue')
  BY <1>0, <1>2, <1>3 DEF Fixed
<1>5. Fixed(Last, Last')
  <2>1. \A i \in Ids : Latest(i).payload # None => (Latest(i)').payload = Latest(i).payload
    BY <1>0, <1>2
  <2>2. \A i \in Ids : Last[i] = Latest(i) /\ Last'[i] = Latest(i)'
    BY DEF Last
  <2> QED
    BY <2>1, <2>2 DEF Fixed
<1>6. \A i \in Ids : nextId' <= i => queue'[i].payload = None
  <2>1. \A i \in Ids : nextId' <= i => nextId <= i /\ i \notin S
    BY DEF Ids
  <2> QED
    BY <1>0, <1>1, <2>1
<1>7. \A i \in dirty' : queue'[i].payload # None => txQueue'[i].payload = queue'[i].payload
  <2>1. CASE devLock = c
    BY <1>0, <1>2, <1>3, <2>1 DEF RowPayloads
  <2>2. CASE devLock # c
    BY <1>0, <2>2 DEF RowPayloads
  <2> QED
    BY <2>1, <2>2
<1>8. \A i \in Ids : queue'[i].live => queue'[i].payload # None
  BY <1>0 DEF RowPayloads
<1>9. \A i \in Ids : (Latest(i)').live => (Latest(i)').payload # None
  BY <1>0 DEF RowPayloads
<1> QED
  BY <1>4, <1>5, <1>6, <1>7, <1>8, <1>9 DEF RowPayloads

\* Deleting a row keeps the payloads of all.
LEMMA DeletePayloads ==
  ASSUME StoreTypes, Fresh, RowPayloads, NEW c, NEW i \in Ids, Delete(c, i), nextId' = nextId
  PROVE  RowPayloads' /\ Fixed(queue, queue') /\ Fixed(Last, Last')
<1> DEFINE q == [View(c) EXCEPT ![i].live = FALSE]
<1>1. q \in Rows /\ ~q[i].live /\ q[i].payload = View(c)[i].payload
  BY ViewType, DeadRowType DEF Rows, DeviceQueueItem
<1>2. Write(c, {i}, q) /\ i < nextId
  BY UsedId DEF Delete
<1> HIDE DEF q
<1>3. nextId' \in Nat /\ nextId <= nextId'
  BY DEF StoreTypes
<1> QED
  BY <1>1, <1>2, <1>3, WritePayloads

\* Every step preserves PayloadInv and changes no payload.
LEMMA PayloadStep ==
  TypeOK /\ ItemKnown /\ Locking /\ Fresh /\ PayloadInv /\ [Next]_vars
    => PayloadInv' /\ PayloadsStay
<1> SUFFICES ASSUME TypeOK, ItemKnown, Locking, Fresh, PayloadInv, [Next]_vars
             PROVE  PayloadInv' /\ PayloadsStay
  OBVIOUS
<1> USE DEF TypeOK
<1> DEFINE Table == RowPayloads' /\ Fixed(queue, queue') /\ Fixed(Last, Last')
           Views == \A c \in Procs : Fixed(View(c), View(c)')
           Fewer == \A c \in Procs : \A j \in Reads(c)' :
                      j \in Ids /\ (j \in Reads(c) \/ View(c)[j].live)
           Goal == PayloadInv' /\ PayloadsStay
<1>0. ASSUME NEW c \in Procs, NEW j \in Ids, j \in Reads(c) \/ View(c)[j].live
      PROVE  View(c)[j].payload # None
  <2>1. View(c)[j].payload \in Payloads
    BY <1>0, SeenPayload
  <2> QED
    BY <2>1, NonePayload
<1>1. ASSUME Table, Views, Fewer PROVE Goal
  <2>1. ASSUME NEW c \in Procs, NEW j \in Reads(c)' PROVE (View(c)')[j].payload # None
    <3>1. j \in Ids /\ View(c)[j].payload # None
      BY <1>0, <1>1, <2>1
    <3>2. Fixed(View(c), View(c)')
      BY <1>1
    <3> QED
      BY <3>1, <3>2 DEF Fixed
  <2>2. ReadPayloads'
    BY <2>1 DEF ReadPayloads
  <2> QED
    BY <1>1, <2>2 DEF PayloadInv, PayloadsStay
<1>2. ASSUME Table, devLock' = devLock PROVE Views
  BY <1>2, ViewFixed
<1>3. ASSUME UNCHANGED <<queue, dirty, txQueue, nextId>>, devLock' = devLock \/ dirty = {}
      PROVE  Table /\ Views
  <2>1. Table
    <3>1. \A i \in Ids : Latest(i)' = Latest(i)
      BY <1>3 DEF Latest
    <3>2. RowPayloads'
      BY <1>3, <3>1 DEF PayloadInv, RowPayloads
    <3> QED
      BY <1>3, <3>1, <3>2 DEF Fixed, Last
  <2>2. CASE devLock' = devLock
    BY <1>2, <2>1, <2>2
  <2>3. CASE dirty = {}
    <3>1. ASSUME NEW c \in Procs PROVE Fixed(View(c), View(c)')
      <4>1. \A i \in Ids : View(c)[i] = queue[i] /\ (View(c)')[i] = queue[i]
        BY <1>3, <2>3 DEF View
      <4> QED
        BY <4>1 DEF Fixed
    <3> QED
      BY <2>1, <3>1
  <2> QED
    BY <1>3, <2>1, <2>2, <2>3
<1>4. ASSUME NEW c, NEW i \in Ids, Delete(c, i), nextId' = nextId
      PROVE  Table /\ Views
  <2>1. Table
    BY <1>4, DeletePayloads DEF PayloadInv
  <2>2. devLock' = devLock
    BY <1>4, DeleteEffect
  <2> QED
    BY <1>2, <2>1, <2>2
<1>5. ASSUME NEW c \in Procs PROVE Reads(c) \subseteq Ids
  BY ConstantTypes DEF Reads, LocalTypes, ItemRead, Ids
<1>6. ASSUME UNCHANGED <<item, snap, target>> PROVE Fewer
  BY <1>5, <1>6 DEF Reads
<1>7. ASSUME NEW c \in Procs, item' = [item EXCEPT ![c] = NoItem],
             \A d \in Procs : snap'[d] \subseteq snap[d] /\ target'[d] \subseteq target[d]
      PROVE  Fewer
  <2>1. ASSUME NEW d \in Procs PROVE Reads(d)' \subseteq Reads(d)
    <3>1. item'[d] = item[d] \/ item'[d] = NoItem
      BY <1>7 DEF LocalTypes
    <3> QED
      BY <1>7, <3>1 DEF Reads, NoItem
  <2> QED
    BY <1>5, <2>1
<1>8. ASSUME NEW c \in Procs, NEW step, Forget(c, step) PROVE Fewer
  <2>1. /\ item' = [item EXCEPT ![c] = NoItem]
        /\ \A d \in Procs : snap'[d] \subseteq snap[d] /\ target'[d] \subseteq target[d]
    BY <1>8 DEF Forget, LocalTypes
  <2> QED
    BY <1>7, <2>1
<1>9. ASSUME NEW c \in Procs, NEW i \in Ids, View(c)[i].live,
             item'[c].id = i, \A d \in Procs \ {c} : item'[d] = item[d],
             UNCHANGED <<snap, target>>
      PROVE  Fewer
  <2>1. ASSUME NEW d \in Procs, NEW j \in Reads(d)'
        PROVE  j \in Reads(d) \/ (d = c /\ j = i)
    BY <1>9, <2>1 DEF Reads
  <2> QED
    BY <1>5, <1>9, <2>1
<1>10. ASSUME NEW c \in Procs, UNCHANGED item,
              \A d \in Procs \ {c} : snap'[d] = snap[d] /\ target'[d] = target[d],
              snap'[c] \subseteq snap[c] \cup LiveIds(View(c)),
              target'[c] \subseteq target[c] \cup LiveIds(View(c))
       PROVE  Fewer
  <2>1. ASSUME NEW d \in Procs, NEW j \in Reads(d)'
        PROVE  j \in Reads(d) \/ (d = c /\ j \in LiveIds(View(c)))
    BY <1>10, <2>1 DEF Reads
  <2> QED
    BY <1>5, <1>10, <2>1 DEF LiveIds
<1> HIDE DEF Table, Views, Fewer, Goal
<1>11. ASSUME NEW u \in Uplinks, UplinkStep(u) PROVE Goal
  <2>0. u \in Procs /\ View(u) = queue
    BY ProcsDisjoint DEF Procs, Locking, Holding, View
  <2>1. CASE UplinkGetSession(u) \/ UplinkSaveSession(u)
    BY <1>1, <1>3, <1>6, <2>1 DEF UplinkGetSession, UplinkSaveSession, dbVars
  <2>2. CASE UplinkACK(u)
    <3>1. Table /\ Views
      BY <1>3, <2>2 DEF UplinkACK, dbVars
    <3>2. CASE UNCHANGED item
      BY <1>1, <1>6, <2>2, <3>1, <3>2 DEF UplinkACK
    <3>3. ASSUME NEW i \in PendingRow(u), item' = [item EXCEPT ![u] = [id |-> i, isPending |-> TRUE]]
          PROVE  Goal
      <4>1. i \in Ids /\ View(u)[i].live
        BY <2>0, <3>3 DEF PendingRow, FirstIds, LiveIds
      <4>2. item'[u].id = i /\ \A d \in Procs \ {u} : item'[d] = item[d]
        BY <2>0, <3>3 DEF LocalTypes
      <4>3. UNCHANGED <<snap, target>>
        BY <2>2 DEF UplinkACK
      <4> QED
        BY <1>1, <1>9, <2>0, <3>1, <4>1, <4>2, <4>3
    <3> QED
      BY <2>2, <3>2, <3>3 DEF UplinkACK
  <2>3. CASE UplinkACKDelete(u)
    <3>1. Table /\ Views
      BY <1>4, <2>0, <2>3 DEF UplinkACKDelete, ItemKnown
    <3>2. Fewer
      BY <1>7, <2>0, <2>3 DEF UplinkACKDelete
    <3> QED
      BY <1>1, <3>1, <3>2
  <2>4. CASE UplinkACKASError(u)
    BY <1>1, <1>4, <1>8, <2>0, <2>4 DEF UplinkACKASError, Stop, ItemKnown
  <2>5. CASE UplinkACKGone(u)
    BY <1>1, <1>3, <1>8, <2>0, <2>5 DEF UplinkACKGone, Stop, dbVars
  <2> QED
    BY <1>11, <2>1, <2>2, <2>3, <2>4, <2>5 DEF UplinkStep
<1>12. ASSUME NEW c \in Uplinks \cup Schedulers, QueueStep(c) PROVE Goal
  <2>0. c \in Procs
    BY DEF Procs
  <2>1. CASE NextItem(c)
    <3>1. Table /\ Views
      BY <1>3, <2>1 DEF NextItem, dbVars
    <3>2. CASE item' = [item EXCEPT ![c] = NoItem]
      BY <1>1, <1>7, <2>0, <2>1, <3>1, <3>2 DEF NextItem
    <3>3. ASSUME NEW i \in FirstIds(View(c)),
                 item' = [item EXCEPT ![c] = [id |-> i, isPending |-> View(c)[i].isPending]]
          PROVE  Goal
      <4>1. i \in Ids /\ View(c)[i].live
        BY <3>3 DEF FirstIds, LiveIds
      <4>2. item'[c].id = i /\ \A d \in Procs \ {c} : item'[d] = item[d]
        BY <2>0, <3>3 DEF LocalTypes
      <4>3. UNCHANGED <<snap, target>>
        BY <2>1 DEF NextItem
      <4> QED
        BY <1>1, <1>9, <2>0, <3>1, <4>1, <4>2, <4>3
    <3> QED
      BY <2>1, <3>2, <3>3 DEF NextItem
  <2>2. CASE DropItem(c)
    <3>1. Table /\ Views
      BY <1>4, <2>0, <2>2 DEF DropItem, ItemKnown
    <3>2. Fewer
      BY <1>7, <2>0, <2>2 DEF DropItem
    <3> QED
      BY <1>1, <3>1, <3>2
  <2>3. CASE DropItemASError(c)
    BY <1>1, <1>4, <1>8, <2>0, <2>3 DEF DropItemASError, Leave, ItemKnown
  <2>4. CASE DropItemGone(c) \/ ReencryptError(c) \/ NothingSent(c)
    BY <1>1, <1>3, <1>8, <2>0, <2>4
    DEF DropItemGone, ReencryptError, NothingSent, Leave, dbVars
  <2>5. CASE ReadQueue(c)
    <3>1. Table /\ Views
      BY <1>3, <2>5 DEF ReadQueue, dbVars
    <3>2. ASSUME NEW d \in Procs, NEW j \in Reads(d)'
          PROVE  j \in Reads(d) \/ (d = c /\ j \in LiveIds(View(c)))
      <4>1. item'[d] = item[d] \/ item'[d] = NoItem
        BY <2>0, <2>5 DEF ReadQueue, LocalTypes
      <4>2. target'[d] = target[d] /\ (snap'[d] = snap[d] \/ (d = c /\ snap'[d] = LiveIds(View(c))))
        BY <2>0, <2>5 DEF ReadQueue, LocalTypes
      <4> QED
        BY <3>2, <4>1, <4>2 DEF Reads, NoItem
    <3>3. Fewer
      BY <1>5, <3>2 DEF Fewer, LiveIds
    <3> QED
      BY <1>1, <3>1, <3>3
  <2>6. CASE FlushQueue(c)
    <3>1. Table /\ Views
      BY <1>3, <2>6 DEF FlushQueue, dbVars
    <3>2. Fewer
      BY <1>10, <2>0, <2>6 DEF FlushQueue, LocalTypes
    <3> QED
      BY <1>1, <3>1, <3>2
  <2>7. CASE RecreateQueue(c)
    <3>1. PICK S \in SUBSET Ids, q \in Rows :
            /\ Write(c, S, q)
            /\ \A i \in S :
                 \/ /\ nextId <= i /\ i < nextId'
                    /\ \E j \in snap[c] : q[i].payload = View(c)[j].payload
                 \/ i \in target[c] /\ ~q[i].live /\ q[i].payload = View(c)[i].payload
      BY <2>0, <2>7, RecreateEffect
    <3>2. nextId' \in Nat /\ nextId <= nextId'
      BY <2>0, <2>7, RecreateEffect
    <3>3. \A j \in snap[c] : View(c)[j].payload # None
      BY <2>0, <1>0 DEF Reads, LocalTypes
    <3>4. \A i \in S : /\ i < nextId'
                       /\ nextId <= i \/ q[i].payload = View(c)[i].payload
                       /\ q[i].live => q[i].payload # None
      <4>1. \A i \in target[c] : i \in Ids /\ i < nextId'
        BY <2>0, <3>2 DEF Fresh, LocalTypes, StoreTypes, Ids
      <4> QED
        BY <3>1, <3>3, <4>1
    <3>5. Table
      BY <3>1, <3>2, <3>4, WritePayloads DEF Table, PayloadInv
    <3>6. devLock' = devLock
      BY <3>1, WriteEffect
    <3>7. Fewer
      BY <1>10, <2>0, <2>7 DEF RecreateQueue, LocalTypes
    <3> QED
      BY <1>1, <1>2, <3>5, <3>6, <3>7
  <2>8. CASE SendFrame(c)
    BY <1>1, <1>3, <1>6, <1>8, <2>0, <2>8 DEF SendFrame, Stop, dbVars
  <2> QED
    BY <1>12, <2>1, <2>2, <2>3, <2>4, <2>5, <2>6, <2>7, <2>8 DEF QueueStep
<1>13. ASSUME NEW c \in Procs, Rollback(c), Stop(c), UNCHANGED <<queue, nextId>>, devLock = c
       PROVE  Goal
  <2>1. \A i \in Ids : Latest(i)' = queue[i]
    BY <1>13 DEF Rollback, Latest
  <2>2. RowPayloads'
    BY <1>13, <2>1 DEF Rollback, PayloadInv, RowPayloads
  <2>3. Last' = queue'
    BY <1>13, <2>1 DEF Last, StoreTypes
  <2>4. pc'[c] = "idle" /\ Reads(c)' = {}
    BY <1>13 DEF Stop, Forget, Goto, LocalTypes, Reads, NoItem
  <2>5. ASSUME NEW d \in Procs \ {c}
        PROVE  View(d) = queue /\ View(d)' = queue
    BY <1>13, ConstantTypes DEF Rollback, View
  <2>6. Fewer
    BY <1>8, <1>13 DEF Stop
  <2>7. ReadPayloads'
    <3>1. ASSUME NEW d \in Procs, NEW j \in Reads(d)' PROVE (View(d)')[j].payload # None
      BY <1>0, <2>4, <2>5, <2>6, <3>1 DEF Fewer
    <3> QED
      BY <3>1 DEF ReadPayloads
  <2>8. PayloadsStay
    BY <1>13, <2>3, <2>4, <2>5 DEF PayloadsStay, Fixed
  <2> QED
    BY <2>2, <2>7, <2>8 DEF Goal, PayloadInv
<1>14. ASSUME NEW s \in Schedulers, SchedulerStep(s) PROVE Goal
  <2>0. s \in Procs
    BY DEF Procs
  <2>1. CASE SelectDevice(s) \/ SchedulerGetSession(s) \/ SchedulerSkip(s)
    BY <1>1, <1>3, <1>6, <2>1 DEF SelectDevice, SchedulerGetSession, SchedulerSkip, dbVars
  <2>2. CASE LockSelected(s)
    BY <1>1, <1>3, <1>6, <2>2 DEF LockSelected, Locking
  <2>3. CASE SetRetryAfter(s) /\ View(s)[item[s].id].live
    <3> DEFINE i == item[s].id
               q == [View(s) EXCEPT ![i].isPending = item[s].isPending,
                                    ![i].retryAfter = "future"]
    <3>1. i \in Ids /\ i < nextId
      BY <2>0, <2>3, UsedId DEF SetRetryAfter, ItemKnown
    <3>2. Write(s, {i}, q) /\ nextId' = nextId
      BY <2>3 DEF SetRetryAfter, Gone
    <3>3. q \in Rows /\ q[i].payload = View(s)[i].payload
      <4>1. View(s) \in Rows /\ item[s].isPending \in BOOLEAN
        BY <2>0, ViewType DEF LocalTypes, ItemRead
      <4> QED
        BY <3>1, <4>1 DEF Rows, DeviceQueueItem, Times
    <3>4. View(s)[i].payload # None
      BY <1>0, <2>0, <2>3, <3>1
    <3>5. nextId' \in Nat /\ nextId <= nextId'
      BY <3>2 DEF StoreTypes
    <3> HIDE DEF i, q
    <3>6. Table
      BY <3>1, <3>2, <3>3, <3>4, <3>5, WritePayloads DEF Table, PayloadInv
    <3>7. devLock' = devLock
      BY <3>1, <3>2, WriteEffect
    <3>8. Fewer
      BY <1>8, <2>0, <2>3 DEF SetRetryAfter
    <3> QED
      BY <1>1, <1>2, <3>6, <3>7, <3>8
  <2>4. CASE SetRetryAfter(s) /\ ~View(s)[item[s].id].live
    BY <1>1, <1>3, <1>8, <2>0, <2>4 DEF SetRetryAfter
  <2>5. CASE AbortTransaction(s)
    <3>1. devLock = s
      BY <2>0, <2>5 DEF AbortTransaction, Locking, Holding
    <3> QED
      BY <1>13, <2>0, <2>5, <3>1 DEF AbortTransaction
  <2> QED
    BY <1>14, <2>1, <2>2, <2>3, <2>4, <2>5 DEF SchedulerStep
<1>15. ASSUME NEW a \in AckHandlers, AckStep(a) PROVE Goal
  <2>0. a \in Procs
    BY DEF Procs
  <2>1. CASE (\E m \in txAcks : ReceiveTXAck(a, m)) \/ AckGetSession(a)
    BY <1>1, <1>3, <1>6, <2>1 DEF ReceiveTXAck, AckGetSession, dbVars
  <2>2. CASE LockDevice(a)
    BY <1>1, <1>3, <1>6, <2>2 DEF LockDevice, Locking
  <2>3. CASE ApplyTXAck(a)
    <3> DEFINE i == frames[job[a].token].id
    <3>1. i \in Ids /\ View(a)[i].live /\ nextId' = nextId /\ UNCHANGED <<item, snap, target>>
      BY <2>3 DEF ApplyTXAck
    <3>2. CASE Delete(a, i)
      BY <1>1, <1>4, <1>6, <3>1, <3>2
    <3>3. CASE Write(a, {i}, [View(a) EXCEPT ![i] = PendingItem(View(a)[i])])
      <4> DEFINE q == [View(a) EXCEPT ![i] = PendingItem(View(a)[i])]
      <4>1. View(a) \in Rows /\ View(a)[i] \in DeviceQueueItem
        BY <3>1, ViewType DEF Rows
      <4>2. q \in Rows /\ q[i] = PendingItem(View(a)[i])
        BY <3>1, <4>1, PendingItemType DEF Rows
      <4>3. PendingItem(View(a)[i]).payload = View(a)[i].payload
        BY <4>1 DEF PendingItem, DeviceQueueItem
      <4>4. i < nextId /\ View(a)[i].payload # None
        BY <1>0, <2>0, <3>1, UsedId
      <4>5. nextId' \in Nat /\ nextId <= nextId'
        BY <3>1 DEF StoreTypes
      <4>6. Write(a, {i}, q)
        BY <3>3
      <4> HIDE DEF i, q
      <4>7. Table
        BY <3>1, <4>2, <4>3, <4>4, <4>5, <4>6, WritePayloads DEF Table, PayloadInv
      <4>8. devLock' = devLock
        BY <3>1, <4>6, WriteEffect
      <4> QED
        BY <1>1, <1>2, <1>6, <3>1, <4>7, <4>8
    <3> QED
      BY <2>3, <3>2, <3>3 DEF ApplyTXAck
  <2>4. CASE TXAckItemGone(a)
    BY <1>1, <1>3, <1>8, <2>0, <2>4 DEF TXAckItemGone, Stop, Locking
  <2>5. CASE AckSaveSessionMAC(a) \/ AckSaveSession(a)
    BY <1>1, <1>3, <1>8, <2>0, <2>5 DEF AckSaveSessionMAC, AckSaveSession, Stop, dbVars
  <2> QED
    BY <1>15, <2>1, <2>2, <2>3, <2>4, <2>5 DEF AckStep
<1>16. ASSUME NEW c \in Schedulers \cup AckHandlers, Commit(c) PROVE Goal
  <2>1. c \in Procs /\ devLock = c
    BY <1>16 DEF Commit, Locking, Holding, Procs
  <2>2. \A i \in Ids : queue'[i] = Latest(i) /\ Latest(i)' = Latest(i)
    BY <1>16, <2>1 DEF Commit, View, Latest
  <2>3. Fixed(queue, queue') /\ Fixed(Last, Last')
    BY <2>2 DEF Fixed, Last, Latest, PayloadInv, RowPayloads
  <2>4. RowPayloads'
    <3>1. dirty' = {} /\ nextId' = nextId
      BY <1>16 DEF Commit
    <3>2. \A i \in Ids : nextId <= i => Latest(i) = queue[i]
      BY DEF Latest, Fresh
    <3> QED
      BY <2>2, <3>1, <3>2 DEF PayloadInv, RowPayloads
  <2>5. pc'[c] = "idle" /\ Reads(c)' = {}
    BY <1>16, <2>1 DEF Commit, Stop, Forget, Goto, LocalTypes, Reads, NoItem
  <2>6. ASSUME NEW d \in Procs \ {c} PROVE View(d) = queue /\ View(d)' = queue'
    BY <1>16, <2>1, ConstantTypes DEF Commit, View
  <2>7. Fewer
    BY <1>8, <1>16, <2>1 DEF Commit, Stop
  <2>8. ReadPayloads'
    <3>1. ASSUME NEW d \in Procs, NEW j \in Reads(d)' PROVE (View(d)')[j].payload # None
      <4>1. d # c /\ j \in Ids /\ (j \in Reads(d) \/ View(d)[j].live)
        BY <2>5, <2>7, <3>1 DEF Fewer
      <4>2. queue[j].payload # None
        BY <1>0, <2>6, <4>1
      <4> QED
        BY <2>3, <2>6, <4>1, <4>2 DEF Fixed
    <3> QED
      BY <3>1 DEF ReadPayloads
  <2>9. PayloadsStay
    BY <2>3, <2>5, <2>6 DEF PayloadsStay
  <2> QED
    BY <2>4, <2>8, <2>9 DEF Goal, PayloadInv
<1>17. ASSUME NEW c \in Procs, Crash(c) PROVE Goal
  <2>1. CASE devLock = c
    BY <1>13, <1>17, <2>1 DEF Crash
  <2>2. CASE devLock # c
    BY <1>1, <1>3, <1>8, <1>17, <2>2 DEF Crash, Stop
  <2> QED
    BY <2>1, <2>2
<1>18. ASSUME NEW p \in Payloads, CreateDeviceQueueItem(p) PROVE Goal
  <2>0. PICK n \in Ids : n = nextId
    BY <1>18 DEF CreateDeviceQueueItem
  <2>1. /\ nextId' = n + 1 /\ n \in Nat
        /\ UNCHANGED <<devLock, dirty, txQueue, item, snap, target>>
    BY <1>18, <2>0 DEF CreateDeviceQueueItem, localVars, StoreTypes
  <2>2. /\ queue'[n].payload = p
        /\ \A i \in Ids \ {n} : queue'[i] = queue[i]
    BY <1>18, <2>0 DEF CreateDeviceQueueItem, StoreTypes, NewRow
  <2>3. n \notin dirty /\ p # None /\ queue[n].payload = None
    BY <2>0, <2>1, NonePayload DEF Fresh, PayloadInv, RowPayloads
  <2>4. /\ Latest(n)' = queue'[n] /\ Latest(n) = queue[n]
        /\ \A i \in Ids \ {n} : Latest(i)' = Latest(i)
    BY <2>1, <2>2, <2>3 DEF Latest
  <2>5. Fixed(queue, queue') /\ Fixed(Last, Last')
    BY <2>2, <2>3, <2>4 DEF Fixed, Last
  <2>6. RowPayloads'
    <3>1. \A i \in Ids : nextId' <= i => queue'[i].payload = None
      BY <2>0, <2>1, <2>2 DEF PayloadInv, RowPayloads, Ids
    <3>2. \A i \in Ids : queue'[i].live => queue'[i].payload # None
      BY <2>2, <2>3 DEF PayloadInv, RowPayloads
    <3>3. \A i \in Ids : (Latest(i)').live => (Latest(i)').payload # None
      BY <2>2, <2>3, <2>4 DEF PayloadInv, RowPayloads
    <3>4. \A i \in dirty' : queue'[i].payload # None => txQueue'[i].payload = queue'[i].payload
      BY <2>1, <2>2, <2>3 DEF PayloadInv, RowPayloads, StoreTypes
    <3> QED
      BY <3>1, <3>2, <3>3, <3>4 DEF RowPayloads
  <2> QED
    BY <1>1, <1>2, <1>6, <2>1, <2>5, <2>6 DEF Table
<1>19. ASSUME NEW f \in Flushers, FlushStart(f) PROVE Goal
  <2>0. f \in Procs /\ View(f) = queue
    BY ProcsDisjoint DEF Procs, Locking, Holding, View
  <2>1. Fewer
    BY <1>10, <1>19, <2>0 DEF FlushStart, LocalTypes
  <2> QED
    BY <1>1, <1>3, <1>19, <2>1 DEF FlushStart, dbVars
<1>20. ASSUME NEW f \in Flushers, FlushEnd(f) PROVE Goal
  <2>0. f \in Procs /\ View(f) = queue
    BY ProcsDisjoint DEF Procs, Locking, Holding, View
  <2> DEFINE q == [i \in Ids |-> [queue[i] EXCEPT !.live = FALSE]]
  <2>1. target[f] \in SUBSET Ids /\ \A i \in target[f] : i < nextId
    BY <2>0 DEF LocalTypes, Fresh
  <2>2. q \in Rows /\ \A i \in target[f] : ~q[i].live /\ q[i].payload = queue[i].payload
    BY <2>1 DEF StoreTypes, DeviceQueueItem, Rows
  <2>3. Write(f, target[f], q) /\ nextId' = nextId
    BY <1>20 DEF FlushEnd
  <2>4. nextId' \in Nat /\ nextId <= nextId'
    BY <2>3 DEF StoreTypes
  <2> HIDE DEF q
  <2>5. Table
    BY <2>0, <2>1, <2>2, <2>3, <2>4, WritePayloads DEF Table, PayloadInv
  <2>6. devLock' = devLock
    BY <2>1, <2>3, WriteEffect
  <2>7. Fewer
    BY <1>8, <1>20, <2>0 DEF FlushEnd, Stop
  <2> QED
    BY <1>1, <1>2, <2>5, <2>6, <2>7
<1>21. ASSUME NEW i \in Ids, TimeoutPasses(i) \/ RetryPasses(i) PROVE Goal
  <2>1. ASSUME NEW j \in Ids
        PROVE  /\ dirty' = dirty
               /\ queue'[j].live = queue[j].live /\ queue'[j].payload = queue[j].payload
               /\ txQueue'[j].live = txQueue[j].live /\ txQueue'[j].payload = txQueue[j].payload
    BY <1>21, TimeEffect
  <2>2. ASSUME NEW j \in Ids
        PROVE  (Latest(j)').live = Latest(j).live /\ (Latest(j)').payload = Latest(j).payload
    <3>1. CASE j \in dirty
      BY <2>1, <3>1 DEF Latest
    <3>2. CASE j \notin dirty
      BY <2>1, <3>2 DEF Latest
    <3> QED
      BY <3>1, <3>2
  <2>3. UNCHANGED <<nextId, devLock, dirty, item, snap, target>>
    BY <1>21 DEF TimeoutPasses, RetryPasses, localVars
  <2>4. Fixed(queue, queue') /\ Fixed(Last, Last')
    BY <2>1, <2>2 DEF Fixed, Last
  <2>5. RowPayloads'
    BY <2>1, <2>2, <2>3 DEF PayloadInv, RowPayloads, StoreTypes
  <2> QED
    BY <1>1, <1>2, <1>6, <2>3, <2>4, <2>5 DEF Table
<1>22. ASSUME UNCHANGED <<dbVars, localVars>> PROVE Goal
  BY <1>1, <1>3, <1>6, <1>22 DEF dbVars, localVars
<1> QED
  BY <1>11, <1>12, <1>14, <1>15, <1>16, <1>17, <1>18, <1>19, <1>20, <1>21, <1>22
  DEF Next, EnvStep, vars, Goal, Procs, GetNextDownlinkFCnt, Transmit

-----------------------------------------------------------------------------
(* Acknowledgements *)

\* Every step preserves AckInv: nothing is marked as pending, and then acknowledged,
\* that was not transmitted.
LEMMA AckInvStep ==
  TypeOK /\ ItemKnown /\ Locking /\ Fresh /\ PayloadInv /\ PayloadsStay /\ AckInv /\ [Next]_vars
    => AckInv'
<1> SUFFICES ASSUME TypeOK, ItemKnown, Locking, Fresh, PayloadInv, PayloadsStay, AckInv,
                    [Next]_vars
             PROVE  AckInv'
  OBVIOUS
<1> USE DEF TypeOK
<1> DEFINE Pend == \A i \in Ids : queue'[i].isPending \/ (Latest(i)').isPending =>
                     queue[i].isPending \/ Latest(i).isPending \/ Vouched(i)'
           Acks == \A i \in acked' : i \in acked \/ Vouched(i)'
           Items == \A c \in Procs : \/ item'[c] = item[c]
                                     \/ ~item'[c].isPending
                                     \/ \E i \in Ids : item'[c].id = i /\ Vouched(i)'
           Pcs == \A c \in Procs : pc'[c] = "ackDelete" => item'[c].isPending
           More == txAcked \subseteq txAcked'
<1>1. ASSUME NEW i \in Ids, queue[i].payload \in txAcked', Latest(i).payload \in txAcked',
             queue[i].payload # None, Latest(i).payload # None
      PROVE  Vouched(i)'
  <2>1. queue'[i].payload = queue[i].payload
    BY <1>1 DEF PayloadsStay, Fixed
  <2>2. (Latest(i)').payload = Latest(i).payload \/ (Latest(i)').payload = queue'[i].payload
    <3>1. Last[i] = Latest(i) /\ Last'[i] = Latest(i)'
      BY DEF Last
    <3> QED
      BY <1>1, <3>1 DEF PayloadsStay, Fixed
  <2> QED
    BY <1>1, <2>1, <2>2 DEF Vouched
<1>2. ASSUME NEW i \in Ids, Vouched(i), More PROVE Vouched(i)'
  <2>1. None \notin txAcked
    BY NonePayload DEF HistTypes
  <2> QED
    BY <1>1, <1>2, <2>1 DEF Vouched
<1>3. ASSUME NEW c \in Procs, item[c].isPending, item[c].id # 0
      PROVE  item[c].id \in Ids /\ Vouched(item[c].id)
  BY <1>3, ConstantTypes DEF AckInv, LocalTypes, ItemRead, Ids
<1>4. ASSUME Pend, Acks, Items, Pcs, More PROVE AckInv'
  <2>1. \A i \in acked' : Vouched(i)'
    BY <1>2, <1>4 DEF AckInv, HistTypes
  <2>2. \A i \in Ids : queue'[i].isPending \/ (Latest(i)').isPending => Vouched(i)'
    BY <1>2, <1>4 DEF AckInv
  <2>3. ASSUME NEW c \in Procs, item'[c].isPending, item'[c].id # 0
        PROVE  Vouched(item[c].id)'
    <3>1. \E i \in Ids : item'[c].id = i /\ Vouched(i)'
      <4>1. CASE item'[c] = item[c]
        BY <1>2, <1>3, <1>4, <2>3, <4>1
      <4> QED
        BY <1>4, <2>3, <4>1
    <3> QED
      BY <3>1 DEF Vouched, Latest
  <2> QED
    BY <1>4, <2>1, <2>2, <2>3 DEF AckInv
<1>5. ASSUME UNCHANGED <<queue, dirty, txQueue>> PROVE Pend
  BY <1>5 DEF Latest
<1>6. ASSUME NEW c, NEW S \in SUBSET Ids, NEW q, Write(c, S, q),
             \A i \in S : q[i].isPending => View(c)[i].isPending \/ Vouched(i)'
      PROVE  Pend
  <2>1. /\ \A i \in S : Latest(i)' = q[i] /\ View(c)[i] = Latest(i)
        /\ \A i \in Ids \ S : Latest(i)' = Latest(i)
        /\ \A i \in Ids : queue'[i] = queue[i] \/ (i \in S \ dirty /\ queue'[i] = q[i])
    BY <1>6, WriteEffect
  <2> QED
    BY <1>6, <2>1
<1>7. ASSUME NEW c, NEW i \in Ids, Delete(c, i) PROVE Pend
  <2> DEFINE q == [View(c) EXCEPT ![i].live = FALSE]
  <2>1. Write(c, {i}, q)
    BY <1>7 DEF Delete
  <2>2. q[i].isPending = View(c)[i].isPending
    BY ViewType DEF Rows, DeviceQueueItem
  <2> HIDE DEF q, Pend
  <2> QED
    BY <1>6, <2>1, <2>2
<1>8. ASSUME NEW c \in Procs, NEW step, step # "ackDelete", Goto(c, step),
             \A d \in Procs \ {c} : item'[d] = item[d]
      PROVE  Pcs
  BY <1>8 DEF Goto, LocalTypes, AckInv
<1>9. ASSUME NEW c \in Procs, NEW step, step # "ackDelete", Forget(c, step) PROVE Items /\ Pcs
  BY <1>8, <1>9 DEF Forget, LocalTypes, NoItem
<1>10. ASSUME NEW c \in Procs, item' = [item EXCEPT ![c] = NoItem]
       PROVE  Items /\ \A d \in Procs \ {c} : item'[d] = item[d]
  BY <1>10 DEF LocalTypes, NoItem
<1>11. ASSUME item' = item PROVE Items
  BY <1>11
<1>12. ASSUME item' = item, pc' = pc PROVE Items /\ Pcs
  BY <1>12 DEF AckInv
<1>13. acked' = acked => Acks
  OBVIOUS
<1>14. txAcked' = txAcked => More
  OBVIOUS
<1>15. ASSUME NEW c \in Procs, Stop(c) \/ Leave(c) PROVE Items /\ Pcs
  BY <1>9, <1>15 DEF Stop, Leave
<1> HIDE DEF Pend, Acks, Items, Pcs, More
<1>16. ASSUME NEW u \in Uplinks, UplinkStep(u) PROVE AckInv'
  <2>0. u \in Procs
    BY DEF Procs
  <2>1. CASE UplinkGetSession(u) \/ UplinkSaveSession(u)
    <3>1. Pcs
      BY <1>8, <2>0, <2>1 DEF UplinkGetSession, UplinkSaveSession
    <3> QED
      BY <1>4, <1>5, <1>11, <1>13, <1>14, <2>1, <3>1
      DEF UplinkGetSession, UplinkSaveSession, dbVars, histVars
  <2>2. CASE UplinkACK(u)
    <3>1. Pend /\ Acks /\ More
      BY <1>5, <1>13, <1>14, <2>2 DEF UplinkACK, dbVars, histVars
    <3>2. CASE item' = item /\ Goto(u, "next")
      BY <1>4, <1>8, <1>11, <2>0, <3>1, <3>2
    <3>3. ASSUME NEW i \in PendingRow(u), Goto(u, "ackDelete"),
                 item' = [item EXCEPT ![u] = [id |-> i, isPending |-> TRUE]]
          PROVE  AckInv'
      <4>1. i \in Ids /\ queue[i].isPending
        BY <3>3 DEF PendingRow, FirstIds, LiveIds
      <4>2. Vouched(i)'
        BY <1>2, <3>1, <4>1 DEF AckInv
      <4>3. /\ item'[u].id = i /\ item'[u].isPending
            /\ \A d \in Procs \ {u} : item'[d] = item[d] /\ pc'[d] = pc[d]
        BY <2>0, <3>3 DEF LocalTypes, Goto
      <4>4. Items
        BY <4>1, <4>2, <4>3 DEF Items
      <4>5. Pcs
        BY <4>3 DEF Pcs, AckInv
      <4> QED
        BY <1>4, <3>1, <4>4, <4>5
    <3> QED
      BY <2>2, <3>2, <3>3 DEF UplinkACK
  <2>3. CASE UplinkACKDelete(u)
    <3>1. item[u].id \in Ids /\ item[u].id # 0 /\ item[u].isPending
      BY <2>0, <2>3 DEF UplinkACKDelete, ItemKnown, AckInv, Ids
    <3>2. PICK i \in Ids : i = item[u].id
      BY <3>1
    <3>3. Vouched(i)
      BY <1>3, <2>0, <3>1, <3>2
    <3>4. More /\ acked' = acked \cup {i}
      BY <1>14, <2>3, <3>2 DEF UplinkACKDelete
    <3>5. Vouched(i)'
      BY <1>2, <3>3, <3>4
    <3>6. Acks
      BY <3>4, <3>5 DEF Acks
    <3>7. Pend
      BY <1>7, <2>3, <3>2 DEF UplinkACKDelete
    <3>8. Items /\ Pcs
      BY <1>8, <1>10, <2>0, <2>3 DEF UplinkACKDelete
    <3> QED
      BY <1>4, <3>4, <3>6, <3>7, <3>8
  <2>4. CASE UplinkACKASError(u)
    <3>1. Pend
      BY <1>7, <2>0, <2>4 DEF UplinkACKASError, ItemKnown
    <3> QED
      BY <1>4, <1>13, <1>14, <1>15, <2>0, <2>4, <3>1 DEF UplinkACKASError
  <2>5. CASE UplinkACKGone(u)
    BY <1>4, <1>5, <1>13, <1>14, <1>15, <2>0, <2>5 DEF UplinkACKGone, dbVars, histVars
  <2> QED
    BY <1>16, <2>1, <2>2, <2>3, <2>4, <2>5 DEF UplinkStep
<1>17. ASSUME NEW c \in Uplinks \cup Schedulers, QueueStep(c) PROVE AckInv'
  <2>0. c \in Procs
    BY DEF Procs
  <2>1. CASE NextItem(c)
    <3>1. Pend /\ Acks /\ More
      BY <1>5, <1>13, <1>14, <2>1 DEF NextItem, dbVars, histVars
    <3>2. ASSUME item' = [item EXCEPT ![c] = NoItem], Goto(c, "compose")
          PROVE  AckInv'
      BY <1>4, <1>8, <1>10, <2>0, <3>1, <3>2
    <3>3. ASSUME NEW i \in FirstIds(View(c)), NEW step \in {"compose", "drop", "snapshot"},
                 Goto(c, step),
                 item' = [item EXCEPT ![c] = [id |-> i, isPending |-> View(c)[i].isPending]]
          PROVE  AckInv'
      <4>1. i \in Ids
        BY <3>3 DEF FirstIds, LiveIds
      <4>2. View(c)[i] = queue[i] \/ View(c)[i] = Latest(i)
        BY <4>1 DEF View, Latest, StoreTypes
      <4>3. View(c)[i].isPending => Vouched(i)'
        BY <1>2, <3>1, <4>1, <4>2 DEF AckInv
      <4>4. /\ item'[c].id = i /\ item'[c].isPending = View(c)[i].isPending
            /\ \A d \in Procs \ {c} : item'[d] = item[d]
        BY <2>0, <3>3 DEF LocalTypes
      <4>5. Items
        BY <4>1, <4>3, <4>4 DEF Items
      <4>6. Pcs
        BY <1>8, <2>0, <3>3, <4>4
      <4> QED
        BY <1>4, <3>1, <4>5, <4>6
    <3> QED
      BY <2>1, <3>2, <3>3 DEF NextItem
  <2>2. CASE DropItem(c)
    <3>1. Pend
      BY <1>7, <2>0, <2>2 DEF DropItem, ItemKnown
    <3>2. Items /\ Pcs
      BY <1>8, <1>10, <2>0, <2>2 DEF DropItem
    <3> QED
      BY <1>4, <1>13, <1>14, <2>2, <3>1, <3>2 DEF DropItem
  <2>3. CASE DropItemASError(c)
    <3>1. Pend
      BY <1>7, <2>0, <2>3 DEF DropItemASError, ItemKnown
    <3> QED
      BY <1>4, <1>13, <1>14, <1>15, <2>0, <2>3, <3>1 DEF DropItemASError
  <2>4. CASE DropItemGone(c) \/ ReencryptError(c) \/ NothingSent(c)
    BY <1>4, <1>5, <1>13, <1>14, <1>15, <2>0, <2>4
    DEF DropItemGone, ReencryptError, NothingSent, dbVars, histVars
  <2>5. CASE ReadQueue(c)
    <3>1. Items /\ Pcs
      BY <1>8, <1>10, <2>0, <2>5 DEF ReadQueue
    <3> QED
      BY <1>4, <1>5, <1>13, <1>14, <2>5, <3>1 DEF ReadQueue, dbVars, histVars
  <2>6. CASE FlushQueue(c)
    <3>1. Pcs
      BY <1>8, <2>0, <2>6 DEF FlushQueue
    <3> QED
      BY <1>4, <1>5, <1>11, <1>13, <1>14, <2>6, <3>1 DEF FlushQueue, dbVars, histVars
  <2>7. CASE RecreateQueue(c)
    <3>1. PICK S \in SUBSET Ids, q \in Rows :
            /\ Write(c, S, q)
            /\ \A i \in S : ~q[i].isPending \/ q[i].isPending = View(c)[i].isPending
      BY <2>0, <2>7, RecreateEffect
    <3>2. Pend
      BY <1>6, <3>1
    <3>3. Pcs
      BY <1>8, <2>0, <2>7 DEF RecreateQueue
    <3> QED
      BY <1>4, <1>11, <1>13, <1>14, <2>7, <3>2, <3>3 DEF RecreateQueue, histVars
  <2>8. CASE SendFrame(c)
    <3>1. Pend /\ Acks /\ More
      BY <1>5, <1>13, <1>14, <2>8 DEF SendFrame, dbVars, histVars
    <3>2. CASE c \in Schedulers
      <4>1. Goto(c, "retry") /\ item' = item
        BY <2>8, <3>2 DEF SendFrame
      <4> QED
        BY <1>4, <1>8, <1>11, <2>0, <3>1, <4>1
    <3>3. CASE c \notin Schedulers
      BY <1>4, <1>15, <2>0, <2>8, <3>1, <3>3 DEF SendFrame
    <3> QED
      BY <3>2, <3>3
  <2> QED
    BY <1>17, <2>1, <2>2, <2>3, <2>4, <2>5, <2>6, <2>7, <2>8 DEF QueueStep
<1>18. ASSUME NEW c, Rollback(c), queue' = queue PROVE Pend
  BY <1>18 DEF Rollback, Latest, Pend
<1>19. ASSUME NEW s \in Schedulers, SchedulerStep(s) PROVE AckInv'
  <2>0. s \in Procs
    BY DEF Procs
  <2>1. CASE SelectDevice(s) \/ SchedulerGetSession(s) \/ SchedulerSkip(s) \/ LockSelected(s)
    <3>1. Pcs
      BY <1>8, <2>0, <2>1 DEF SelectDevice, SchedulerGetSession, SchedulerSkip, LockSelected
    <3> QED
      BY <1>4, <1>5, <1>11, <1>13, <1>14, <2>1, <3>1
      DEF SelectDevice, SchedulerGetSession, SchedulerSkip, LockSelected, dbVars, histVars
  <2>2. CASE SetRetryAfter(s)
    <3>1. Acks /\ More
      BY <1>13, <1>14, <2>2 DEF SetRetryAfter, histVars
    <3>2. Items /\ Pcs
      BY <1>9, <2>0, <2>2 DEF SetRetryAfter
    <3>3. Pend
      <4>1. CASE UNCHANGED <<queue, devLock, dirty, txQueue>>
        BY <1>5, <4>1
      <4>2. CASE Write(s, {item[s].id},
                       [View(s) EXCEPT ![item[s].id].isPending = item[s].isPending,
                                       ![item[s].id].retryAfter = "future"])
        <5> DEFINE q == [View(s) EXCEPT ![item[s].id].isPending = item[s].isPending,
                                        ![item[s].id].retryAfter = "future"]
        <5>1. PICK i \in Ids : i = item[s].id
          BY <2>0, <2>2 DEF SetRetryAfter, ItemKnown
        <5>2. q[i].isPending = item[s].isPending
          BY <5>1, ViewType DEF Rows, DeviceQueueItem
        <5>3. i # 0
          BY DEF Ids
        <5>4. q[i].isPending => Vouched(i)'
          BY <1>2, <1>3, <2>0, <3>1, <5>1, <5>2, <5>3
        <5>5. Write(s, {i}, q)
          BY <4>2, <5>1
        <5> HIDE DEF q
        <5> QED
          BY <1>6, <5>4, <5>5
      <4> QED
        BY <2>2, <4>1, <4>2 DEF SetRetryAfter
    <3> QED
      BY <1>4, <3>1, <3>2, <3>3
  <2>3. CASE AbortTransaction(s)
    BY <1>4, <1>13, <1>14, <1>15, <1>18, <2>0, <2>3 DEF AbortTransaction
  <2> QED
    BY <1>19, <2>1, <2>2, <2>3 DEF SchedulerStep
<1>20. ASSUME NEW a \in AckHandlers, AckStep(a) PROVE AckInv'
  <2>0. a \in Procs
    BY DEF Procs
  <2>1. CASE \E m \in txAcks : ReceiveTXAck(a, m)
    <3>1. PICK m \in txAcks : ReceiveTXAck(a, m)
      BY <2>1
    <3>2. Pcs
      BY <1>8, <1>12, <2>0, <3>1 DEF ReceiveTXAck
    <3> QED
      BY <1>4, <1>5, <1>11, <1>13, <1>14, <3>1, <3>2 DEF ReceiveTXAck, dbVars, histVars
  <2>2. CASE LockDevice(a) \/ AckGetSession(a)
    <3>1. Pcs
      BY <1>8, <2>0, <2>2 DEF LockDevice, AckGetSession
    <3> QED
      BY <1>4, <1>5, <1>11, <1>13, <1>14, <2>2, <3>1 DEF LockDevice, AckGetSession, dbVars, histVars
  <2>3. CASE ApplyTXAck(a)
    <3>1. PICK i \in Ids : i = frames[job[a].token].id
      BY <2>3 DEF ApplyTXAck
    <3>2. devLock = a /\ dirty = {}
      BY <2>0, <2>3 DEF ApplyTXAck, Locking, Holding
    <3>3. View(a)[i] = queue[i] /\ Latest(i) = queue[i] /\ View(a)[i].live
      BY <2>3, <3>1, <3>2 DEF ApplyTXAck, View, Latest
    <3>4. queue[i].payload # None
      BY <3>3 DEF PayloadInv, RowPayloads
    <3>5. txAcked' = txAcked \cup {queue[i].payload}
      BY <2>3, <3>1, <3>3 DEF ApplyTXAck
    <3>6. Vouched(i)' /\ More
      BY <1>1, <3>3, <3>4, <3>5 DEF More
    <3>7. Pend
      <4>1. \E q : Write(a, {i}, q)
        BY <2>3, <3>1 DEF ApplyTXAck, Delete
      <4> QED
        BY <1>6, <3>6, <4>1
    <3>8. Pcs /\ Items /\ Acks
      BY <1>8, <1>11, <1>13, <2>0, <2>3 DEF ApplyTXAck
    <3> QED
      BY <1>4, <3>6, <3>7, <3>8
  <2>4. CASE TXAckItemGone(a)
    BY <1>4, <1>5, <1>13, <1>14, <1>15, <2>0, <2>4 DEF TXAckItemGone, histVars
  <2>5. CASE AckSaveSessionMAC(a)
    BY <1>4, <1>5, <1>13, <1>14, <1>15, <2>0, <2>5 DEF AckSaveSessionMAC, dbVars
  <2>6. CASE AckSaveSession(a)
    BY <1>4, <1>5, <1>9, <1>13, <1>14, <2>0, <2>6 DEF AckSaveSession, dbVars
  <2> QED
    BY <1>20, <2>1, <2>2, <2>3, <2>4, <2>5, <2>6 DEF AckStep
<1>21. ASSUME NEW c \in Schedulers \cup AckHandlers, Commit(c) PROVE AckInv'
  <2>1. c \in Procs /\ devLock = c
    BY <1>21 DEF Commit, Locking, Holding, Procs
  <2>2. \A i \in Ids : queue'[i] = Latest(i) /\ Latest(i)' = Latest(i)
    BY <1>21, <2>1 DEF Commit, View, Latest
  <2>3. Pend
    BY <2>2 DEF Pend
  <2> QED
    BY <1>4, <1>13, <1>14, <1>15, <1>21, <2>1, <2>3 DEF Commit, histVars
<1>22. ASSUME NEW c \in Procs, Crash(c) PROVE AckInv'
  <2>1. Pend
    BY <1>5, <1>18, <1>22 DEF Crash
  <2> QED
    BY <1>4, <1>13, <1>14, <1>15, <1>22, <2>1 DEF Crash
<1>23. ASSUME NEW p \in Payloads, CreateDeviceQueueItem(p) PROVE AckInv'
  <2>0. PICK n \in Ids : n = nextId
    BY <1>23 DEF CreateDeviceQueueItem
  <2>1. UNCHANGED <<dirty, txQueue, item, pc, acked, txAcked>> /\ n \notin dirty
    BY <1>23, <2>0 DEF CreateDeviceQueueItem, localVars, Fresh, StoreTypes
  <2>2. ~queue'[n].isPending /\ \A i \in Ids \ {n} : queue'[i] = queue[i]
    BY <1>23, <2>0 DEF CreateDeviceQueueItem, StoreTypes, NewRow
  <2>3. Pend
    BY <2>1, <2>2 DEF Pend, Latest
  <2> QED
    BY <1>4, <1>12, <1>13, <1>14, <2>1, <2>3
<1>24. ASSUME NEW f \in Flushers, FlushStart(f) PROVE AckInv'
  <2>1. Pcs
    BY <1>8, <1>24 DEF FlushStart, Procs
  <2> QED
    BY <1>4, <1>5, <1>11, <1>13, <1>14, <1>24, <2>1 DEF FlushStart, dbVars, histVars
<1>25. ASSUME NEW f \in Flushers, FlushEnd(f) PROVE AckInv'
  <2>0. f \in Procs /\ View(f) = queue
    BY ProcsDisjoint DEF Procs, Locking, Holding, View
  <2> DEFINE q == [i \in Ids |-> [queue[i] EXCEPT !.live = FALSE]]
  <2>1. target[f] \in SUBSET Ids
    BY <2>0 DEF LocalTypes
  <2>2. \A i \in target[f] : q[i].isPending = queue[i].isPending
    BY <2>1 DEF StoreTypes, DeviceQueueItem
  <2>3. Write(f, target[f], q)
    BY <1>25 DEF FlushEnd
  <2> HIDE DEF q
  <2>4. Pend
    BY <1>6, <2>0, <2>1, <2>2, <2>3
  <2> QED
    BY <1>4, <1>13, <1>14, <1>15, <1>25, <2>0, <2>4 DEF FlushEnd
<1>26. ASSUME NEW i \in Ids, TimeoutPasses(i) \/ RetryPasses(i) PROVE AckInv'
  <2>1. ASSUME NEW j \in Ids
        PROVE  /\ queue'[j].isPending = queue[j].isPending
               /\ (Latest(j)').isPending = Latest(j).isPending
    <3>1. /\ dirty' = dirty
          /\ queue'[j].isPending = queue[j].isPending
          /\ txQueue'[j].isPending = txQueue[j].isPending
      BY <1>26, TimeEffect
    <3>2. CASE j \in dirty
      BY <3>1, <3>2 DEF Latest
    <3>3. CASE j \notin dirty
      BY <3>1, <3>3 DEF Latest
    <3> QED
      BY <3>2, <3>3
  <2>2. Pend
    BY <2>1 DEF Pend
  <2> QED
    BY <1>4, <1>12, <1>13, <1>14, <1>26, <2>2 DEF TimeoutPasses, RetryPasses, localVars, histVars
<1>27. ASSUME UNCHANGED <<dbVars, localVars, histVars>> PROVE AckInv'
  BY <1>4, <1>5, <1>12, <1>13, <1>14, <1>27 DEF dbVars, localVars, histVars
<1> QED
  BY <1>16, <1>17, <1>19, <1>20, <1>21, <1>22, <1>23, <1>24, <1>25, <1>26, <1>27
  DEF Next, EnvStep, vars, Procs, GetNextDownlinkFCnt, Transmit

-----------------------------------------------------------------------------
(* Losses *)

\* Of the rows v, w has those whose loss is not explained by the outcomes o or by x.
Keeps(v, w, o, x) ==
    \A i \in Ids : v[i].live /\ v[i].payload # None => w[i].live \/ o[i] > 0 \/ v[i].payload \in x

\* What is told stays told.
LEMMA ToldStays ==
  ASSUME NEW v, NEW w, NEW o, NEW n, NEW p, p # None, Fixed(v, w),
         \A i \in Ids : o[i] > 0 => n[i] > 0, Told(v, o, p)
  PROVE  Told(w, n, p)
  BY DEF Told, Fixed

\* A payload that is in the queue or was told, and is not accounted for, still is.
LEMMA KeptStays ==
  ASSUME NEW v, NEW w, NEW o, NEW n, NEW x, NEW p, p # None, p \notin x, Fixed(v, w),
         Keeps(v, w, n, x), \A i \in Ids : o[i] > 0 => n[i] > 0,
         Told(v, o, p) \/ Alive(v, p)
  PROVE  Told(w, n, p) \/ Alive(w, p)
<1>1. CASE Told(v, o, p)
  BY <1>1, ToldStays
<1>2. CASE Alive(v, p)
  <2>1. PICK i \in Ids : v[i].payload = p /\ v[i].live
    BY <1>2 DEF Alive
  <2>2. w[i].payload = p
    BY <2>1 DEF Fixed
  <2>3. w[i].live \/ n[i] > 0
    BY <2>1 DEF Keeps
  <2> QED
    BY <2>2, <2>3 DEF Told, Alive
<1> QED
  BY <1>1, <1>2

\* Every step preserves LossInv: what leaves the queue was re-created, transmitted, told
\* to the AS or excused.
LEMMA LossStep ==
  ASSUME TypeOK, ItemKnown, Locking, Fresh, PayloadInv, PayloadInv', PayloadsStay,
         LossInv, [Next]_vars
  PROVE  LossInv'
<1> USE DEF TypeOK
<1> DEFINE More == /\ \A i \in Ids : outcomes[i] > 0 => outcomes'[i] > 0
                   /\ excused \subseteq excused' /\ txAcked \subseteq txAcked'
           Kept == /\ Keeps(queue, queue', outcomes', Accounted')
                   /\ Keeps(Last, Last', outcomes', Accounted') \/ Last' = queue'
           Windows == \A c \in Procs : pc'[c] \in Reencrypting =>
                        pc[c] \in Reencrypting /\ snap'[c] = snap[c]
<1>0. More => Accounted \subseteq Accounted'
  BY DEF Accounted
<1>1. \A p \in submitted : p # None
  BY NonePayload DEF NetTypes
<1>2. ASSUME More, Kept,
             \A p \in submitted' \ Accounted' : p \in submitted \/ (Alive(queue', p) /\ Alive(Last', p))
      PROVE  CommittedKept' /\ LastKept'
  <2>1. ASSUME NEW p \in submitted' \ Accounted'
        PROVE  Told(queue', outcomes', p) \/ Alive(queue', p)
    <3>1. CASE p \in submitted
      <4>1. p \notin Accounted /\ p # None
        BY <1>0, <1>1, <1>2, <2>1, <3>1
      <4>2. Told(queue, outcomes, p) \/ Alive(queue, p)
        BY <3>1, <4>1 DEF LossInv, CommittedKept
      <4> QED
        BY <1>2, <2>1, <4>1, <4>2, KeptStays DEF PayloadsStay
    <3> QED
      BY <1>2, <3>1
  <2>2. CommittedKept'
    BY <2>1 DEF CommittedKept
  <2>3. CASE Last' = queue'
    BY <2>2, <2>3 DEF CommittedKept, LastKept
  <2>4. CASE Fixed(Last, Last') /\ Keeps(Last, Last', outcomes', Accounted')
    <3>1. ASSUME NEW p \in submitted' \ Accounted'
          PROVE  Told(Last', outcomes', p) \/ Alive(Last', p)
      <4>1. CASE p \in submitted
        <5>1. p \notin Accounted /\ p # None
          BY <1>0, <1>1, <1>2, <3>1, <4>1
        <5>2. Told(Last, outcomes, p) \/ Alive(Last, p)
          BY <4>1, <5>1 DEF LossInv, LastKept
        <5> QED
          BY <1>2, <2>4, <3>1, <5>1, <5>2, KeptStays
      <4> QED
        BY <1>2, <4>1
    <3> QED
      BY <2>2, <3>1 DEF LastKept
  <2> QED
    BY <1>2, <2>2, <2>3, <2>4 DEF PayloadsStay
<1>3. ASSUME NEW c \in Procs, NEW p \in submitted' \ Accounted', p \in submitted, More,
             pc'[c] \in Reencrypting, pc[c] \in Reencrypting, snap'[c] = snap[c]
      PROVE  Told(View(c)', outcomes', p) \/ \E j \in snap'[c] : (View(c)')[j].payload = p
  <2>1. p \notin Accounted /\ p # None
    BY <1>0, <1>1, <1>3
  <2>2. Fixed(View(c), View(c)')
    BY <1>3 DEF PayloadsStay, Reencrypting
  <2>3. Told(View(c), outcomes, p) \/ \E j \in snap[c] : View(c)[j].payload = p
    BY <1>3, <2>1 DEF LossInv, SnapKept
  <2>4. CASE Told(View(c), outcomes, p)
    BY <1>3, <2>1, <2>2, <2>4, ToldStays
  <2>5. ASSUME NEW j \in snap[c], View(c)[j].payload = p PROVE (View(c)')[j].payload = p
    <3>1. j \in Ids
      BY DEF LocalTypes
    <3> QED
      BY <2>1, <2>2, <2>5, <3>1 DEF Fixed
  <2> QED
    BY <1>3, <2>3, <2>4, <2>5
<1>4. ASSUME More, Windows, submitted' = submitted PROVE SnapKept'
  BY <1>3, <1>4 DEF SnapKept
<1>5. ASSUME More, Kept, Windows, submitted' = submitted PROVE LossInv'
  BY <1>2, <1>4, <1>5 DEF LossInv
<1>6. ASSUME UNCHANGED <<queue, dirty, txQueue>> PROVE Kept
  <2>1. Last' = Last
    BY <1>6 DEF Last, Latest
  <2> QED
    BY <1>6, <2>1 DEF Keeps
<1>7. ASSUME NEW c, NEW S \in SUBSET Ids, NEW q, Write(c, S, q),
             \A i \in S : View(c)[i].live /\ View(c)[i].payload # None =>
               q[i].live \/ outcomes'[i] > 0 \/ View(c)[i].payload \in Accounted'
      PROVE  Kept
  <2>1. /\ \A i \in S : Latest(i)' = q[i] /\ View(c)[i] = Latest(i)
        /\ \A i \in Ids \ S : Latest(i)' = Latest(i)
        /\ \A i \in Ids : queue'[i] = queue[i] \/ (i \in S \ dirty /\ queue'[i] = q[i])
    BY <1>7, WriteEffect
  <2>2. \A i \in Ids \ dirty : Latest(i) = queue[i]
    BY DEF Latest
  <2>3. Keeps(queue, queue', outcomes', Accounted')
    BY <1>7, <2>1, <2>2 DEF Keeps
  <2>4. \A i \in Ids : Last[i] = Latest(i) /\ Last'[i] = Latest(i)'
    BY DEF Last
  <2>5. Keeps(Last, Last', outcomes', Accounted')
    BY <1>7, <2>1, <2>4 DEF Keeps
  <2> QED
    BY <2>3, <2>5
<1> HIDE DEF Kept
<1>8. ASSUME NEW c, NEW i \in Ids, Delete(c, i),
             outcomes'[i] > 0 \/ View(c)[i].payload \in Accounted'
      PROVE  Kept
  <2>1. PICK q : Write(c, {i}, q)
    BY <1>8 DEF Delete
  <2> QED
    BY <1>7, <1>8, <2>1
<1>9. ASSUME NEW i \in Ids, Report(i), UNCHANGED <<excused, txAcked>>
      PROVE  More /\ outcomes'[i] > 0
  <2>1. /\ outcomes'[i] = outcomes[i] + 1 /\ outcomes[i] \in Nat
        /\ \A j \in Ids \ {i} : outcomes'[j] = outcomes[j]
    BY <1>9 DEF Report, HistTypes
  <2> QED
    BY <1>9, <2>1
<1>10. ASSUME NEW c \in Procs, NEW step, step \notin Reencrypting, Goto(c, step),
              \A d \in Procs \ {c} : snap'[d] = snap[d]
       PROVE  Windows
  BY <1>10 DEF Goto, LocalTypes
<1>11. ASSUME NEW c \in Procs, NEW step, step \notin Reencrypting, Forget(c, step) PROVE Windows
  <2>1. Goto(c, step) /\ \A d \in Procs \ {c} : snap'[d] = snap[d]
    BY <1>11 DEF Forget, LocalTypes
  <2> HIDE DEF Windows
  <2> QED
    BY <1>10, <1>11, <2>1
<1>12. ASSUME NEW c \in Procs, Stop(c) \/ Leave(c) PROVE Windows
  <2> HIDE DEF Windows
  <2> QED
    BY <1>11, <1>12 DEF Stop, Leave, Reencrypting
<1>13. ASSUME UNCHANGED <<pc, snap>> PROVE Windows
  BY <1>13
<1>14. ASSUME UNCHANGED <<outcomes, excused, txAcked>> PROVE More
  BY <1>14
<1>15. ASSUME excused \subseteq excused', UNCHANGED <<outcomes, txAcked>> PROVE More
  BY <1>15
<1> HIDE DEF More, Windows
<1>16. ASSUME NEW u \in Uplinks, UplinkStep(u) PROVE LossInv'
  <2>0. u \in Procs
    BY DEF Procs
  <2>1. CASE UplinkGetSession(u) \/ UplinkSaveSession(u)
    <3>1. Windows
      BY <1>10, <2>0, <2>1 DEF UplinkGetSession, UplinkSaveSession, Reencrypting
    <3> QED
      BY <1>5, <1>6, <1>14, <2>1, <3>1
      DEF UplinkGetSession, UplinkSaveSession, dbVars, netVars, histVars
  <2>2. CASE UplinkACK(u)
    <3>1. Windows
      BY <1>10, <2>0, <2>2 DEF UplinkACK, Reencrypting
    <3> QED
      BY <1>5, <1>6, <1>14, <2>2, <3>1 DEF UplinkACK, dbVars, netVars, histVars
  <2>3. CASE UplinkACKDelete(u)
    <3>1. Windows
      BY <1>10, <2>0, <2>3 DEF UplinkACKDelete, Reencrypting
    <3>2. More /\ outcomes'[item[u].id] > 0
      BY <1>9, <2>0, <2>3 DEF UplinkACKDelete, ItemKnown
    <3>3. Kept
      BY <1>8, <2>0, <2>3, <3>2 DEF UplinkACKDelete, ItemKnown
    <3> QED
      BY <1>5, <2>3, <3>1, <3>2, <3>3 DEF UplinkACKDelete, netVars
  <2>4. CASE UplinkACKASError(u)
    <3>1. More
      BY <1>15, <2>4 DEF UplinkACKASError
    <3>2. View(u)[item[u].id].payload \in Accounted'
      BY <2>4 DEF UplinkACKASError, Accounted
    <3>3. Kept
      BY <1>8, <2>0, <2>4, <3>2 DEF UplinkACKASError, ItemKnown
    <3> QED
      BY <1>5, <1>12, <2>0, <2>4, <3>1, <3>3 DEF UplinkACKASError, netVars
  <2>5. CASE UplinkACKGone(u)
    BY <1>5, <1>6, <1>12, <1>14, <2>0, <2>5 DEF UplinkACKGone, dbVars, netVars, histVars
  <2> QED
    BY <1>16, <2>1, <2>2, <2>3, <2>4, <2>5 DEF UplinkStep
<1>17. ASSUME NEW c \in Uplinks \cup Schedulers, QueueStep(c) PROVE LossInv'
  <2>0. c \in Procs
    BY DEF Procs
  <2>1. CASE NextItem(c)
    <3>1. Windows
      <4>1. \E step : step \notin Reencrypting /\ Goto(c, step)
        BY <2>1 DEF NextItem, Reencrypting
      <4> QED
        BY <1>10, <2>0, <2>1, <4>1 DEF NextItem
    <3> QED
      BY <1>5, <1>6, <1>14, <2>1, <3>1 DEF NextItem, dbVars, netVars, histVars
  <2>2. CASE DropItem(c)
    <3>1. Windows
      BY <1>10, <2>0, <2>2 DEF DropItem, Reencrypting
    <3>2. More /\ outcomes'[item[c].id] > 0
      BY <1>9, <2>0, <2>2 DEF DropItem, ItemKnown
    <3>3. Kept
      BY <1>8, <2>0, <2>2, <3>2 DEF DropItem, ItemKnown
    <3> QED
      BY <1>5, <2>2, <3>1, <3>2, <3>3 DEF DropItem, netVars
  <2>3. CASE DropItemASError(c)
    <3>1. More
      BY <1>15, <2>3 DEF DropItemASError
    <3>2. View(c)[item[c].id].payload \in Accounted'
      BY <2>3 DEF DropItemASError, Accounted
    <3>3. Kept
      BY <1>8, <2>0, <2>3, <3>2 DEF DropItemASError, ItemKnown
    <3> QED
      BY <1>5, <1>12, <2>0, <2>3, <3>1, <3>3 DEF DropItemASError, netVars
  <2>4. CASE DropItemGone(c) \/ ReencryptError(c) \/ NothingSent(c)
    BY <1>5, <1>6, <1>12, <1>14, <2>0, <2>4
    DEF DropItemGone, ReencryptError, NothingSent, dbVars, netVars, histVars
  <2>5. CASE ReadQueue(c)
    <3>1. More /\ Kept /\ submitted' = submitted
      BY <1>6, <1>14, <2>5 DEF ReadQueue, dbVars, netVars, histVars
    <3>2. CommittedKept' /\ LastKept'
      BY <1>2, <3>1
    <3>3. /\ snap'[c] = LiveIds(View(c))
          /\ \A d \in Procs \ {c} : snap'[d] = snap[d] /\ pc'[d] = pc[d]
      BY <2>0, <2>5 DEF ReadQueue, Goto, LocalTypes
    <3>4. /\ UNCHANGED <<queue, dirty, txQueue, devLock, outcomes>>
          /\ Accounted' = Accounted /\ View(c)' = View(c)
      BY <2>5 DEF ReadQueue, dbVars, histVars, Accounted, View
    <3>5. View(c) = queue \/ View(c) = Last
      BY DEF View, Last, Latest
    <3>6. ASSUME NEW p \in submitted \ Accounted
          PROVE  Told(View(c), outcomes, p) \/ \E i \in LiveIds(View(c)) : View(c)[i].payload = p
      <4>1. Told(View(c), outcomes, p) \/ Alive(View(c), p)
        BY <3>5, <3>6 DEF LossInv, CommittedKept, LastKept
      <4> QED
        BY <4>1 DEF Alive, LiveIds
    <3>7. ASSUME NEW d \in Procs, pc'[d] \in Reencrypting, NEW p \in submitted' \ Accounted'
          PROVE  Told(View(d)', outcomes', p) \/ \E i \in snap'[d] : (View(d)')[i].payload = p
      <4>1. CASE d = c
        BY <3>1, <3>3, <3>4, <3>6, <3>7, <4>1
      <4>2. CASE d # c
        BY <1>3, <3>1, <3>3, <3>7, <4>2
      <4> QED
        BY <4>1, <4>2
    <3>8. SnapKept'
      BY <3>7 DEF SnapKept
    <3> QED
      BY <3>2, <3>8 DEF LossInv
  <2>6. CASE FlushQueue(c)
    <3>1. Windows
      BY <2>0, <2>6 DEF FlushQueue, Goto, LocalTypes, Windows, Reencrypting
    <3> QED
      BY <1>5, <1>6, <1>14, <2>6, <3>1 DEF FlushQueue, dbVars, netVars, histVars
  <2>7. CASE RecreateQueue(c)
    <3>1. PICK S \in SUBSET Ids, q \in Rows :
            /\ Write(c, S, q)
            /\ \A j \in snap[c] : \E i \in S : q[i].live /\ q[i].payload = View(c)[j].payload
      BY <2>0, <2>7, RecreateEffect
    <3>2. Windows
      BY <1>10, <2>0, <2>7 DEF RecreateQueue, Reencrypting, LocalTypes
    <3>3. UNCHANGED <<outcomes, excused, txAcked, submitted>> /\ pc[c] \in Reencrypting
      BY <2>7 DEF RecreateQueue, netVars, histVars, Reencrypting
    <3>4. SnapKept'
      BY <1>4, <1>14, <3>2, <3>3
    <3>5. Accounted' = Accounted
      BY <3>3 DEF Accounted
    <3>6. ASSUME NEW p \in submitted \ Accounted
          PROVE  \/ Told(View(c), outcomes, p)
                 \/ \E i \in S : q[i].live /\ q[i].payload = p
      BY <2>0, <3>1, <3>3, <3>6 DEF LossInv, SnapKept
    <3>7. \A i \in S : Last'[i] = q[i]
      <4>1. \A i \in S : Latest(i)' = q[i]
        BY <3>1, WriteEffect
      <4> QED
        BY <4>1 DEF Last
    <3>8. CASE devLock = c
      <4>1. queue' = queue /\ View(c) = Last
        BY <3>1, <3>8 DEF Write, View, Last, Latest
      <4>2. CommittedKept'
        BY <3>3, <3>5, <4>1 DEF LossInv, CommittedKept
      <4>3. ASSUME Last' = queue' PROVE LastKept'
        BY <4>2, <4>3 DEF CommittedKept, LastKept
      <4>4. ASSUME Fixed(Last, Last') PROVE LastKept'
        <5>1. ASSUME NEW p \in submitted \ Accounted
              PROVE  Told(Last', outcomes, p) \/ Alive(Last', p)
          <6>1. CASE Told(Last, outcomes, p)
            BY <1>1, <4>4, <6>1, ToldStays
          <6>2. ASSUME NEW i \in S, q[i].live, q[i].payload = p PROVE Alive(Last', p)
            BY <3>7, <6>2 DEF Alive
          <6> QED
            BY <3>6, <4>1, <6>1, <6>2
        <5> QED
          BY <3>3, <3>5, <5>1 DEF LastKept
      <4> QED
        BY <3>4, <4>2, <4>3, <4>4 DEF LossInv, PayloadsStay
    <3>9. CASE devLock # c
      <4>1. View(c) = queue /\ \A i \in S : queue'[i] = q[i]
        BY <3>1, <3>9 DEF Write, View
      <4>2. ASSUME NEW p \in submitted \ Accounted
            PROVE  /\ Told(queue', outcomes, p) \/ Alive(queue', p)
                   /\ Told(Last', outcomes, p) \/ Alive(Last', p)
        <5>1. CASE Told(queue, outcomes, p)
          <6>1. Told(queue', outcomes, p) /\ p # None
            BY <1>1, <4>2, <5>1, ToldStays DEF PayloadsStay
          <6>2. \A i \in Ids : queue'[i].payload # None => Last'[i].payload = queue'[i].payload
            BY DEF PayloadInv, RowPayloads, Last, Latest
          <6> QED
            BY <6>1, <6>2 DEF Told
        <5>2. ASSUME NEW i \in S, q[i].live, q[i].payload = p
              PROVE  Alive(queue', p) /\ Alive(Last', p)
          BY <3>7, <4>1, <5>2 DEF Alive
        <5> QED
          BY <3>6, <4>1, <4>2, <5>1, <5>2
      <4>3. CommittedKept' /\ LastKept'
        BY <3>3, <3>5, <4>2 DEF CommittedKept, LastKept
      <4> QED
        BY <3>4, <4>3 DEF LossInv
    <3> QED
      BY <3>8, <3>9
  <2>8. CASE SendFrame(c)
    <3>1. More /\ Kept /\ submitted' = submitted
      BY <1>6, <1>14, <2>8 DEF SendFrame, dbVars, histVars
    <3>2. CASE c \in Schedulers
      <4>1. Goto(c, "retry") /\ snap' = snap
        BY <2>8, <3>2 DEF SendFrame
      <4> QED
        BY <1>5, <1>10, <2>0, <3>1, <4>1 DEF Reencrypting
    <3>3. CASE c \notin Schedulers
      BY <1>5, <1>12, <2>0, <2>8, <3>1, <3>3 DEF SendFrame
    <3> QED
      BY <3>2, <3>3
  <2> QED
    BY <1>17, <2>1, <2>2, <2>3, <2>4, <2>5, <2>6, <2>7, <2>8 DEF QueueStep
<1>18. ASSUME NEW c, Rollback(c), queue' = queue PROVE Kept
  <2>1. Last' = queue'
    BY <1>18 DEF Rollback, Last, Latest, StoreTypes
  <2> QED
    BY <1>18, <2>1 DEF Kept, Keeps
<1>19. ASSUME NEW s \in Schedulers, SchedulerStep(s) PROVE LossInv'
  <2>0. s \in Procs
    BY DEF Procs
  <2>1. CASE SelectDevice(s) \/ SchedulerGetSession(s) \/ SchedulerSkip(s) \/ LockSelected(s)
    <3>1. Windows
      BY <1>10, <2>0, <2>1
      DEF SelectDevice, SchedulerGetSession, SchedulerSkip, LockSelected, Reencrypting
    <3> QED
      BY <1>5, <1>6, <1>14, <2>1, <3>1
      DEF SelectDevice, SchedulerGetSession, SchedulerSkip, LockSelected, dbVars, netVars, histVars
  <2>2. CASE SetRetryAfter(s)
    <3>1. More /\ submitted' = submitted
      BY <1>14, <2>2 DEF SetRetryAfter, netVars, histVars
    <3>2. Windows
      BY <1>11, <2>0, <2>2 DEF SetRetryAfter, Reencrypting
    <3>3. Kept
      <4>1. CASE UNCHANGED <<queue, devLock, dirty, txQueue>>
        BY <1>6, <4>1
      <4>2. CASE Write(s, {item[s].id},
                       [View(s) EXCEPT ![item[s].id].isPending = item[s].isPending,
                                       ![item[s].id].retryAfter = "future"])
        <5> DEFINE q == [View(s) EXCEPT ![item[s].id].isPending = item[s].isPending,
                                        ![item[s].id].retryAfter = "future"]
        <5>1. PICK i \in Ids : i = item[s].id
          BY <2>0, <2>2 DEF SetRetryAfter, ItemKnown
        <5>2. q[i].live = View(s)[i].live
          BY <5>1, ViewType DEF Rows, DeviceQueueItem
        <5>3. Write(s, {i}, q)
          BY <4>2, <5>1
        <5> HIDE DEF q
        <5> QED
          BY <1>7, <5>2, <5>3
      <4> QED
        BY <2>2, <4>1, <4>2 DEF SetRetryAfter
    <3> QED
      BY <1>5, <3>1, <3>2, <3>3
  <2>3. CASE AbortTransaction(s)
    BY <1>5, <1>12, <1>14, <1>18, <2>0, <2>3 DEF AbortTransaction, netVars
  <2> QED
    BY <1>19, <2>1, <2>2, <2>3 DEF SchedulerStep
<1>20. ASSUME NEW a \in AckHandlers, AckStep(a) PROVE LossInv'
  <2>0. a \in Procs
    BY DEF Procs
  <2>1. CASE \E m \in txAcks : ReceiveTXAck(a, m)
    <3>1. PICK m \in txAcks : ReceiveTXAck(a, m)
      BY <2>1
    <3>2. Windows
      BY <1>10, <1>13, <2>0, <3>1 DEF ReceiveTXAck, Reencrypting
    <3> QED
      BY <1>5, <1>6, <1>14, <3>1, <3>2 DEF ReceiveTXAck, dbVars, histVars
  <2>2. CASE LockDevice(a) \/ AckGetSession(a)
    <3>1. Windows
      BY <1>10, <2>0, <2>2 DEF LockDevice, AckGetSession, Reencrypting
    <3> QED
      BY <1>5, <1>6, <1>14, <2>2, <3>1
      DEF LockDevice, AckGetSession, dbVars, netVars, histVars
  <2>3. CASE ApplyTXAck(a)
    <3>1. PICK i \in Ids : i = frames[job[a].token].id
      BY <2>3 DEF ApplyTXAck
    <3>2. /\ txAcked' = txAcked \cup {View(a)[i].payload}
          /\ UNCHANGED <<excused, outcomes, submitted>>
      BY <2>3, <3>1 DEF ApplyTXAck, netVars
    <3>3. More
      BY <3>2 DEF More
    <3>4. Windows
      BY <1>10, <2>0, <2>3 DEF ApplyTXAck, Reencrypting
    <3>5. CASE View(a)[i].payload \notin Confirmed
      <4>1. Delete(a, i) /\ View(a)[i].payload \in Accounted'
        BY <2>3, <3>1, <3>2, <3>5 DEF ApplyTXAck, Accounted
      <4> QED
        BY <1>5, <1>8, <3>2, <3>3, <3>4, <4>1
    <3>6. CASE View(a)[i].payload \in Confirmed
      <4> DEFINE q == [View(a) EXCEPT ![i] = PendingItem(View(a)[i])]
      <4>1. Write(a, {i}, q)
        BY <2>3, <3>1, <3>6 DEF ApplyTXAck
      <4>2. q[i].live = View(a)[i].live
        BY ViewType DEF Rows, DeviceQueueItem, PendingItem
      <4> HIDE DEF q
      <4>3. Kept
        BY <1>7, <4>1, <4>2
      <4> QED
        BY <1>5, <3>2, <3>3, <3>4, <4>3
    <3> QED
      BY <3>5, <3>6
  <2>4. CASE TXAckItemGone(a)
    BY <1>5, <1>6, <1>12, <1>14, <2>0, <2>4 DEF TXAckItemGone, netVars, histVars
  <2>5. CASE AckSaveSessionMAC(a)
    BY <1>5, <1>6, <1>12, <1>14, <2>0, <2>5 DEF AckSaveSessionMAC, dbVars, netVars
  <2>6. CASE AckSaveSession(a)
    BY <1>5, <1>6, <1>11, <1>14, <2>0, <2>6 DEF AckSaveSession, dbVars, netVars, Reencrypting
  <2> QED
    BY <1>20, <2>1, <2>2, <2>3, <2>4, <2>5, <2>6 DEF AckStep
<1>21. ASSUME NEW c \in Schedulers \cup AckHandlers, Commit(c) PROVE LossInv'
  <2>1. c \in Procs /\ devLock = c
    BY <1>21 DEF Commit, Locking, Holding, Procs
  <2>2. queue' = Last /\ Last' = Last
    BY <1>21, <2>1 DEF Commit, View, Latest, Last
  <2>3. UNCHANGED <<outcomes, excused, txAcked, submitted>>
    BY <1>21 DEF Commit, netVars, histVars
  <2>4. Windows
    BY <1>12, <1>21, <2>1 DEF Commit
  <2>5. SnapKept'
    BY <1>4, <1>14, <2>3, <2>4
  <2>6. CommittedKept' /\ LastKept'
    BY <2>2, <2>3 DEF LossInv, CommittedKept, LastKept, Accounted
  <2> QED
    BY <2>5, <2>6 DEF LossInv
<1>22. ASSUME NEW c \in Procs, Crash(c) PROVE LossInv'
  <2>1. Kept
    BY <1>6, <1>18, <1>22 DEF Crash
  <2> QED
    BY <1>5, <1>12, <1>14, <1>22, <2>1 DEF Crash, netVars
<1>23. ASSUME NEW p \in Payloads, CreateDeviceQueueItem(p) PROVE LossInv'
  <2>0. PICK n \in Ids : n = nextId
    BY <1>23 DEF CreateDeviceQueueItem
  <2>1. /\ UNCHANGED <<dirty, txQueue, pc, snap, outcomes, txAcked>> /\ n \notin dirty
        /\ submitted' = submitted \cup {p}
        /\ excused \subseteq excused'
        /\ (\E c \in Procs : pc[c] \in Reencrypting) => p \in excused'
    BY <1>23, <2>0 DEF CreateDeviceQueueItem, localVars, Fresh, StoreTypes, Reencrypting
  <2>2. /\ queue'[n].payload = p /\ queue'[n].live
        /\ \A i \in Ids \ {n} : queue'[i] = queue[i]
    BY <1>23, <2>0 DEF CreateDeviceQueueItem, StoreTypes, NewRow
  <2>3. Last'[n] = queue'[n] /\ \A i \in Ids \ {n} : Last'[i] = Last[i]
    BY <2>1, <2>2 DEF Last, Latest
  <2>4. Kept
    BY <2>2, <2>3 DEF Kept, Keeps
  <2>5. Alive(queue', p) /\ Alive(Last', p)
    BY <2>2, <2>3 DEF Alive
  <2>6. More
    BY <1>15, <2>1
  <2>7. CommittedKept' /\ LastKept'
    BY <1>2, <2>1, <2>4, <2>5, <2>6
  <2>8. ASSUME NEW c \in Procs, pc'[c] \in Reencrypting, NEW r \in submitted' \ Accounted'
        PROVE  Told(View(c)', outcomes', r) \/ \E i \in snap'[c] : (View(c)')[i].payload = r
    <3>1. r \in submitted
      BY <2>1, <2>8 DEF Accounted
    <3> QED
      BY <1>3, <2>1, <2>6, <2>8, <3>1
  <2>9. SnapKept'
    BY <2>8 DEF SnapKept
  <2> QED
    BY <2>7, <2>9 DEF LossInv
<1>24. ASSUME NEW f \in Flushers, FlushStart(f) PROVE LossInv'
  <2>1. Windows
    BY <1>10, <1>24 DEF FlushStart, Procs, Reencrypting
  <2> QED
    BY <1>5, <1>6, <1>14, <1>24, <2>1 DEF FlushStart, dbVars, netVars, histVars
<1>25. ASSUME NEW f \in Flushers, FlushEnd(f) PROVE LossInv'
  <2>0. f \in Procs /\ View(f) = queue
    BY ProcsDisjoint DEF Procs, Locking, Holding, View
  <2>1. target[f] \in SUBSET Ids
    BY <2>0 DEF LocalTypes
  <2>2. PICK q : Write(f, target[f], q)
    BY <1>25 DEF FlushEnd
  <2>3. /\ \A i \in target[f] : queue[i].payload \in Accounted'
        /\ excused \subseteq excused'
        /\ UNCHANGED <<outcomes, txAcked, submitted>>
    BY <1>25 DEF FlushEnd, Accounted, netVars
  <2>4. Kept
    BY <1>7, <2>0, <2>1, <2>2, <2>3
  <2>5. More
    BY <1>15, <2>3
  <2> QED
    BY <1>5, <1>12, <1>25, <2>0, <2>3, <2>4, <2>5 DEF FlushEnd
<1>26. ASSUME NEW i \in Ids, TimeoutPasses(i) \/ RetryPasses(i) PROVE LossInv'
  <2>1. ASSUME NEW j \in Ids
        PROVE  queue'[j].live = queue[j].live /\ Last'[j].live = Last[j].live
    <3>1. /\ dirty' = dirty
          /\ queue'[j].live = queue[j].live
          /\ txQueue'[j].live = txQueue[j].live
      BY <1>26, TimeEffect
    <3>2. CASE j \in dirty
      BY <3>1, <3>2 DEF Last, Latest
    <3>3. CASE j \notin dirty
      BY <3>1, <3>3 DEF Last, Latest
    <3> QED
      BY <3>1, <3>2, <3>3
  <2>2. Kept
    BY <2>1 DEF Kept, Keeps
  <2> QED
    BY <1>5, <1>13, <1>14, <1>26, <2>2
    DEF TimeoutPasses, RetryPasses, localVars, netVars, histVars
<1>27. ASSUME UNCHANGED <<dbVars, localVars, histVars, submitted>> PROVE LossInv'
  BY <1>5, <1>6, <1>13, <1>14, <1>27 DEF dbVars, localVars, histVars
<1> QED
  BY <1>16, <1>17, <1>19, <1>20, <1>21, <1>22, <1>23, <1>24, <1>25, <1>26, <1>27
  DEF Next, EnvStep, vars, netVars, Procs, GetNextDownlinkFCnt, Transmit

-----------------------------------------------------------------------------
(* The theorems *)

IInv ==
    /\ TypeOK
    /\ ItemKnown
    /\ JobKnown
    /\ Locking
    /\ Fresh
    /\ PendingKept
    /\ Once
    /\ PayloadInv
    /\ AckInv
    /\ LossInv

\* The inductive invariant holds initially.
LEMMA InitIInv == Init => IInv
<1> SUFFICES ASSUME Init PROVE IInv
  OBVIOUS
<1> USE ConstantsInType DEF Init
<1>1. StoreTypes /\ LocalTypes
  BY DEF StoreTypes, LocalTypes, Steps
<1>2. NetTypes /\ HistTypes
  <2>1. NoFrame \in DownlinkFrame
    BY ConstantTypes DEF NoFrame, DownlinkFrame, Counters
  <2> QED
    BY <2>1 DEF NetTypes, HistTypes
<1>3. ItemKnown /\ JobKnown
  BY DEF ItemKnown, JobKnown, Handling
<1>4. Locking
  BY ConstantTypes DEF Locking, Holding, Procs
<1>5. Fresh
  BY DEF Fresh, NoRow
<1>6. PendingKept
  BY DEF PendingKept, TxKept, ReadKept, Procs
<1>7. Once
  BY DEF Once
<1>8. PayloadInv
  <2>1. \A i \in Ids : queue[i] = NoRow /\ Latest(i) = NoRow
    BY DEF Latest
  <2>2. RowPayloads
    BY <2>1 DEF RowPayloads, NoRow
  <2>3. \A c \in Procs : Reads(c) = {}
    BY DEF Reads, NoItem
  <2> QED
    BY <2>2, <2>3 DEF PayloadInv, ReadPayloads
<1>9. AckInv
  <2>1. \A i \in Ids : ~queue[i].isPending /\ ~Latest(i).isPending
    BY DEF Latest, NoRow
  <2>2. \A c \in Procs : item[c].id = 0 /\ pc[c] # "ackDelete"
    BY DEF NoItem
  <2> QED
    BY <2>1, <2>2 DEF AckInv
<1>10. LossInv
  BY DEF LossInv, CommittedKept, LastKept, SnapKept
<1> QED
  BY <1>1, <1>2, <1>3, <1>4, <1>5, <1>6, <1>7, <1>8, <1>9, <1>10 DEF IInv, TypeOK

\* The inductive invariant holds in every reachable state.
LEMMA Invariance == Spec => []IInv
<1>1. IInv /\ [Next]_vars => IInv'
  <2> SUFFICES ASSUME IInv, [Next]_vars PROVE IInv'
    OBVIOUS
  <2>1. TypeOK'
    BY StoreStep, LocalStep, NetStep, HistStep DEF IInv, TypeOK
  <2>2. ItemKnown' /\ JobKnown'
    BY ItemKnownStep, JobKnownStep DEF IInv
  <2>3. Locking' /\ Fresh'
    BY LockingStep, FreshStep DEF IInv
  <2>4. PendingKept' /\ Once'
    BY PendingStep, OnceStep DEF IInv
  <2>5. PayloadInv' /\ PayloadsStay
    BY PayloadStep DEF IInv
  <2>6. AckInv' /\ LossInv'
    BY <2>5, AckInvStep, LossStep DEF IInv
  <2> QED
    BY <2>1, <2>2, <2>3, <2>4, <2>5, <2>6 DEF IInv
<1> QED
  BY <1>1, InitIInv, PTL DEF Spec

\* Every variable keeps its type: in particular no handler works on a queue item or on
\* a token it has not read (getNextDeviceQueueItem, handleUplinkACK, getDownlinkFrame).
THEOREM TypeCorrect == Spec => []TypeOK
<1>1. IInv => TypeOK
  BY DEF IInv
<1> QED
  BY <1>1, Invariance, PTL

\* A queue item stays pending until it is deleted, whatever the number of schedulers,
\* uplink handlers, acknowledgements and API calls: setDeviceQueueItemRetryAfter never
\* writes back an is_pending it read before an acknowledgement set it.
THEOREM PendingNeverUndone == Spec => PendingSticky
<1>1. IInv /\ [Next]_vars =>
        [\A i \in Ids : queue[i].live /\ queue[i].isPending /\ queue'[i].live
                          => queue'[i].isPending]_vars
  BY PendingStep DEF IInv, KeepsPending, Pending
<1> QED
  BY <1>1, Invariance, PTL DEF Spec, PendingSticky

\* The AS hears at most one final outcome of a queue item, however many goroutines race
\* to delete it (DeleteDeviceQueueItem checks the number of rows it affected), unless
\* the deleting transaction was lost.
THEOREM OneOutcome == Spec => []OutcomeOnce
<1>1. IInv => OutcomeOnce
  BY DEF IInv, Once, OutcomeOnce
<1> QED
  BY <1>1, Invariance, PTL

\* The AS is told that the device acknowledged a queue item only after a gateway has
\* transmitted its payload, however the uplinks, the acknowledgements and the scheduler's
\* writes of is_pending interleave, and whatever transaction is lost (handleUplinkACK).
THEOREM AckedWasTransmitted == Spec => []AckFollowsTransmission
<1>1. IInv => AckFollowsTransmission
  BY DEF IInv, AckInv, Vouched, AckFollowsTransmission
<1> QED
  BY <1>1, Invariance, PTL

\* No enqueued payload disappears: deletes, re-encryptions, flushes, lost transactions and
\* crashes leave every payload in the queue, transmitted, told to the AS or excused.
THEOREM NothingLost == Spec => []NoSilentLoss
<1>1. IInv => NoSilentLoss
  BY DEF IInv, LossInv, CommittedKept, Accounted, Told, Alive, NoSilentLoss
<1> QED
  BY <1>1, Invariance, PTL
=============================================================================
