--------------------------- MODULE DeviceDownlink ---------------------------
(***************************************************************************)
(* The downlink path of one device: its device-queue in PostgreSQL, its    *)
(* device-session and downlink frames in Redis, and the goroutines that    *)
(* work on them without a common lock:                                     *)
(*   - uplink handlers (internal/uplink/data), which answer an uplink      *)
(*     through HandleResponse (internal/downlink/data);                    *)
(*   - Class-C scheduler loops (internal/downlink/scheduler.go), each in   *)
(*     one transaction that locks the device row;                          *)
(*   - handlers of gateway tx acknowledgements (internal/downlink/ack);    *)
(*   - API calls of the application-server (internal/api/ns).              *)
(*                                                                         *)
(* PostgreSQL runs READ COMMITTED: the writes of the transaction that      *)
(* holds the device row are seen by the others only after its commit, and  *)
(* a write of another to a row it has written waits for that commit.  A    *)
(* step of the model is one statement or one Redis command; reads that     *)
(* nothing can separate from the next write are merged with it.            *)
(***************************************************************************)
EXTENDS Naturals, FiniteSets

CONSTANTS
    Payloads,      \* application payloads; each is enqueued at most once
    Confirmed,     \* the payloads to be sent as ConfirmedDataDown
    Large,         \* payloads that some data-rates cannot carry
    Uplinks,       \* goroutines of uplink/data.Handle
    Schedulers,    \* goroutines of ScheduleDeviceQueueBatch
    AckHandlers,   \* goroutines of HandleDownlinkTXAck
    Flushers,      \* goroutines of FlushDeviceQueueForDevEUI
    None,          \* no goroutine, no frame-counter, and no payload
    ClassC,        \* the device-profile supports Class-C
    Lorawan11,     \* the device has its own counter for application downlinks
    MaxId,         \* bound on the number of device_queue ids
    MaxToken,      \* bound on the number of downlink tokens
    MaxDuplicates, \* bound on the tx acknowledgements delivered twice
    MaxCrashes     \* bound on the crashes of goroutines

Procs == Uplinks \cup Schedulers \cup AckHandlers \cup Flushers
Ids == 1 .. MaxId
Tokens == 1 .. MaxToken

\* A *time.Time of a queue item: nil, or compared with time.Now()
Times == {"nil", "future", "past"}

Counters == [n : Nat, a : Nat]

DeviceQueueItem ==
    [live : BOOLEAN, payload : Payloads \cup {None}, fCnt : Nat,
     isPending : BOOLEAN, timeoutAfter : Times, retryAfter : Times]

\* A saved frame: its queue item (0: none) with its payload, the counters it was
\* built with and what its receive windows carry (one of them is transmitted)
DownlinkFrame ==
    [saved : BOOLEAN, id : 0 .. MaxId,
     payload : SUBSET Payloads, cnt : Counters, items : SUBSET {"app", "mac"}]

NoFrame == [saved |-> FALSE, id |-> 0, payload |-> {}, cnt |-> [n |-> 0, a |-> 0],
            items |-> {}]

\* Handlers that have read the session and may still save what they read
Section == {"save", "ack", "ackDelete", "next", "drop", "snapshot", "reencrypt",
            "recreate", "compose", "applyAck", "bump", "bumpMAC"}

Steps == Section \cup
    {"idle", "lock", "session", "retry", "commit", "lockAck", "sessionAck",
     "sessionMAC", "flush"}

ASSUME ConstantTypes ==
    /\ Confirmed \subseteq Payloads
    /\ Large \subseteq Payloads
    /\ ClassC \in BOOLEAN
    /\ Lorawan11 \in BOOLEAN
    /\ MaxId \in Nat
    /\ MaxToken \in Nat
    /\ MaxDuplicates \in Nat
    /\ MaxCrashes \in Nat
    /\ None \notin Procs
    /\ None \notin Nat

\* The goroutines are different ones.
ASSUME ProcsDisjoint ==
    /\ Uplinks \cap Schedulers = {}
    /\ Uplinks \cap AckHandlers = {}
    /\ Uplinks \cap Flushers = {}
    /\ Schedulers \cap AckHandlers = {}
    /\ Schedulers \cap Flushers = {}
    /\ AckHandlers \cap Flushers = {}

ASSUME NonePayload == None \notin Payloads

VARIABLES
    session,    \* NFCntDown and AFCntDown of the stored device-session
    queue,      \* committed rows of device_queue
    nextId,     \* the sequence that numbers them
    devLock,    \* holder of the row lock on the device record
    dirty,      \* ids written by the open transaction of that holder
    txQueue,    \* the rows it has written
    pc,         \* the next step of each goroutine
    ds,         \* its copy of the device-session
    item,       \* the queue item it has read: id and is_pending
    snap,       \* ids it has read to be re-encrypted
    target,     \* ids its running "delete from device_queue" works on
    upACK,      \* FCtrl.ACK of the uplink it handles
    job,        \* the acknowledgement it handles: token and transmitted item
    frames,     \* Redis: downlink frames by token
    sent,       \* tokens handed to the gateway and not yet transmitted
    txAcks,     \* acknowledgements under way from the gateways
    devOwes,    \* device: its next uplink has FCtrl.ACK set
    asFCnt,     \* AS: answer of GetNextDownlinkFCntForDevEUI, or None
    submitted,  \* AS: payloads it has enqueued
    duplicates, \* history: acknowledgements delivered twice
    crashes,    \* history: crashes of goroutines
    outcomes,   \* history: final outcomes told to the AS, by queue id
    acked,      \* history: ids whose HandleDownlinkACK was positive
    txAcked,    \* history: payloads whose transmission was acknowledged
    rolledBack, \* history: ids written by transactions that were lost
    excused,    \* history: payloads whose loss is accounted for
    ackedCnt    \* history: counters that follow the acknowledged frames

dbVars == <<queue, nextId, devLock, dirty, txQueue>>
localVars == <<pc, ds, item, snap, target, upACK, job>>
netVars == <<frames, sent, txAcks, devOwes, asFCnt, submitted, duplicates>>
histVars == <<crashes, outcomes, acked, txAcked, rolledBack, excused, ackedCnt>>
vars == <<session, dbVars, localVars, netVars, histVars>>

NoItem == [id |-> 0, isPending |-> FALSE]
NoJob == [token |-> 0, kind |-> "none"]
Zero == [n |-> 0, a |-> 0]

ItemRead == [id : 0 .. MaxId, isPending : BOOLEAN]
Job == [token : 0 .. MaxToken, kind : {"none", "app", "mac"}]
TxAck == [token : Tokens, kind : {"app", "mac", "error"}]

StoreTypes ==
    /\ session \in Counters
    /\ queue \in [Ids -> DeviceQueueItem]
    /\ nextId \in Nat \ {0}
    /\ devLock \in Procs \cup {None}
    /\ dirty \in SUBSET Ids
    /\ txQueue \in [Ids -> DeviceQueueItem]

LocalTypes ==
    /\ pc \in [Procs -> Steps]
    /\ ds \in [Procs -> Counters]
    /\ item \in [Procs -> ItemRead]
    /\ snap \in [Procs -> SUBSET Ids]
    /\ target \in [Procs -> SUBSET Ids]
    /\ upACK \in [Procs -> BOOLEAN]
    /\ job \in [Procs -> Job]

NetTypes ==
    /\ frames \in [Tokens -> DownlinkFrame]
    /\ sent \in SUBSET Tokens
    /\ txAcks \in SUBSET TxAck
    /\ devOwes \in BOOLEAN
    /\ asFCnt \in Nat \cup {None}
    /\ submitted \in SUBSET Payloads
    /\ duplicates \in Nat

HistTypes ==
    /\ crashes \in Nat
    /\ outcomes \in [Ids -> Nat]
    /\ acked \in SUBSET Ids
    /\ txAcked \in SUBSET Payloads
    /\ rolledBack \in SUBSET Ids
    /\ excused \in SUBSET Payloads
    /\ ackedCnt \in Counters

TypeOK == StoreTypes /\ LocalTypes /\ NetTypes /\ HistTypes

\* An id that was never inserted, or only by a transaction that is not committed
NoRow == [live |-> FALSE, payload |-> None, fCnt |-> 0, isPending |-> FALSE,
          timeoutAfter |-> "nil", retryAfter |-> "nil"]

Init ==
    /\ session = Zero
    /\ queue = [i \in Ids |-> NoRow]
    /\ nextId = 1
    /\ devLock = None
    /\ dirty = {}
    /\ txQueue = [i \in Ids |-> NoRow]
    /\ pc = [c \in Procs |-> "idle"]
    /\ ds = [c \in Procs |-> Zero]
    /\ item = [c \in Procs |-> NoItem]
    /\ snap = [c \in Procs |-> {}]
    /\ target = [c \in Procs |-> {}]
    /\ upACK = [c \in Procs |-> FALSE]
    /\ job = [c \in Procs |-> NoJob]
    /\ frames = [t \in Tokens |-> NoFrame]
    /\ sent = {}
    /\ txAcks = {}
    /\ devOwes = FALSE
    /\ asFCnt = None
    /\ submitted = {}
    /\ duplicates = 0
    /\ crashes = 0
    /\ outcomes = [i \in Ids |-> 0]
    /\ acked = {}
    /\ txAcked = {}
    /\ rolledBack = {}
    /\ excused = {}
    /\ ackedCnt = Zero

-----------------------------------------------------------------------------
(* Helpers *)

\* What a statement of goroutine c sees of the table
View(c) ==
    IF devLock = c
    THEN [i \in Ids |-> IF i \in dirty THEN txQueue[i] ELSE queue[i]]
    ELSE queue

\* c writes the rows S of q: into its transaction, or with an immediate commit
\* that waits for the transaction that wrote one of them
Write(c, S, q) ==
    IF devLock = c
    THEN /\ dirty' = dirty \cup S
         /\ txQueue' = [i \in Ids |-> IF i \in S THEN q[i] ELSE txQueue[i]]
         /\ UNCHANGED <<queue, devLock>>
    ELSE /\ S \cap dirty = {}
         /\ queue' = [i \in Ids |-> IF i \in S THEN q[i] ELSE queue[i]]
         /\ UNCHANGED <<devLock, dirty, txQueue>>

LiveIds(q) == {i \in Ids : q[i].live}

\* "order by f_cnt limit 1"
FirstIds(q) == {i \in LiveIds(q) : \A j \in LiveIds(q) : q[i].fCnt <= q[j].fCnt}

\* DeleteDeviceQueueItem of a row that still exists
Delete(c, i) ==
    /\ View(c)[i].live
    /\ Write(c, {i}, [View(c) EXCEPT ![i].live = FALSE])

\* ErrDoesNotExist: no row was affected
Gone(c, i) == ~View(c)[i].live

\* The counter of application payloads (GetMACVersion)
AppCnt(s) == IF Lorawan11 THEN s.a ELSE s.n

Goto(c, step) == pc' = [pc EXCEPT ![c] = step]

\* The next step of c reads none of its local variables any more.
Forget(c, step) ==
    /\ Goto(c, step)
    /\ ds' = [ds EXCEPT ![c] = Zero]
    /\ item' = [item EXCEPT ![c] = NoItem]
    /\ snap' = [snap EXCEPT ![c] = {}]
    /\ target' = [target EXCEPT ![c] = {}]
    /\ upACK' = [upACK EXCEPT ![c] = FALSE]
    /\ job' = [job EXCEPT ![c] = NoJob]

\* The handler returns.
Stop(c) == Forget(c, "idle")

\* A task returns an error or ErrAbort: the uplink handler ends, the scheduler
\* logs it and its transaction is still committed.
Leave(c) == Forget(c, IF c \in Schedulers THEN "commit" ELSE "idle")

\* The open transaction of c is undone.
Rollback(c) ==
    /\ rolledBack' = rolledBack \cup dirty
    /\ devLock' = None
    /\ dirty' = {}
    /\ txQueue' = [i \in Ids |-> NoRow]

\* One more final outcome of row i is told to the AS.
Report(i) == outcomes' = [outcomes EXCEPT ![i] = @ + 1]

-----------------------------------------------------------------------------
(* Uplink handlers *)

\* getDeviceSessionForPHYPayload.  The uplink carries the ACK the device owes, or
\* that uplink was lost and this is a later one.
UplinkGetSession(u) ==
    /\ pc[u] = "idle"
    /\ ds' = [ds EXCEPT ![u] = session]
    /\ \E ack \in {devOwes, FALSE} : upACK' = [upACK EXCEPT ![u] = ack]
    /\ devOwes' = FALSE
    /\ Goto(u, "save")
    /\ UNCHANGED <<session, dbVars, item, snap, target, job, frames, sent, txAcks,
                   asFCnt, submitted, duplicates, histVars>>

\* saveDeviceSession: the session as it was read, apart from FCntUp
UplinkSaveSession(u) ==
    /\ pc[u] = "save"
    /\ session' = ds[u]
    /\ Goto(u, IF upACK[u] THEN "ack" ELSE "next")
    /\ upACK' = [upACK EXCEPT ![u] = FALSE]
    /\ UNCHANGED <<dbVars, ds, item, snap, target, job, netVars, histVars>>

\* Mutant: any row with the last counter is taken for the acknowledged one.
LastSentRow(u) == {i \in FirstIds(queue) : queue[i].fCnt + 1 = ds[u].n}

\* The row handleUplinkACK acts on: first by f_cnt, pending, last counter used
PendingRow(u) ==
    {i \in FirstIds(queue) : queue[i].isPending /\ queue[i].fCnt + 1 = ds[u].n}

\* handleUplinkACK, the select; without such a row the ACK is ignored
UplinkACK(u) ==
    /\ pc[u] = "ack"
    /\ \/ \E i \in PendingRow(u) :
            /\ item' = [item EXCEPT ![u] = [id |-> i, isPending |-> TRUE]]
            /\ Goto(u, "ackDelete")
       \/ /\ FirstIds(queue) \ PendingRow(u) # {} \/ FirstIds(queue) = {}
          /\ Goto(u, "next")
          /\ UNCHANGED item
    /\ UNCHANGED <<session, dbVars, ds, snap, target, upACK, job, netVars, histVars>>

\* Mutant: the number of rows affected is not checked.
UplinkACKDeleteUnchecked(u) ==
    /\ pc[u] = "ackDelete"
    /\ Write(u, {item[u].id}, [View(u) EXCEPT ![item[u].id].live = FALSE])
    /\ Report(item[u].id)
    /\ acked' = acked \cup {item[u].id}
    /\ item' = [item EXCEPT ![u] = NoItem]
    /\ Goto(u, "next")
    /\ UNCHANGED <<session, nextId, ds, snap, target, upACK, job, netVars,
                   crashes, txAcked, rolledBack, excused, ackedCnt>>

\* handleUplinkACK, delete and HandleDownlinkACK(Acknowledged: true)
UplinkACKDelete(u) ==
    /\ pc[u] = "ackDelete"
    /\ Delete(u, item[u].id)
    /\ Report(item[u].id)
    /\ acked' = acked \cup {item[u].id}
    /\ item' = [item EXCEPT ![u] = NoItem]
    /\ Goto(u, "next")
    /\ UNCHANGED <<session, nextId, ds, snap, target, upACK, job, netVars,
                   crashes, txAcked, rolledBack, excused, ackedCnt>>

\* ... the call to the AS fails and the handler returns the error
UplinkACKASError(u) ==
    /\ pc[u] = "ackDelete"
    /\ Delete(u, item[u].id)
    /\ excused' = excused \cup {View(u)[item[u].id].payload}
    /\ Stop(u)
    /\ UNCHANGED <<session, nextId, netVars, crashes, outcomes, acked, txAcked,
                   rolledBack, ackedCnt>>

\* ... the row is gone: error
UplinkACKGone(u) ==
    /\ pc[u] = "ackDelete"
    /\ item[u].id \notin dirty
    /\ Gone(u, item[u].id)
    /\ Stop(u)
    /\ UNCHANGED <<session, dbVars, netVars, histVars>>

-----------------------------------------------------------------------------
(* getNextDeviceQueueItem, for an uplink handler or a scheduler *)

\* len(FRMPayload) <= maxPayloadSize, which depends on the data-rate, may be
\* false for the large payloads only
MayFit(p, fits) == fits \/ p \in Large

\* GetNextDeviceQueueItemForDevEUI hides a pending item that has not timed out.
Hidden(r) == r.isPending /\ r.timeoutAfter = "future"

Usable(r, cnt) == r.fCnt = cnt /\ r.timeoutAfter # "past"

\* One iteration of the loop: the item is usable, or says what to do next
NextItem(c) ==
    /\ pc[c] = "next"
    /\ \/ /\ \/ FirstIds(View(c)) = {}
             \/ \E i \in FirstIds(View(c)) : Hidden(View(c)[i])
          /\ item' = [item EXCEPT ![c] = NoItem]
          /\ Goto(c, "compose")
       \/ \E i \in FirstIds(View(c)), fits \in BOOLEAN :
            LET r == View(c)[i] IN
            /\ MayFit(r.payload, fits)
            /\ ~Hidden(r)
            /\ item' = [item EXCEPT ![c] = [id |-> i, isPending |-> r.isPending]]
            /\ Goto(c, CASE fits /\ Usable(r, AppCnt(ds[c])) -> "compose"
                         [] r.timeoutAfter = "past" \/ ~fits -> "drop"
                         [] OTHER -> "snapshot")
    /\ UNCHANGED <<session, dbVars, ds, snap, target, upACK, job, netVars, histVars>>

\* Mutant: the AS is told, the row is kept.
DropItemKeepsRow(c) ==
    /\ pc[c] = "drop"
    /\ Report(item[c].id)
    /\ item' = [item EXCEPT ![c] = NoItem]
    /\ Goto(c, "next")
    /\ UNCHANGED <<session, dbVars, ds, snap, target, upACK, job, netVars,
                   crashes, acked, txAcked, rolledBack, excused, ackedCnt>>

\* Timed out or too large: delete, and tell the AS (negative HandleDownlinkACK,
\* or HandleError)
DropItem(c) ==
    /\ pc[c] = "drop"
    /\ Delete(c, item[c].id)
    /\ Report(item[c].id)
    /\ item' = [item EXCEPT ![c] = NoItem]
    /\ Goto(c, "next")
    /\ UNCHANGED <<session, nextId, ds, snap, target, upACK, job, netVars,
                   crashes, acked, txAcked, rolledBack, excused, ackedCnt>>

\* ... the call to the AS fails
DropItemASError(c) ==
    /\ pc[c] = "drop"
    /\ Delete(c, item[c].id)
    /\ excused' = excused \cup {View(c)[item[c].id].payload}
    /\ Leave(c)
    /\ UNCHANGED <<session, nextId, netVars, crashes, outcomes, acked, txAcked,
                   rolledBack, ackedCnt>>

\* ... the row is gone: error
DropItemGone(c) ==
    /\ pc[c] = "drop"
    /\ devLock = c \/ item[c].id \notin dirty
    /\ Gone(c, item[c].id)
    /\ Leave(c)
    /\ UNCHANGED <<session, dbVars, netVars, histVars>>

\* Mutant: the queue is read after it was flushed.
ReadQueueTooLate(c) ==
    /\ pc[c] = "snapshot"
    /\ snap' = [snap EXCEPT ![c] = {}]
    /\ item' = [item EXCEPT ![c] = NoItem]
    /\ Goto(c, "reencrypt")
    /\ UNCHANGED <<session, dbVars, ds, target, upACK, job, netVars, histVars>>

\* Frame-counter out of sync: the queue is read, to be re-encrypted by the AS
ReadQueue(c) ==
    /\ pc[c] = "snapshot"
    /\ snap' = [snap EXCEPT ![c] = LiveIds(View(c))]
    /\ item' = [item EXCEPT ![c] = NoItem]
    /\ Goto(c, "reencrypt")
    /\ UNCHANGED <<session, dbVars, ds, target, upACK, job, netVars, histVars>>

\* The AS has answered: "delete from device_queue where dev_eui = $1" starts and
\* works on the rows that exist now
FlushQueue(c) ==
    /\ pc[c] = "reencrypt"
    /\ target' = [target EXCEPT ![c] = LiveIds(View(c))]
    /\ Goto(c, "recreate")
    /\ UNCHANGED <<session, dbVars, ds, item, snap, upACK, job, netVars, histVars>>

\* A row as CreateDeviceQueueItem inserts it (Class-A and Class-C)
NewRow(p, cnt) ==
    [live |-> TRUE, payload |-> p, fCnt |-> cnt, isPending |-> FALSE,
     timeoutAfter |-> "nil", retryAfter |-> "nil"]

\* The delete ends and one row per re-encrypted item is created, in the order
\* of f_cnt, numbered from the expected counter
RecreateQueue(c) ==
    LET new == nextId .. (nextId + Cardinality(snap[c]) - 1)
        old == View(c)
    IN
    /\ pc[c] = "recreate"
    /\ new \subseteq Ids
    /\ \E src \in [new -> snap[c]] :
         /\ \A k, l \in new :
              k < l => src[k] # src[l] /\ old[src[k]].fCnt <= old[src[l]].fCnt
         /\ Write(c, target[c] \cup new,
                  [i \in Ids |->
                     IF i \in new
                     THEN NewRow(old[src[i]].payload, AppCnt(ds[c]) + (i - nextId))
                     ELSE [old[i] EXCEPT !.live = FALSE]])
    /\ nextId' = nextId + Cardinality(snap[c])
    /\ snap' = [snap EXCEPT ![c] = {}]
    /\ target' = [target EXCEPT ![c] = {}]
    /\ Goto(c, "next")
    /\ UNCHANGED <<session, ds, item, upACK, job, netVars, histVars>>

\* The AS fails before anything is written, or a statement of the uplink
\* handler's own transaction, which is then rolled back
ReencryptError(c) ==
    /\ pc[c] = "reencrypt" \/ (c \in Uplinks /\ pc[c] = "recreate")
    /\ Leave(c)
    /\ UNCHANGED <<session, dbVars, netVars, histVars>>

\* A database error aborts the scheduler's transaction.
AbortTransaction(s) ==
    /\ pc[s] = "recreate"
    /\ Rollback(s)
    /\ Stop(s)
    /\ UNCHANGED <<session, queue, nextId, netVars, crashes, outcomes, acked, txAcked,
                   excused, ackedCnt>>

-----------------------------------------------------------------------------
(* Composition of the frame: setPHYPayloads, saveDownlinkFrame,            *)
(* saveDeviceSession, sendDownlinkFrame                                    *)

\* stopOnNothingToSend, or an error before the frame is saved
NothingSent(c) ==
    /\ pc[c] = "compose"
    /\ Leave(c)
    /\ UNCHANGED <<session, dbVars, netVars, histVars>>

\* What the receive windows may carry: mac-commands alone, or with the item.
\* The scheduler adds no mac-commands, so its item always fits.
WindowItems(c) ==
    IF item[c].id = 0 THEN IF c \in Uplinks THEN {{"mac"}} ELSE {}
    ELSE IF c \in Uplinks THEN {{"app"}, {"mac"}, {"app", "mac"}}
    ELSE {{"app"}}

\* The session is saved as it was read at the start of the handler.  A frame the
\* gateway backend does not get is one that is never transmitted.
SendFrame(c) ==
    /\ pc[c] = "compose"
    /\ \E t \in Tokens, windows \in WindowItems(c) :
         /\ ~frames[t].saved
         /\ \A s \in Tokens : s < t => frames[s].saved
         /\ frames' = [frames EXCEPT ![t] =
                         [saved |-> TRUE, id |-> item[c].id,
                          payload |-> {View(c)[i].payload : i \in {item[c].id} \ {0}},
                          cnt |-> ds[c], items |-> windows]]
         /\ sent' = sent \cup {t}
    /\ session' = ds[c]
    /\ IF c \in Schedulers
       THEN /\ Goto(c, "retry")
            /\ ds' = [ds EXCEPT ![c] = Zero]
            /\ UNCHANGED <<item, snap, target, upACK, job>>
       ELSE Stop(c)
    /\ UNCHANGED <<dbVars, txAcks, devOwes, asFCnt, submitted, duplicates, histVars>>

-----------------------------------------------------------------------------
(* Class-C scheduler loop *)

\* The conditions of GetDevicesWithClassBOrClassCDeviceQueueItems, evaluated on
\* the snapshot of the statement
SelectDevice(s) ==
    /\ pc[s] = "idle"
    /\ ClassC
    /\ LiveIds(queue) # {}
    /\ \A i \in LiveIds(queue) :
         ~Hidden(queue[i]) /\ queue[i].retryAfter # "future"
    /\ Goto(s, "lock")
    /\ UNCHANGED <<session, dbVars, ds, item, snap, target, upACK, job, netVars,
                   histVars>>

\* "for update of d skip locked"
LockSelected(s) ==
    /\ pc[s] = "lock"
    /\ \/ /\ devLock = None
          /\ devLock' = s
          /\ Goto(s, "session")
       \/ /\ devLock # None
          /\ Goto(s, "idle")
          /\ UNCHANGED devLock
    /\ UNCHANGED <<session, queue, nextId, dirty, txQueue, ds, item, snap, target,
                   upACK, job, netVars, histVars>>

\* GetDeviceSession, then the tasks up to getNextDeviceQueueItem
SchedulerGetSession(s) ==
    /\ pc[s] = "session"
    /\ ds' = [ds EXCEPT ![s] = session]
    /\ Goto(s, "next")
    /\ UNCHANGED <<session, dbVars, item, snap, target, upACK, job, netVars, histVars>>

\* ... abort: the device or the gateway holds a downlink lock, or an error
SchedulerSkip(s) ==
    /\ pc[s] = "session"
    /\ Goto(s, "commit")
    /\ UNCHANGED <<session, dbVars, ds, item, snap, target, upACK, job, netVars,
                   histVars>>

\* setDeviceQueueItemRetryAfter writes the item as getNextDeviceQueueItem read it.
SetRetryAfter(s) ==
    /\ pc[s] = "retry"
    /\ \/ /\ View(s)[item[s].id].live
          /\ Write(s, {item[s].id},
                   [View(s) EXCEPT ![item[s].id].isPending = item[s].isPending,
                                   ![item[s].id].retryAfter = "future"])
       \/ /\ Gone(s, item[s].id)
          /\ UNCHANGED <<queue, devLock, dirty, txQueue>>
    /\ Forget(s, "commit")
    /\ UNCHANGED <<session, nextId, netVars, histVars>>

\* The transaction of a scheduler or of an acknowledgement ends.
Commit(c) ==
    /\ pc[c] = "commit"
    /\ queue' = View(c)
    /\ devLock' = None
    /\ dirty' = {}
    /\ txQueue' = [i \in Ids |-> NoRow]
    /\ Stop(c)
    /\ UNCHANGED <<session, nextId, netVars, histVars>>

-----------------------------------------------------------------------------
(* HandleDownlinkTXAck *)

\* Take an acknowledgement from the gateway; it may be delivered once more.
ReceiveTXAck(a, m) ==
    /\ pc[a] = "idle"
    /\ m \in txAcks
    /\ \/ /\ txAcks' = txAcks \ {m}
          /\ UNCHANGED duplicates
       \/ /\ duplicates < MaxDuplicates
          /\ duplicates' = duplicates + 1
          /\ UNCHANGED txAcks
    /\ \/ /\ m.kind # "error"
          /\ job' = [job EXCEPT ![a] = m]
          /\ Goto(a, IF m.kind = "app" THEN "lockAck" ELSE "sessionMAC")
       \* an error is only forwarded to the AS; the frame may have expired in Redis
       \/ UNCHANGED <<pc, job>>
    /\ UNCHANGED <<session, dbVars, ds, item, snap, target, upACK, frames, sent,
                   devOwes, asFCnt, submitted, histVars>>

\* Mutant: the transaction does not wait for the one that holds the device.
LockDeviceWithoutWaiting(a) ==
    /\ pc[a] = "lockAck"
    /\ devLock' = a
    /\ dirty' = {}
    /\ Goto(a, "sessionAck")
    /\ UNCHANGED <<session, queue, nextId, txQueue, ds, item, snap, target,
                   upACK, job, netVars, histVars>>

\* lockDevice: "for update" waits for the scheduler that locked the device
LockDevice(a) ==
    /\ pc[a] = "lockAck"
    /\ devLock = None
    /\ devLock' = a
    /\ Goto(a, "sessionAck")
    /\ UNCHANGED <<session, queue, nextId, dirty, txQueue, ds, item, snap, target,
                   upACK, job, netVars, histVars>>

\* getDeviceSession
AckGetSession(a) ==
    /\ pc[a] \in {"sessionAck", "sessionMAC"}
    /\ ds' = [ds EXCEPT ![a] = session]
    /\ Goto(a, IF pc[a] = "sessionAck" THEN "applyAck" ELSE "bumpMAC")
    /\ UNCHANGED <<session, dbVars, item, snap, target, upACK, job, netVars, histVars>>

\* setDeviceQueueItemPending
PendingItem(r) ==
    [r EXCEPT !.isPending = TRUE,
              !.timeoutAfter = IF @ # "nil" THEN @
                               ELSE IF ClassC THEN "future" ELSE "past"]

\* Mutant: confirmed payloads are deleted as the unconfirmed ones are.
ApplyTXAckDeletes(a) ==
    LET i == frames[job[a].token].id IN
    /\ pc[a] = "applyAck"
    /\ i \in Ids
    /\ Delete(a, i)
    /\ txAcked' = txAcked \cup {View(a)[i].payload}
    /\ Goto(a, "bump")
    /\ UNCHANGED <<session, nextId, ds, item, snap, target, upACK, job, netVars,
                   crashes, outcomes, acked, rolledBack, excused, ackedCnt>>

\* getDeviceQueueItem, then deleteDeviceQueueItem or setDeviceQueueItemPending
ApplyTXAck(a) ==
    LET i == frames[job[a].token].id
        r == View(a)[i]
    IN
    /\ pc[a] = "applyAck"
    /\ i \in Ids
    /\ r.live
    /\ IF r.payload \in Confirmed
       THEN Write(a, {i}, [View(a) EXCEPT ![i] = PendingItem(r)])
       ELSE Delete(a, i)
    /\ txAcked' = txAcked \cup {r.payload}
    /\ Goto(a, "bump")
    /\ UNCHANGED <<session, nextId, ds, item, snap, target, upACK, job, netVars,
                   crashes, outcomes, acked, rolledBack, excused, ackedCnt>>

\* ... the row is gone: error and rollback
TXAckItemGone(a) ==
    LET i == frames[job[a].token].id IN
    /\ pc[a] = "applyAck"
    /\ i \in Ids => Gone(a, i)
    /\ devLock' = None
    /\ Stop(a)
    /\ UNCHANGED <<session, queue, nextId, dirty, txQueue, netVars, histVars>>

\* incrementAFCntDown
Incremented(s) ==
    IF Lorawan11 THEN [s EXCEPT !.a = @ + 1] ELSE [s EXCEPT !.n = @ + 1]

LargerOf(m, n) == IF m < n THEN n ELSE m

\* incrementAFCntDown, saveDeviceSession, sendTxAckToApplicationServer
AckSaveSession(a) ==
    /\ pc[a] = "bump"
    /\ session' = Incremented(ds[a])
    /\ ackedCnt' =
         LET used == AppCnt(frames[job[a].token].cnt) + 1 IN
         IF Lorawan11 THEN [ackedCnt EXCEPT !.a = LargerOf(@, used)]
         ELSE [ackedCnt EXCEPT !.n = LargerOf(@, used)]
    /\ Forget(a, "commit")
    /\ UNCHANGED <<dbVars, netVars, crashes, outcomes, acked, txAcked, rolledBack,
                   excused>>

\* The mac-only branch: incrementNFcntDown, saveDeviceSession; no lock is taken
AckSaveSessionMAC(a) ==
    /\ pc[a] = "bumpMAC"
    /\ session' = [ds[a] EXCEPT !.n = @ + 1]
    /\ ackedCnt' = [ackedCnt EXCEPT !.n = LargerOf(@, frames[job[a].token].cnt.n + 1)]
    /\ Stop(a)
    /\ UNCHANGED <<dbVars, netVars, crashes, outcomes, acked, txAcked, rolledBack,
                   excused>>

-----------------------------------------------------------------------------
(* API calls of the application-server *)

\* Mutant: the counter of the last downlink instead of the next one
LastDownlinkFCnt ==
    /\ asFCnt = None
    /\ asFCnt' = AppCnt(session) - 1
    /\ UNCHANGED <<session, dbVars, localVars, frames, sent, txAcks, devOwes,
                   submitted, duplicates, histVars>>

\* GetNextDownlinkFCntForDevEUI
GetNextDownlinkFCnt ==
    /\ asFCnt = None
    /\ \/ /\ LiveIds(queue) = {}
          /\ asFCnt' = AppCnt(session)
       \/ \E i \in LiveIds(queue) :
            /\ \A j \in LiveIds(queue) : queue[j].fCnt <= queue[i].fCnt
            /\ asFCnt' = queue[i].fCnt + 1
    /\ UNCHANGED <<session, dbVars, localVars, frames, sent, txAcks, devOwes, submitted, duplicates, histVars>>

\* CreateDeviceQueueItem, with the counter the AS was given earlier
CreateDeviceQueueItem(p) ==
    /\ asFCnt # None
    /\ p \notin submitted
    /\ nextId \in Ids
    /\ queue' = [queue EXCEPT ![nextId] = NewRow(p, asFCnt)]
    /\ nextId' = nextId + 1
    /\ asFCnt' = None
    /\ submitted' = submitted \cup {p}
    /\ excused' = IF \E c \in Procs : pc[c] \in {"reencrypt", "recreate"}
                  THEN excused \cup {p} ELSE excused
    /\ UNCHANGED <<session, devLock, dirty, txQueue, localVars, frames, sent, txAcks,
                   devOwes, duplicates, crashes, outcomes, acked, txAcked,
                   rolledBack, ackedCnt>>

\* FlushDeviceQueueForDevEUI: the delete works on the rows that exist when it
\* starts and waits for the transaction that wrote one of them
FlushStart(f) ==
    /\ pc[f] = "idle"
    /\ LiveIds(queue) # {}
    /\ target' = [target EXCEPT ![f] = LiveIds(queue)]
    /\ Goto(f, "flush")
    /\ UNCHANGED <<session, dbVars, ds, item, snap, upACK, job, netVars, histVars>>

FlushEnd(f) ==
    /\ pc[f] = "flush"
    /\ Write(f, target[f], [i \in Ids |-> [queue[i] EXCEPT !.live = FALSE]])
    /\ excused' = excused \cup {queue[i].payload : i \in target[f]}
    /\ Stop(f)
    /\ UNCHANGED <<session, nextId, netVars, crashes, outcomes, acked, txAcked,
                   rolledBack, ackedCnt>>

-----------------------------------------------------------------------------
(* Environment: gateways, the device, time, failures *)

\* The gateway transmits one of the items, which the device receives or not, or
\* reports an error.  That no acknowledgement arrives needs no action.
Transmit(t, kind, received) ==
    /\ t \in sent
    /\ kind \in frames[t].items \cup {"error"}
    /\ sent' = sent \ {t}
    /\ txAcks' = txAcks \cup {[token |-> t, kind |-> kind]}
    /\ IF kind = "app" /\ received
       THEN devOwes' = (devOwes \/ frames[t].payload \cap Confirmed # {})
       ELSE UNCHANGED devOwes
    /\ UNCHANGED <<session, dbVars, localVars, frames, asFCnt, submitted, duplicates,
                   histVars>>

Later(t) == IF t = "future" THEN "past" ELSE t

\* time.Now() reaches the timeout_after of row i, committed or not.
TimeoutPasses(i) ==
    /\ queue[i].timeoutAfter = "future" \/ txQueue[i].timeoutAfter = "future"
    /\ queue' = [queue EXCEPT ![i].timeoutAfter = Later(@)]
    /\ txQueue' = [txQueue EXCEPT ![i].timeoutAfter = Later(@)]
    /\ UNCHANGED <<session, nextId, devLock, dirty, localVars, netVars, histVars>>

\* time.Now() reaches the retry_after of row i.
RetryPasses(i) ==
    /\ queue[i].retryAfter = "future" \/ txQueue[i].retryAfter = "future"
    /\ queue' = [queue EXCEPT ![i].retryAfter = Later(@)]
    /\ txQueue' = [txQueue EXCEPT ![i].retryAfter = Later(@)]
    /\ UNCHANGED <<session, nextId, devLock, dirty, localVars, netVars, histVars>>

\* The process dies: an open transaction is rolled back, what Redis and the AS
\* were told stays.
Crash(c) ==
    /\ crashes < MaxCrashes
    /\ pc[c] # "idle"
    /\ crashes' = crashes + 1
    /\ IF devLock = c
       THEN Rollback(c)
       ELSE UNCHANGED <<rolledBack, devLock, dirty, txQueue>>
    /\ Stop(c)
    /\ UNCHANGED <<session, queue, nextId, netVars, outcomes, acked, txAcked, excused,
                   ackedCnt>>

-----------------------------------------------------------------------------
UplinkStep(u) ==
    \/ UplinkGetSession(u)
    \/ UplinkSaveSession(u)
    \/ UplinkACK(u)
    \/ UplinkACKDelete(u)
    \/ UplinkACKASError(u)
    \/ UplinkACKGone(u)

\* Tasks shared by HandleResponse and HandleScheduleNextQueueItem
QueueStep(c) ==
    \/ NextItem(c)
    \/ DropItem(c)
    \/ DropItemASError(c)
    \/ DropItemGone(c)
    \/ ReadQueue(c)
    \/ FlushQueue(c)
    \/ RecreateQueue(c)
    \/ ReencryptError(c)
    \/ NothingSent(c)
    \/ SendFrame(c)

SchedulerStep(s) ==
    \/ SelectDevice(s)
    \/ LockSelected(s)
    \/ SchedulerGetSession(s)
    \/ SchedulerSkip(s)
    \/ SetRetryAfter(s)
    \/ AbortTransaction(s)

AckStep(a) ==
    \/ \E m \in txAcks : ReceiveTXAck(a, m)
    \/ LockDevice(a)
    \/ AckGetSession(a)
    \/ ApplyTXAck(a)
    \/ TXAckItemGone(a)
    \/ AckSaveSession(a)
    \/ AckSaveSessionMAC(a)

EnvStep ==
    \/ GetNextDownlinkFCnt
    \/ \E p \in Payloads : CreateDeviceQueueItem(p)
    \/ \E f \in Flushers : FlushStart(f) \/ FlushEnd(f)
    \/ \E t \in Tokens, kind \in {"app", "mac", "error"}, received \in BOOLEAN :
         Transmit(t, kind, received)
    \/ \E i \in Ids : TimeoutPasses(i) \/ RetryPasses(i)
    \/ \E c \in Procs : Crash(c)

Next ==
    \/ \E u \in Uplinks : UplinkStep(u)
    \/ \E c \in Uplinks \cup Schedulers : QueueStep(c)
    \/ \E s \in Schedulers : SchedulerStep(s)
    \/ \E a \in AckHandlers : AckStep(a)
    \/ \E c \in Schedulers \cup AckHandlers : Commit(c)
    \/ EnvStep

Spec == Init /\ [][Next]_vars

-----------------------------------------------------------------------------
(* Properties *)

\* Once a tx acknowledgement has marked a queue item as pending, the item stays
\* pending until it is deleted: the scheduler's setDeviceQueueItemRetryAfter, which
\* writes the whole row from an earlier read, never undoes it.  This is what the
\* lock taken by HandleDownlinkTXAck is for (downlink/ack/ack.go:57).
PendingSticky ==
    [][\A i \in Ids : queue[i].live /\ queue[i].isPending /\ queue'[i].live
                        => queue'[i].isPending]_vars

\* The AS hears at most one final outcome (positive or negative ACK, or size
\* error) of a queue item, whoever races to delete it, unless the transaction that
\* deleted it was lost after the call to the AS.
OutcomeOnce == \A i \in Ids \ rolledBack : outcomes[i] <= 1

\* The AS is told that the device has acknowledged a queue item only when a gateway
\* has transmitted that payload before (handleUplinkACK, uplink/data/data.go:658).
AckFollowsTransmission == \A i \in acked : queue[i].payload \in txAcked

\* An enqueued payload is in the queue, or was transmitted, or its fate was told to
\* the AS.  Excused are the payloads enqueued while a re-encryption is under way,
\* those flushed through the API and those whose report to the AS failed.
NoSilentLoss ==
    \A p \in submitted \ excused :
        \/ p \in txAcked \ Confirmed
        \/ \E i \in Ids : queue[i].payload = p /\ (queue[i].live \/ outcomes[i] > 0)

\* The stored counters stay above those of every frame whose transmission was
\* acknowledged: "the frame-counter will be incremented when the gateway has
\* acknowledged which downlink item will be transmitted" (downlink/data/data.go:1285).
AckedCounterKept == session.n >= ackedCnt.n /\ session.a >= ackedCnt.a
=============================================================================
