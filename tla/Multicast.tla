----------------------------- MODULE Multicast ------------------------------
(***************************************************************************)
(* The multicast downlink: the multicast-groups, their devices and their   *)
(* queue in PostgreSQL (internal/storage/multicast_group.go,               *)
(* device_multicast_group.go), the API of the application-server that      *)
(* changes them (internal/api/ns), the choice of the gateways and of the   *)
(* transmission times (internal/downlink/multicast), the scheduler loops   *)
(* of several network-server instances (internal/downlink/scheduler.go)    *)
(* and the handler of tx acknowledgements (internal/downlink/ack).         *)
(*                                                                         *)
(* PostgreSQL runs READ COMMITTED.  A transaction appears as the steps at  *)
(* which it takes its row locks, reads what others may change, and         *)
(* commits; its writes are seen by the others at the commit.  A statement  *)
(* that waits for a row lock is a step that is not enabled.  A token names *)
(* the frame of one queue-item: two frames in flight never share one.      *)
(***************************************************************************)
EXTENDS Naturals, FiniteSets, FiniteSetsExt, Sequences, SequencesExt

CONSTANTS
    Groups,         \* multicast-groups
    Devices,        \* devices that can be members
    Gateways,       \* gateways
    Payloads,       \* application payloads
    FPorts,         \* ports that API requests carry
    Large,          \* payloads that the low data-rate cannot carry
    Clients,        \* goroutines of API calls that take several steps
    Schedulers,     \* goroutines of ScheduleMulticastQueueBatch
    Settings,       \* the settings of a group that API requests carry
    Receptions,     \* what the gateways can report of a device: see RXInfo
    None,           \* no value
    FCntSize,       \* counters are unsigned integers below this
    FCntMax,        \* the largest counter the f_cnt columns can hold
    Delay,          \* multicastGatewayDelay
    Lead,           \* 2 * schedulerInterval
    Margin,         \* classBEnqueueMargin
    BeaconPeriod, BeaconReserved, PingPeriodBase,   \* in ping-slot lengths
    PingRand,       \* the two random bytes of each beacon period
    BatchSize,      \* schedulerBatchSize
    MaxNow,         \* bound on the clock while no row waits for its time
    MaxId,          \* bound on the queue-items created
    MaxFaults,      \* bound on the failed Redis and gateway calls and crashes
    MaxChanges      \* bound on the changes of groups, members and rx-info

\* The storage record of a group; key stands for MCAddr and MCNwkSKey.
MulticastGroup ==
    [fCnt : 0 .. FCntSize - 1, groupType : {"B", "C"}, dr : {"low", "high"},
     key : Nat, pingSlotPeriod : 0 .. PingPeriodBase]

\* Emit times exist for Class-B only.
MulticastQueueItem ==
    [id : 1 .. MaxId, g : Groups, w : Gateways, fCnt : 0 .. FCntSize - 1,
     pl : Payloads, at : Nat, emit : Nat \cup {None}]

\* A frame handed to a gateway: the item it carries and the key it is signed with
Transmission == [item : MulticastQueueItem, key : Nat]

\* The gateways that received the last uplink of a device, each with an SNR
\* below ("low") or above ("ok") what the spreading-factor requires.
RXInfo == UNION {[W -> {"low", "ok"}] : W \in SUBSET Gateways}

ASSUME ConstantTypes ==
    /\ Large \subseteq Payloads
    /\ FPorts \subseteq Nat
    /\ Settings \subseteq MulticastGroup
    /\ Receptions \subseteq RXInfo
    /\ FCntSize \in Nat \ {0}
    /\ FCntMax \in 0 .. FCntSize - 1
    /\ Delay \in Nat \ {0}
    /\ Lead \in Nat
    /\ Margin \in Nat
    /\ PingPeriodBase \in Nat \ {0}
    /\ BeaconReserved \in Nat
    /\ BeaconPeriod \in Nat
    /\ BeaconPeriod >= BeaconReserved + PingPeriodBase
    /\ PingRand \in Seq(Nat) \ {<<>>}
    /\ IsFiniteSet(Gateways)
    /\ BatchSize \in Nat \ {0}
    /\ MaxNow \in Nat
    /\ MaxId \in Nat
    /\ MaxFaults \in Nat
    /\ MaxChanges \in Nat
    /\ None \notin Nat
    /\ None \notin Clients \cup MulticastGroup

VARIABLES
    now,       \* time.Now(), in ping-slot lengths
    group,     \* rows of multicast_group
    members,   \* rows of device_multicast_group
    queue,     \* rows of multicast_queue
    nextId,    \* the sequence that numbers them
    rxInfo,    \* Redis: the gateways of the last uplink of each device
    rowLock,   \* the client whose transaction holds the row of the group
    call,      \* the API call of each client
    batch,     \* the queue-items each scheduler has still to handle
    locked,    \* ids each scheduler holds the row lock of
    discarded, \* ids its transaction has deleted
    sent,      \* history: the frames handed to the gateways
    flushed,   \* history: items whose flush was requested
    setBack,   \* history: groups whose counter was set back
    faults,    \* history: failed calls and crashes
    changes    \* history: changes of groups, members and rx-info

db == <<group, members, queue, nextId>>
api == <<rowLock, call>>
scheduler == <<batch, locked, discarded>>
history == <<sent, flushed, setBack>>
vars == <<now, db, rxInfo, api, scheduler, history, faults, changes>>

NoCall == [op |-> "none"]
Ids(S) == {r.id : r \in S}
Items(g) == {r \in queue : r.g = g}
LockedBy(S) == UNION {locked[s] : s \in S}

Init ==
    /\ now = 0
    /\ group \in [Groups -> {mg \in Settings : mg.fCnt <= FCntMax} \cup {None}]
    /\ members \in [Groups -> SUBSET Devices]
    /\ \A g \in Groups : group[g] = None => members[g] = {}
    /\ queue = {}
    /\ nextId = 1
    /\ rxInfo \in [Devices -> Receptions]
    /\ rowLock = [g \in Groups |-> None]
    /\ call = [c \in Clients |-> NoCall]
    /\ batch = [s \in Schedulers |-> <<>>]
    /\ locked = [s \in Schedulers |-> {}]
    /\ discarded = [s \in Schedulers |-> {}]
    /\ sent = {}
    /\ flushed = {}
    /\ setBack = {}
    /\ faults = 0
    /\ changes = 0

\* The calls that reconfigure a group are as many as the bound allows.
Change ==
    /\ changes < MaxChanges
    /\ changes' = changes + 1

-----------------------------------------------------------------------------
(* The environment: time, and the uplinks that renew the rx-info. *)

\* The clock runs up to its bound, and on as long as a row is not due.
Tick ==
    /\ now < MaxNow \/ \E r \in queue : r.at > now
    /\ now' = now + 1
    /\ UNCHANGED <<db, rxInfo, api, scheduler, history, faults, changes>>

\* SaveDeviceGatewayRXInfoSet at the end of an uplink of the device.
SaveDeviceGatewayRXInfoSet(d, rx) ==
    /\ Change
    /\ rxInfo' = [rxInfo EXCEPT ![d] = rx]
    /\ UNCHANGED <<now, db, api, scheduler, history, faults>>

-----------------------------------------------------------------------------
(* Groups and members: API calls of one statement, or of one transaction   *)
(* that locks the row of the group first.                                  *)

\* The storage functions.  A counter the column cannot hold is an error of the
\* write.
SelectGroup(g) == group[g]

InsertGroup(g, mg) ==
    /\ group[g] = None
    /\ mg.fCnt <= FCntMax
    /\ group' = [group EXCEPT ![g] = mg]

UpdateGroup(g, mg) ==
    /\ mg.fCnt <= FCntMax
    /\ group' = [group EXCEPT ![g] = mg]

\* "on delete cascade": members and queue-items go with the group.  The delete
\* waits for the rows that are locked.
DeleteGroup(g) ==
    /\ group[g] # None
    /\ rowLock[g] = None
    /\ Ids(Items(g)) \cap LockedBy(Schedulers) = {}
    /\ group' = [group EXCEPT ![g] = None]
    /\ members' = [members EXCEPT ![g] = {}]
    /\ queue' = queue \ Items(g)

\* The insert takes a share lock on the row of the group.
InsertMember(g, d) ==
    /\ group[g] # None
    /\ rowLock[g] = None
    /\ d \notin members[g]
    /\ members' = [members EXCEPT ![g] = @ \cup {d}]

DeleteMember(g, d) ==
    /\ d \in members[g]
    /\ members' = [members EXCEPT ![g] = @ \ {d}]

SelectMembers(g) == members[g]

DeleteQueueItem(r) ==
    /\ r \in queue
    /\ r.id \notin LockedBy(Schedulers)
    /\ queue' = queue \ {r}

\* The API of the application-server.
CreateMulticastGroup(g, mg) ==
    /\ InsertGroup(g, mg)
    /\ UNCHANGED <<now, members, queue, nextId, rxInfo, api, scheduler, history, faults, changes>>

\* The request replaces every setting, the frame-counter included.
UpdateMulticastGroup(g, mg) ==
    /\ Change
    /\ SelectGroup(g) # None
    /\ rowLock[g] = None
    /\ UpdateGroup(g, mg)
    /\ setBack' = IF mg.fCnt < group[g].fCnt THEN setBack \cup {g} ELSE setBack
    /\ UNCHANGED <<now, members, queue, nextId, rxInfo, api, scheduler, sent, flushed, faults>>

DeleteMulticastGroup(g) ==
    /\ Change
    /\ DeleteGroup(g)
    /\ setBack' = setBack \cup {g}
    /\ UNCHANGED <<now, nextId, rxInfo, api, scheduler, sent, flushed, faults>>

AddDeviceToMulticastGroup(g, d) ==
    /\ Change
    /\ InsertMember(g, d)
    /\ UNCHANGED <<now, group, queue, nextId, rxInfo, api, scheduler, history, faults>>

RemoveDeviceFromMulticastGroup(g, d) ==
    /\ Change
    /\ DeleteMember(g, d)
    /\ UNCHANGED <<now, group, queue, nextId, rxInfo, api, scheduler, history, faults>>

FlushMulticastQueueForMulticastGroup(c, g) ==
    /\ Change
    /\ call[c] = NoCall
    /\ call' = [call EXCEPT ![c] = [op |-> "flush", rows |-> Items(g)]]
    /\ flushed' = flushed \cup Items(g)
    /\ UNCHANGED <<now, db, rxInfo, rowLock, scheduler, sent, setBack, faults>>

\* The delete works on the rows of its snapshot and waits for the locked ones.
FlushDeletes(c) ==
    /\ call[c].op = "flush"
    /\ Ids(call[c].rows) \cap LockedBy(Schedulers) = {}
    /\ queue' = queue \ call[c].rows
    /\ call' = [call EXCEPT ![c] = NoCall]
    /\ UNCHANGED <<now, group, members, nextId, rxInfo, rowLock, scheduler, history, faults, changes>>

-----------------------------------------------------------------------------
(* The gateways of a message: Kruskal's algorithm on the graph of the      *)
(* gateways, joined in a star by edges of weight -999, and of the devices, *)
(* each joined to its gateways by edges of weight 1 / degree of the        *)
(* gateway.  The star is in every minimum spanning tree, so the tree keeps *)
(* for every device one of its cheapest edges; which gateway is the centre *)
(* and which of the cheapest edges is kept depends on the order of a map.  *)

\* Mutant: the SNR is not looked at.
AllEdges(rx) == DOMAIN rx

\* addDeviceEdges: gateways below the required SNR are left out unless the
\* device has no other.
DeviceEdges(rx) ==
    LET ok == {w \in DOMAIN rx : rx[w] = "ok"}
    IN  IF ok = {} THEN DOMAIN rx ELSE ok

\* The degree of a gateway, its edges to other gateways included.
Degree(rxs, gwSet, centre, w) ==
    LET toDevices == Cardinality({d \in DOMAIN rxs : w \in DeviceEdges(rxs[d])})
    IN  IF w = centre
        THEN toDevices + Cardinality(gwSet) - 1
        ELSE toDevices + 1

\* The possible results of GetMinimumGatewaySet.
GetMinimumGatewaySet(rxs) ==
    LET gwSet == UNION {DOMAIN rxs[d] : d \in DOMAIN rxs}
        Cheapest(centre, d) ==
            {w \in DeviceEdges(rxs[d]) : \A v \in DeviceEdges(rxs[d]) :
                Degree(rxs, gwSet, centre, w) >= Degree(rxs, gwSet, centre, v)}
        Trees(centre) ==
            {t \in [DOMAIN rxs -> gwSet] : \A d \in DOMAIN rxs : t[d] \in Cheapest(centre, d)}
    IN  IF gwSet = {}
        THEN {{}}
        ELSE UNION {{Range(t) : t \in Trees(centre)} : centre \in gwSet}

\* Devices without rx-info are skipped.
GetDeviceGatewayRXInfoSetForDevEUIs(D) ==
    [d \in {e \in D : DOMAIN rxInfo[e] # {}} |-> rxInfo[d]]

-----------------------------------------------------------------------------
(* Class-B ping-slots, in slot lengths since the GPS epoch. *)

GetPingOffset(beacon, pingNb) ==
    PingRand[((beacon \div BeaconPeriod) % Len(PingRand)) + 1] % (PingPeriodBase \div pingNb)

GetNextPingSlotAfter(after, pingNb) ==
    LET beaconStart == after - (after % BeaconPeriod)
        pingPeriod == PingPeriodBase \div pingNb
        slots == {b + BeaconReserved + GetPingOffset(b, pingNb) + n * pingPeriod :
                      b \in {beaconStart, beaconStart + BeaconPeriod}, n \in 0 .. pingNb - 1}
    IN  Min({t \in slots : t > after})

-----------------------------------------------------------------------------
(* Enqueueing: one transaction that locks the group, checks and advances   *)
(* its counter, and inserts one row for each gateway.                      *)

\* Mutant: the group is read without "for update".
EnqueueUnlocked(c, g, fCnt, pl, fPort) ==
    /\ call[c] = NoCall
    /\ group[g] # None
    /\ fCnt >= group[g].fCnt
    /\ call' = [call EXCEPT ![c] = [op |-> "enqueue", g |-> g, fCnt |-> fCnt, pl |-> pl,
                                    fPort |-> fPort, mg |-> group[g]]]
    /\ UNCHANGED <<now, db, rxInfo, rowLock, scheduler, history, faults, changes>>

\* A counter below that of the group is ErrInvalidFCnt.
EnqueueMulticastQueueItem(c, g, fCnt, pl, fPort) ==
    /\ call[c] = NoCall
    /\ SelectGroup(g) # None
    /\ rowLock[g] = None
    /\ fCnt >= SelectGroup(g).fCnt
    /\ rowLock' = [rowLock EXCEPT ![g] = c]
    /\ call' = [call EXCEPT ![c] = [op |-> "enqueue", g |-> g, fCnt |-> fCnt, pl |-> pl,
                                    fPort |-> fPort, mg |-> group[g]]]
    /\ UNCHANGED <<now, db, rxInfo, scheduler, history, faults, changes>>

\* Mutant: the rows that are already queued are not looked at.
ClassCStartNow(g) == now

\* Class-C: one delay after the last row of the group, or now.
ClassCStart(g) ==
    IF Items(g) = {} THEN now ELSE Max({r.at : r \in Items(g)}) + Delay

\* Class-B: after the last emission of the group, or after the margin.
ClassBStart(g) ==
    LET emits == {r.emit : r \in Items(g)} \ {None}
    IN  IF emits = {} THEN now + Margin ELSE Max(emits)

\* The ping-slots of n gateways, one after the other.
PingSlots(g, pingNb, n) ==
    LET slot[i \in 0 .. n] ==
            IF i = 0 THEN ClassBStart(g) ELSE GetNextPingSlotAfter(slot[i - 1], pingNb)
    IN  slot

\* The i-th row that the call inserts
Row(q, ws, i, at, emit) ==
    [id |-> nextId + i - 1, g |-> q.g, w |-> ws[i], fCnt |-> q.fCnt, pl |-> q.pl,
     at |-> at, emit |-> emit]

\* The rows for the gateways ws.
QueueItems(q, ws) ==
    LET n == Len(ws)
        slot == PingSlots(q.g, PingPeriodBase \div q.mg.pingSlotPeriod, n)
    IN  IF q.mg.groupType = "C"
        THEN {Row(q, ws, i, ClassCStart(q.g) + (i - 1) * Delay, None) : i \in 1 .. n}
        ELSE {Row(q, ws, i, IF slot[i] > Lead THEN slot[i] - Lead ELSE 0, slot[i]) : i \in 1 .. n}

\* Mutant: the transaction is left open.
ReleaseKeepsLock(c) ==
    /\ rowLock' = rowLock
    /\ call' = [call EXCEPT ![c] = NoCall]

Release(c) ==
    /\ rowLock' = [rowLock EXCEPT ![call[c].g] = None]
    /\ call' = [call EXCEPT ![c] = NoCall]

\* CreateMulticastQueueItem: validation and the limits of the columns.
InsertFails(q) ==
    \/ q.fPort = 0
    \/ q.fCnt > FCntMax
    \/ q.mg.groupType = "B" /\ q.mg.pingSlotPeriod = 0

EnqueueCommits(c) ==
    /\ call[c].op = "enqueue"
    /\ LET q == call[c]
           next == (q.fCnt + 1) % FCntSize
       IN  \E W \in GetMinimumGatewaySet(GetDeviceGatewayRXInfoSetForDevEUIs(SelectMembers(q.g))) :
               /\ W # {} => ~InsertFails(q)
               /\ nextId + Cardinality(W) <= MaxId + 1
               /\ UpdateGroup(q.g, [q.mg EXCEPT !.fCnt = next])
               /\ \E ws \in SetToSeqs(W) :
                      queue' = queue \cup (IF W = {} THEN {} ELSE QueueItems(q, ws))
               /\ nextId' = nextId + Cardinality(W)
               /\ setBack' = IF next <= q.fCnt THEN setBack \cup {q.g} ELSE setBack
    /\ Release(c)
    /\ UNCHANGED <<now, members, rxInfo, scheduler, sent, flushed, faults, changes>>

\* The transaction is rolled back.
EnqueueFails(c) ==
    /\ call[c].op = "enqueue"
    /\ \/ (InsertFails(call[c]) \/ (call[c].fCnt + 1) % FCntSize > FCntMax) /\ UNCHANGED faults
       \/ faults < MaxFaults /\ faults' = faults + 1
    /\ Release(c)
    /\ UNCHANGED <<now, db, rxInfo, scheduler, history, changes>>

-----------------------------------------------------------------------------
(* Scheduling: one transaction for a batch. *)

\* Mutant: without "for update skip locked"
SelectUnlocked(s) ==
    LET due == {r \in queue : r.at <= now}
    IN  /\ batch[s] = <<>>
        /\ due # {}
        /\ batch' = [batch EXCEPT ![s] = SetToSortSeq(due, LAMBDA a, b : a.id < b.id)]
        /\ UNCHANGED <<now, db, rxInfo, api, locked, discarded, history, faults, changes>>

\* Mutant: limit 1
SelectOne(s) ==
    LET due == {r \in queue : r.at <= now /\ r.id \notin LockedBy(Schedulers)}
        first == CHOOSE r \in due : \A o \in due : r.id <= o.id
    IN  /\ locked[s] = {}
        /\ due # {}
        /\ batch' = [batch EXCEPT ![s] = <<first>>]
        /\ locked' = [locked EXCEPT ![s] = {first.id}]
        /\ UNCHANGED <<now, db, rxInfo, api, discarded, history, faults, changes>>

\* select ... order by id limit n for update skip locked
GetSchedulableMulticastQueueItems(s) ==
    LET due == {r \in queue : r.at <= now /\ r.id \notin LockedBy(Schedulers)}
    IN  /\ locked[s] = {}
        /\ due # {}
        /\ \E items \in SetToSeqs(due) :
              LET first == SubSeq(items, 1, Min({BatchSize, Len(items)}))
              IN  /\ \A i, j \in DOMAIN items : i < j => items[i].id < items[j].id
                  /\ batch' = [batch EXCEPT ![s] = first]
                  /\ locked' = [locked EXCEPT ![s] = Ids(Range(first))]
        /\ UNCHANGED <<now, db, rxInfo, api, discarded, history, faults, changes>>

\* validatePayloadSize, at the data-rate the group has now
TooLarge(r) == r.pl \in Large /\ SelectGroup(r.g).dr = "low"

Handled(s) ==
    /\ batch[s] # <<>>
    /\ batch' = [batch EXCEPT ![s] = Tail(@)]

DiscardQueueItem(s) ==
    /\ Handled(s)
    /\ TooLarge(Head(batch[s]))
    /\ discarded' = [discarded EXCEPT ![s] = @ \cup {Head(batch[s]).id}]
    /\ UNCHANGED <<now, db, rxInfo, api, locked, history, faults, changes>>

\* getMulticastGroup .. sendDownlinkData
HandleScheduleQueueItem(s) ==
    LET r == Head(batch[s])
        frame == [item |-> r, key |-> SelectGroup(r.g).key]
    IN  /\ Handled(s)
        /\ ~TooLarge(r)
        /\ sent' = sent \cup {frame}
        /\ UNCHANGED <<now, db, rxInfo, api, locked, discarded, flushed, setBack, faults, changes>>

\* The frame cannot be saved or handed over: the error is logged.
ScheduleFails(s) ==
    /\ Handled(s)
    /\ ~TooLarge(Head(batch[s]))
    /\ faults < MaxFaults
    /\ faults' = faults + 1
    /\ UNCHANGED <<now, db, rxInfo, api, locked, discarded, history, changes>>

EndBatch(s) ==
    /\ batch' = [batch EXCEPT ![s] = <<>>]
    /\ locked' = [locked EXCEPT ![s] = {}]
    /\ discarded' = [discarded EXCEPT ![s] = {}]

CommitBatch(s) ==
    /\ locked[s] # {}
    /\ batch[s] = <<>>
    /\ queue' = {r \in queue : r.id \notin discarded[s]}
    /\ EndBatch(s)
    /\ UNCHANGED <<now, group, members, nextId, rxInfo, api, history, faults, changes>>

\* The instance stops: PostgreSQL rolls its transaction back.
CrashBatch(s) ==
    /\ locked[s] # {}
    /\ faults < MaxFaults
    /\ faults' = faults + 1
    /\ EndBatch(s)
    /\ UNCHANGED <<now, db, rxInfo, api, history, changes>>

\* Mutant: the rows are deleted by their frame-counter.
AckDeletesMessage(frame) ==
    /\ frame.item \in queue
    /\ frame.item.id \notin LockedBy(Schedulers)
    /\ queue' = {r \in queue : r.fCnt # frame.item.fCnt}
    /\ UNCHANGED <<now, group, members, nextId, rxInfo, api, scheduler, history, faults, changes>>

\* A tx acknowledgement, positive or negative, of a frame that is still saved.
\* The delete waits for a scheduler that holds the row; a row that is gone is
\* an error without effect.
HandleDownlinkTXAck(frame) ==
    /\ DeleteQueueItem(frame.item)
    /\ UNCHANGED <<now, group, members, nextId, rxInfo, api, scheduler, history, faults, changes>>

-----------------------------------------------------------------------------
GroupAPI ==
    \E g \in Groups :
        \/ \E mg \in Settings : CreateMulticastGroup(g, mg) \/ UpdateMulticastGroup(g, mg)
        \/ DeleteMulticastGroup(g)
        \/ \E d \in Devices :
               AddDeviceToMulticastGroup(g, d) \/ RemoveDeviceFromMulticastGroup(g, d)

QueueAPI ==
    \E c \in Clients :
        \/ \E g \in Groups :
               \/ FlushMulticastQueueForMulticastGroup(c, g)
               \/ \E f \in 0 .. FCntSize - 1, pl \in Payloads, fPort \in FPorts :
                      EnqueueMulticastQueueItem(c, g, f, pl, fPort)
        \/ FlushDeletes(c)
        \/ EnqueueCommits(c)
        \/ EnqueueFails(c)

Schedule(s) ==
    \/ GetSchedulableMulticastQueueItems(s)
    \/ DiscardQueueItem(s)
    \/ HandleScheduleQueueItem(s)
    \/ ScheduleFails(s)
    \/ CommitBatch(s)

Next ==
    \/ Tick
    \/ \E d \in Devices, rx \in Receptions : SaveDeviceGatewayRXInfoSet(d, rx)
    \/ GroupAPI
    \/ QueueAPI
    \/ \E s \in Schedulers : Schedule(s) \/ CrashBatch(s)
    \/ \E frame \in sent : HandleDownlinkTXAck(frame)

Spec == Init /\ [][Next]_vars

\* The scheduler loops run for ever and time passes.
Fairness == WF_vars(Tick) /\ \A s \in Schedulers : WF_vars(Schedule(s))

FairSpec == Spec /\ Fairness

-----------------------------------------------------------------------------
(* Properties *)

\* The state has its type, no two queue-items share an id, and only the open
\* transaction of an enqueue holds the row of a group.
TypeOK ==
    /\ now \in Nat
    /\ group \in [Groups -> MulticastGroup \cup {None}]
    /\ members \in [Groups -> SUBSET Devices]
    /\ queue \subseteq MulticastQueueItem
    /\ Cardinality(Ids(queue)) = Cardinality(queue)
    /\ nextId \in 1 .. MaxId + 1
    /\ rxInfo \in [Devices -> Receptions]
    /\ rowLock \in [Groups -> Clients \cup {None}]
    /\ \A c \in Clients : call[c].op \in {"none", "flush", "enqueue"}
    /\ \A g \in Groups : rowLock[g] # None =>
           call[rowLock[g]].op = "enqueue" /\ call[rowLock[g]].g = g
    /\ \A s \in Schedulers : Ids(Range(batch[s])) \subseteq locked[s]
    /\ sent \subseteq Transmission
    /\ setBack \subseteq Groups
    /\ faults \in 0 .. MaxFaults
    /\ changes \in 0 .. MaxChanges

Messages == queue \cup {t.item : t \in sent}

\* The multicast frame-counter protects the devices against replays: as long as
\* the API has not set the counter of the group back, two messages that are
\* queued or were transmitted never carry the same counter, however the calls
\* that enqueue them interleave (enqueue.go:24-36).
CounterFresh ==
    \A m, n \in Messages :
        (m.g = n.g /\ m.g \notin setBack /\ m.fCnt = n.fCnt) => (m.pl = n.pl)

\* Gateways that cover the same devices must not transmit on top of each other:
\* the rows of a group are a gateway delay apart in Class-C, and have a ping-slot
\* each in Class-B, also across the messages of concurrent calls (enqueue.go:53).
RowsSpaced ==
    \A g \in Groups : \A r, o \in Items(g) :
        r.id < o.id =>
            /\ (r.emit = None /\ o.emit = None) => r.at + Delay <= o.at
            /\ (r.emit # None /\ o.emit # None) => r.emit < o.emit

\* The rows a scheduler works on are still there with their group, although the
\* API can delete the group, flush its queue and acknowledgements can arrive
\* before the scheduler commits: getMulticastGroup never fails (multicast.go:88).
BatchIntact ==
    \A s \in Schedulers : \A r \in Range(batch[s]) :
        r \in queue /\ group[r.g] # None

\* An enqueue that commits creates a row for a gateway that hears each device of
\* the group with rx-info, one of sufficient SNR if there is any, although it
\* picks as few gateways as it can (min_gw_set.go:18).
Covered ==
    [][\A c \in Clients :
        (call[c].op = "enqueue" /\ nextId' > nextId /\ call'[c] = NoCall) =>
            \A d \in members[call[c].g] :
                LET rx == rxInfo[d]
                IN  DOMAIN rx # {} =>
                        \E r \in queue' \ queue :
                            /\ r.w \in DOMAIN rx
                            /\ (\E w \in DOMAIN rx : rx[w] = "ok") => rx[r.w] = "ok"]_vars

\* Every queue-item is transmitted or leaves the queue (scheduler.go:109), also
\* after failed calls and crashes of an instance.  BatchSize must be at least
\* the number of rows: an item that no gateway acknowledges stays at the head of
\* every batch.
RowsServed ==
    \A i \in 1 .. MaxId :
        (i \in Ids(queue)) ~> (i \notin Ids(queue) \/ \E t \in sent : t.item.id = i)

\* The multicast downlink implements its abstract specification.
Message(r) == [id |-> r.id, g |-> r.g, w |-> r.w, fCnt |-> r.fCnt, pl |-> r.pl]

Service == INSTANCE MulticastService WITH
    counter <- [g \in Groups |-> IF group[g] = None THEN None ELSE group[g].fCnt],
    outbox <- {Message(r) : r \in queue},
    aired <- {Message(t.item) : t \in sent},
    doomed <- {Message(r) : r \in flushed}

\* Transactions, locks, retries and acknowledgements together behave as the
\* atomic service: accepting a message is one step with a fresh counter, only
\* accepted messages are transmitted, and a message is removed only when it was
\* transmitted, flushed or is too large.
ImplementsService == Service!Spec
=============================================================================
