# A TLA+ verification of ChirpStack Network Server

ChirpStack Network Server (v3) is the component of a LoRaWAN network that talks
to the gateways on one side and to the application-server (AS) on the other. It
de-duplicates the uplinks that several gateways receive, authenticates them,
keeps the frame-counters and the mac-layer state of every device, and decides
when and with which counter a downlink is sent. Instances are replicated:
several processes share one PostgreSQL database, one Redis and the message
broker, and every gateway message is handled by a goroutine of its own.

This directory holds TLA+ modules for parts of that system, the TLC
configurations that check them on small instances, and proofs that TLAPS checks
for every instance. `PROJECT.json` maps every definition to the lines it
models; paths below are relative to `src/internal/`.

    tlc -config Deduplication.cfg MCDeduplication      # one run
    tlapm DeduplicationProofs.tla                      # the proofs of one module

## 1. The system

### Components, their state and operations

| component | state | operations | correct when |
|---|---|---|---|
| gateway backends (`backend/gateway`) | broker connections | deliver uplinks, tx acknowledgements, statistics; publish downlinks | external; at-least-once, unordered |
| uplink entry and de-duplication (`uplink/uplink.go`, `uplink/collect.go`) | Redis set and lock per frame, both with an expiration | `collectAndCallOnce`, dispatch by message type | one handler call per frame, with all copies of the window |
| data uplink (`uplink/data`) | session in Redis, queue row in PostgreSQL | authenticate, mac-commands, save session, ACK, response | counters never regress, ACKs credited to the right downlink |
| session store (`storage/device_session.go`) | one protobuf per device, a set per DevAddr | get, save (whole value), delete, match MIC and counter | an accepted uplink is new or an allowed retransmission |
| device-queue (`storage/device_queue.go`) | rows `dev_eui, f_cnt, is_pending, timeout_after, retry_after` | create, flush, get next / pending, update, delete | nothing lost silently, nothing reported twice |
| downlink composition (`downlink/data`) | frame in Redis by token | pick an item, drop, re-encrypt, build receive windows, send | a counter is used for one payload only |
| scheduler loops (`downlink/scheduler.go`) | row lock `for update skip locked` | Class-B/C batch, multicast batch | one instance at a time per device; progress |
| tx acknowledgement (`downlink/ack`) | the saved frame, the session, the queue row | mark pending / delete, increment a counter, or send the next window | the counter follows what was transmitted |
| multicast (`downlink/multicast`, `storage/multicast_group.go`) | group counter, members and queue | enqueue for gateways, schedule, acknowledge | a counter per message, every member reached, transmissions apart |
| join and rejoin (`uplink/join`, `uplink/rejoin`) | activations (nonces), session, keys | authenticate, join-server call, flush, new session | a nonce is used once; no session without its activation |
| mac-commands (`maccommand`, `storage/mac_command.go`) | pending request per CID, mac-queue | request/answer pairs, queue | the session agrees with the device; the device ends up as configured |
| ADR (`adr`, part of `downlink/data`) | uplink history in the session | `LinkADRReq` | data-rate and power stay in range and come to rest |
| Class-B (`gps`, `downlink/data/classb`) | beacon-locked flag, ping slots | slot computation | an item is emitted in a slot of the device |
| passive roaming (`roaming`, `api/roaming`) | Redis sessions with a lifetime | start, forward, stop | frames are routed by a valid session only |
| profiles, gateways and their caches (`storage/*_profile.go`, `storage/gateway.go`) | rows and cached copies | CRUD, flush, cached get | a cached copy is not older than its lifetime |
| gateway statistics (`gateway/stats`) | first and last seen, location, configuration of the gateway | update the row, forward, push the configuration | a version stands for one configuration |
| network-server API (`api/ns`) | none of its own | CRUD, activation, queue and mac-queue calls | as the stores it writes |
| network-controller, AS client, framelog, monitoring, configuration, migrations, generated code | - | I/O | not modelled |

### How the parts interact

An uplink comes in as one message per gateway. `HandleUplinkFrames` starts a
goroutine per message; `collectAndCallOnce` elects one of them, sleeps for the
de-duplication delay, and hands the collected copies to the handler of the
message type. The data handler reads the device-session, works through a list of
tasks, writes the session back **as a whole**, settles the ACK bit against the
device-queue, and then calls `data.HandleResponse`, which picks a queue item,
builds one frame per receive window, saves it in Redis under a random token,
writes the session once more, and publishes the frame. The same task list, with
a row lock on the device and inside a transaction, is run by the scheduler loops
of every instance for Class-B/C devices. The gateway answers with a tx
acknowledgement. Its handler locks the device row if a queue item is concerned,
marks the item as pending or deletes it, increments the counter and writes the
session. In the meantime the AS may enqueue, flush, or ask for the next counter.

### What is hard

* **No common lock.** Uplink handlers take no lock on the device, the scheduler
  and the tx acknowledgement do. The session is always written from a copy that
  was read at the start: the last writer wins.
* **Two stores.** A PostgreSQL transaction that is rolled back undoes nothing in
  Redis, nothing the gateway has been told and nothing the AS has been told.
* **Locks that expire.** De-duplication and the downlink locks are Redis keys that
  nobody releases; they are right only if the latencies are small enough.
* **Messages.** Tx acknowledgements overtake the commit of the scheduler that
  sent the frame, arrive twice, late, or not at all.
* **Answers without identity.** The answer to a mac-command carries status bits
  only; it is read with whatever request is remembered as pending when it comes in.
* **Copies.** Profiles and gateways are cached in Redis by readers that race with the
  calls that change the rows.
* **Counters.** LoRaWAN 1.1 devices have one counter for mac-commands and one for
  application payloads; the queue is encrypted with the counter the AS guessed,
  and the whole queue is re-encrypted when the guess was wrong.

`PROJECT.json` lists 40 hazards of this kind, each at its line, with the
properties that catch it or the reason why none does.

## 2. Modules

| module | models | kind |
|---|---|---|
| `Deduplication` | `uplink/collect.go` | specification, timed |
| `MCDeduplication` | three receptions, two gateways | instances for TLC |
| `DeduplicationProofs` | | proofs |
| `DeviceDownlink` | queue, session, uplink handlers, scheduler loops, tx acknowledgements, API calls, gateway and device | specification, composes the parts that share the device's state |
| `MCDeviceDownlink` | | instances for TLC |
| `DeviceDownlinkProofs` | | proofs |
| `FrameCounter` | the uplink counter, `GetFullFCntUp`, `GetDeviceSessionForPHYPayload`, uplink history, packet-loss | specification and algorithms |
| `FrameCounterProofs` | | proofs |
| `SessionStore` | join, rejoin, uplink lookup, activation, update and deactivation of one device, the session in Redis and its DevAddr sets | specification, composes the parts that share the session |
| `MCSessionStore` | | symmetry for TLC |
| `SessionStoreProofs`, `SessionHeardProofs` | | proofs |
| `Multicast` | multicast-groups, their members and queue, enqueue, scheduler, acknowledgements, API calls | specification, composes the parts that share the queue |
| `MulticastService` | what the multicast downlink promises | abstract specification, implemented by `Multicast` |
| `MCMulticast` | | instances for TLC |
| `MulticastProofs` | | proofs, the refinement included |
| `Registry` | profiles, gateways, their cached copies, gateway statistics and configuration | specification |
| `MCRegistry` | | instance for TLC |
| `RegistryProofs` | | proofs |
| `Adr` | the three built-in ADR algorithms | algorithms, without state |
| `MacLayer` | mac-commands in both directions, channels, pending and queued commands, ADR in a closed loop with a device | specification, extends `Adr` |
| `MCMacLayer` | | instance for TLC |
| `MacLayerProofs` | | proofs |

### Deduplication

One (TxInfo, PHYPayload) key. State: the Redis set `collectSet` with its
expiration `setExp`, the expiration of the lock `lockExp`, the clock, and for
every reception (a goroutine) where it is in `collectAndCallOnce`, its `wake`
time and what it has `read`. Actions: `collectAndCallOncePut` (SADD and PEXPIRE
in one MULTI), `AcquireLock` and `AlreadyLocked` (SETNX), `CollectRead` and
`CollectDelete` (SMEMBERS and DEL, a pipeline without MULTI and therefore two
steps), `RedisError`, `Tick`. Time is discrete; a goroutine's step is executed at
most `MaxLag` after it is due. The code needs such a bound and does not enforce
it: the only slack is that the expiration is twice the delay. The assumption
`LatencyAssumption`, `Delay + 3 * MaxLag < TTL`, states how much latency that
slack buys: the SETNX after the SADD, the SMEMBERS after the sleep, and the DEL.

### DeviceDownlink

One device. A step of a goroutine is one SQL statement or one Redis command;
reads that no other goroutine can distinguish from the following write are merged
with it.

* *PostgreSQL.* `queue` holds the committed rows, indexed by id; a deleted row keeps
  its place with `live = FALSE`, since ids are never used again. `devLock` is
  the holder of the row lock on the device, `dirty` and `txQueue` what its open
  transaction has written. `View(c)` is what a statement of goroutine `c` sees and
  `Write` the READ COMMITTED rule: another writer of a dirty row waits. The
  selection of devices for the scheduler is two steps, `SelectDevice` (the snapshot of
  the statement) and `LockSelected` (`for update of d skip locked`), because
  the row may be locked and released in between.
* *Redis.* `session` holds the two downlink counters, `frames` the saved frames by
  token.
* *Goroutines.* `pc` and the locals `ds` (the session copy), `item`, `snap`,
  `target`, `upACK`, `job`.
* *Uplink handlers* (`uplink/data/data.go`): `UplinkGetSession`,
  `UplinkSaveSession`, `UplinkACK`, `UplinkACKDelete` with its two failures.
* *Composition* (`downlink/data/data.go`), shared by uplink handlers and scheduler:
  `NextItem` is one iteration of `getNextDeviceQueueItem`; `DropItem` the deletion
  of a timed-out or oversized item and its report, with the two failures;
  `ReadQueue`, `FlushQueue`, `RecreateQueue`, `ReencryptError` and
  `AbortTransaction` the re-encryption of the queue; `NothingSent` and `SendFrame` the
  end of the task list.
* *Scheduler*: `SelectDevice`, `LockSelected`, `SchedulerGetSession`, `SchedulerSkip`,
  `SetRetryAfter`, `Commit`.
* *Tx acknowledgement* (`downlink/ack/ack.go`): `ReceiveTXAck`, `LockDevice`,
  `AckGetSession`, `ApplyTXAck`, `TXAckItemGone`, `AckSaveSession`,
  `AckSaveSessionMAC`, `Commit`.
* *AS*: `GetNextDownlinkFCnt`, `CreateDeviceQueueItem` (two calls with
  arbitrary steps in between), `FlushStart`, `FlushEnd`.
* *Environment*: `Transmit` (one of the receive windows, or an error; a lost
  acknowledgement is one that is never handled), `TimeoutPasses`, `RetryPasses`,
  `Crash`.

Abstractions:

* Times of queue items are `nil`, `future` or `past`; time passes for each deadline
  on its own, which allows more orders than a clock does.
* The Redis locks on the device and on the gateway are the nondeterministic
  `SchedulerSkip`: the model does not rely on them.
* Tokens do not collide. A frame that expires in Redis is the same as an
  acknowledgement that is not handled.
* An item fits the maximum payload size or, if it is in `Large`, perhaps not: data-rate
  and mac-commands are not modelled.
* Class-B is left out here: `timeout_after` and emit time of a Class-B item are set
  at enqueue and depend on the ping slots.
* `ConfFCnt` of the session and the payload of the ACK are not modelled.

### FrameCounter

One session, one device that numbers its frames, and a network that loses, repeats and
reorders them. `GetFullFCntUp` is translated with its widths: the expected
counter is taken modulo `Top` (2^32), the differences modulo `Width` (2^16).
`Judge` is the decision of `GetDeviceSessionForPHYPayload`: the MIC is tried with
the rebuilt counter and with the bare 16 bits (`Candidates`); a valid MIC is named by
the 32-bit counter it was computed with. `HistoryFor`, `AppendUplinkHistory` and
`LostPackets` are the history's reset, append and loss computation. `Send` is
the device, `Receive` one completely handled frame: what concurrent handlers do
to the stored counter is part of `DeviceDownlink`. The device is assumed to
join again before it has used up the 32-bit counter.

### SessionStore

One device. A handler is a process `p` with `at[p]` (what it does next), `req[p]`
(the frame or API request), `row[p]` (its copy of the device row) and `ds[p]` (its
copy of the session). A step is one Redis command, one SQL statement, the end of
a transaction, or a join-accept handed to the gateway.

* *PostgreSQL*: `disabled`, `activations` (rows per DevNonce), `lock` (the
  transaction that holds the device row). *Redis*: `session`, `index` (the DevAddr sets
  that hold the DevEUI).
* *Join* (`uplink/join/join.go`, one transaction): `JoinGetDevice` (`for update`, and the
  test of `is_disabled`), `ValidateDevNonce`, `JoinServerAnswers`, the save,
  `SendJoinAccept`, `JoinCommits`.
* *Rejoin* types 0 and 2 (`uplink/rejoin/rejoin.go`, no transaction, no lock):
  `RejoinGetDevice`, `RejoinGetSession`, `RejoinServerAnswers`, the save, `SendJoinAccept`.
* *Save* (`SaveDeviceSession`): `SAdd`, `SAddPending`, `Set`, three commands. `SaveDone`
  is where each handler goes on: the uplink handler saves once more with
  its response.
* *Uplink data*: `SMembers`, `UplinkGet`, and `SRem` for a DevEUI without a
  session. `Matching` yields the main and the pending session whose address and
  keys fit; an accepted frame on the pending session makes it the session.
* *API*: `UpdateDevice`, `UpdateGetSession`, `UpdateCommits`; `ActivateGetDevice`,
  `ActivateUpdateDevice`; `DeactivateDevice`.
* `Fail`: at the steps in `FailAt` a handler fails or its process dies. The
  transaction is rolled back; what Redis and the gateway have been told stays.

Assumptions about the device and the radio: the frame that may be handled (once or
more, or never) is the last one the device sent; a join-accept reaches the device
only for its last request (receive windows) and may be lost; a device that was
personalised by `ActivateDevice` does not rejoin, and frames in flight from before the
personalisation are not handled after it. `asked` is a history variable: the
`IsDisabled` of the last `UpdateDevice` that returned.

Abstractions: a number stands for the session keys of one join-server answer; two
sessions have the same keys only if they come from the same answer. The
counters, mac-layer parameters and the device mode are left out; so is the device-queue
that a join flushes. `DeactivateDevice` is one step, a Redis DEL.

### Multicast and MulticastService

PostgreSQL under READ COMMITTED, as the steps at which a transaction takes its row
locks, reads what others may change, and commits. A statement that waits for a row
lock is a step that is not enabled.

* *State*: the rows `group`, `members`, `queue`; `rxInfo`, the gateways of the last uplink
  of each device in Redis; `rowLock` and `call`, the open transaction of an API call;
  `batch`, `locked`, `discarded`, those of a scheduler. `sent`, `flushed` and `setBack` are
  history.
* *API* (`api/ns`, `storage/multicast_group.go`): create, update and delete of a group, of
  its members, and the flush, whose `delete` works on the rows of its snapshot
  (`FlushMulticastQueueForMulticastGroup`, `FlushDeletes`).
* *Enqueue* (`downlink/multicast/enqueue.go`): `EnqueueMulticastQueueItem` locks the group
  and checks the counter, `EnqueueCommits` picks the gateways, computes the times and
  inserts a row for each gateway, `EnqueueFails` rolls back. `GetMinimumGatewaySet` is
  Kruskal's algorithm as the set of its possible results; `GetNextPingSlotAfter` the ping
  slots, with the AES-based offset as a constant per beacon period.
* *Scheduler*: `GetSchedulableMulticastQueueItems` (`for update skip locked`),
  `HandleScheduleQueueItem`, `DiscardQueueItem`, `ScheduleFails`, `CommitBatch`,
  `CrashBatch`. *Acknowledgement*: `HandleDownlinkTXAck`.

`MulticastService` has none of that: a message is accepted in one step with a
counter that the group has not used, is transmitted only while it is accepted, and leaves
only when it was transmitted, flushed, deleted with its group, or too large. `Multicast`
implements it under the mapping `Service`: the counter of the group, the queue, the frames
sent and the items flushed, without locks, times and transactions.

### Registry

Rows of the four kinds of profiles and of gateways; `cache`, the copies in Redis of
service-profiles, device-profiles and gateway meta-data (a join of the gateway and its
service-profile) with their remaining lifetime. API methods of one statement are one step;
the others keep in `api[c]` what they have left to do: the flush of a service-profile is a
DEL, a SELECT of the gateways, and a DEL for each; the update of a gateway is a read outside
and a write inside a transaction, with the flush before the commit. A handler reads a row
(`Miss`) and caches it (`CacheRow`) in two steps, so that calls run in between.
`HandleStats` to `ForwardGatewayStats` are the handler of gateway statistics, with the two
SELECTs of the gateway-profile outside of a transaction; `conf` is the configuration the
gateway applies. `BreakOff` and `StatsBreakOff` end a call between two statements.
`stale` counts the ticks since the database last agreed with a copy. A copy is `excused`
when it was read while a call was in progress, when its row went by the cascade of a
routing-profile, or when a call broke off before its flush: the code makes no promise for
these but the lifetime. A row is reduced to the columns that steps depend on.

### MacLayer and Adr

One Class-A device and the server. `ds` is the session, `dev` the device (external: how a
LoRaWAN device executes requests), `pending` and `queue` the blocks in Redis, `round` the
exchange of an uplink and its response.

* The answer and request handlers of `maccommand` keep their names; `Handle` dispatches.
  `handleUplinkMACCommands` goes over the commands of a frame, grouped by CID.
* `Collected` is the task list of the response: channels, mask, ADR, device status,
  parameters, external blocks, the filter on errors, and the exclusion of `LinkADRReq` by
  `NewChannelReq`. Its value is a set, since the LR-FHSS algorithm picks at random.
* `SendUplink`, `HandleUplink`, `setMACCommands`, `ReceiveDownlink` are the exchange;
  `Lost`, `HandleUplinkFails` (the requests of some answers are deleted, the session is not
  saved) and `setMACCommandsFails` (some blocks are pending, no response) its faults.
  `Reconfigure`, `DeviceResets`, `DeviceBacksOff` and `CreateMACCommandQueueItem` come
  from outside, at most `MaxChanges` times together with the requests of the device.
* Loops over commands, channels and responses are recursive functions on the number of
  elements handled; `Pick` keeps the elements of a sequence at some positions. The
  configured channels are a sequence (`CustomChannelIndices`), since at most three of them,
  the first ones, are asked for in one downlink.
* `Adr` has signal levels as integers (half dB), float to int conversion towards zero, and
  the frames missed before an element of the history in place of its counter.

A parameter (all the settings of one pair of commands) is one value; a mask is a set of
channels, its encoding in several `LinkADRReq` is the band library's. `MacAssumption` says what
the constants are; its one restriction is that the external controller enqueues commands of
its own (`ExtCids` are proprietary CIDs), since nothing in the server keeps it from
enqueueing one that the server uses as well, whose answer would then be read with
either request. `blind` is a history
variable, the reasons for which the session may be wrong about a parameter for good:
an answer was read with another request than its own (*repeated*), a personalised device has
reset and `ResetToBootParameters` does not touch the parameter (*reset*), or a request was
withdrawn by a reconfiguration while its answer was outstanding (*withdrawn*).

## 3. Runs

| run | instance | properties | result |
|---|---|---|---|
| `dedup` | three receptions, two of them of the same copy, delay 3, the floor of the expiration in force (7), latency 1 | `TypeOK`, `OneCollector`, `CallsAreApart`, `OwnFrameCollected`, `WindowComplete`, `EventuallyHandled` | hold |
| `downlink_class_c` | one confirmed payload, an uplink handler, a scheduler, a tx-ack handler | `TypeOK`, `OutcomeOnce`, `AckFollowsTransmission`, `NoSilentLoss` | hold |
| `downlink_crash` | LoRaWAN 1.1, two schedulers, a flush, one duplicated acknowledgement, one crash, an oversized payload | `OutcomeOnce`, `NoSilentLoss`, `PendingSticky` | hold |
| `downlink_stale` | an uplink handler and a tx acknowledgement | `AckedCounterKept` | violated, finding 1 |
| `counter` | counters modulo 8, frames carry them modulo 4, history of 3, counter check on and off | `TypeOK`, `AcceptedOnce`, `VerdictExact`, `HistoryIncreasing`, `LossExact` | hold |
| `session_concurrent` | three handlers, two DevNonces, joins and updates, a failure at any step but the commit | `NonceOnce`, `OneJoinAtATime`, `DisabledIgnored` | hold |
| `session_rejoin` | one handler at a time, all six operations, two DevNonces, three join-server answers, a failure at any step but the commit | `TypeOK`, `DeviceHeard` | hold |
| `session_index` | two handlers, joins, data, deactivation | `IndexCovers` | violated, finding 2 |
| `multicast` | one group, two devices, two gateways, two payloads (one large), two API clients, a scheduler, one change of the group, its members or rx-info | `TypeOK`, `CounterFresh`, `RowsSpaced`, `BatchIntact`, `Covered`, `ImplementsService` | hold |
| `multicast_live` | two schedulers, one API client, one crash or failed call | `RowsServed` | holds |
| `registry` | one row of each kind, two API calls, a handler, one failure, lifetime 2, latency 1 | `TypeOK`, `CopiesFresh`, `StalenessBounded`, `VersionIdentifiesConfig` | hold |
| `mac` | three parameters (one refused), four channels (one refused, one old), three devices, one change from outside, any number of losses and failures | `TypeOK`, `Agreement`, `OnlyRepeatedMisread`, `RefusedPowerAvoided`, `Converges`, `LinkSettles` | hold |

What the properties say:

* `OneCollector`, `CallsAreApart`: at most one goroutine collects a frame, and two
  handler calls are at least an expiration apart. That is all the code guarantees: a
  copy delivered after the expiration is handled once more, and for data uplinks the
  counter check rejects it later on.
* `OwnFrameCollected`, `WindowComplete`: the collector reads its own copy (the error
  "zero items in collect set" does not happen) and every copy stored within the
  delay after it took the lock, although SMEMBERS and DEL are not atomic and both
  keys expire independently.
* `EventuallyHandled`: a copy that reached Redis leads to a call, unless a Redis
  command fails.
* `PendingSticky`: no committed `is_pending` is undone by the whole-row update of a
  scheduler that read the row earlier. This is what the lock in
  `HandleDownlinkTXAck` is for (`downlink/ack/ack.go:57`); the mutant without it
  violates the property.
* `OutcomeOnce`: whoever deletes the row (device ACK, timeout, size error, several
  instances), the AS hears one outcome, except when the transaction that deleted
  the row is lost after the AS was told.
* `AckFollowsTransmission`: an ACK carries no counter; it is credited only to a payload
  that some gateway has acknowledged to transmit.
* `NoSilentLoss`: a payload is in the queue, transmitted, or its fate was reported.
  The three excuses are in the code: items enqueued between the read and the end of a
  re-encryption are flushed with the rest, an API flush is a deletion asked for,
  and a row is deleted before the AS is called, which may fail.
* `AckedCounterKept`: the stored counters are above those of every acknowledged frame.
* `AcceptedOnce`, `VerdictExact`: with the counter check on, no frame is accepted twice in
  whatever order frames are delivered; a frame not further ahead than `Width - 2` is
  accepted, a repetition of the last one is a retransmission, nothing older is
  accepted, in spite of the 16-bit roll-over and of the second MIC candidate.
* `HistoryIncreasing`, `LossExact`: also with the check off, where counters go back,
  the history is strictly increasing and ends at the last accepted frame, and the
  loss computed in unsigned arithmetic is the number of missing counters.
* `NonceOnce`, `OneJoinAtATime`: concurrent and repeated join-requests do not use a
  DevNonce twice, and the Redis writes and the join-accept of two joins never
  interleave: the row lock protects Redis too.
* `DeviceHeard`: between handlers, the session the device uses is found by its
  DevAddr and keys, through lost join-accepts, repeated rejoin-requests and failures
  half-way through a save.
* `DisabledIgnored`: after an update that disables the device no frame is accepted,
  although uplink handlers look at the copy of the flag in the session only.
* `CounterFresh`: two messages of a group that are queued or transmitted never share a
  counter, whatever API calls interleave, unless the API has set the counter back.
* `RowsSpaced`: the rows of a group, also those of concurrent calls, are a gateway delay
  apart (Class-C) or have different ping slots (Class-B).
* `BatchIntact`: what a scheduler works on is neither flushed, acknowledged nor deleted
  with its group before it commits.
* `Covered`: every member with rx-info is reached by one of the gateways chosen, with
  sufficient SNR where there is one.
* `ImplementsService`: the refinement of `MulticastService`.
* `RowsServed`: every row is transmitted or leaves the queue, through a crash.
* `CopiesFresh`: whenever no call is in progress, a copy that is not excused is the row,
  also when what changed is a row that the copy joins.
* `StalenessBounded`: whatever races, what a reader gets was the row at most a lifetime
  and a latency ago. The mutant that renews the lifetime of a copy that is read violates it.
* `VersionIdentifiesConfig`: a gateway that reports the version of its profile has that
  profile's channels and extra channels, although they are read by two statements.
* `Agreement`: when the server has nothing more to ask for, it is right about the
  device. Lost frames and failures between two Redis writes only make it ask again.
* `OnlyRepeatedMisread`: an answer is read with another request than its own only if it is
  one that the device repeats until it hears from the server.
* `RefusedPowerAvoided`: a power the device refused is not asked for again, nor a higher
  one, whatever is lost, also while a reset of the device has not been reported yet.
* `Converges`: in the end the device has every configured value that it accepts, what it
  refuses is not asked for any more, and the channels are those of the configuration.
* `LinkSettles`: the ADR loop comes to rest.

Bounds. `MaxArrival` lets the last reception come after the first lock has
expired, so that expired locks and repeated collections happen. `MaxId` counts ids:
with one payload, two or three ids allow for one or two complete re-encryptions. `MaxToken` is the number of frames sent; two give a
retransmission of the same item. Runs in which an id or a token runs out stop that
branch only. In `FrameCounter` the expected counter starts anywhere, so the roll-over of
the low bits and the largest counter are both reached. Two join-server answers make
one session replace another, three add a rejoin to that or nest a second pending
session (a type 2 rejoin copies the session with the pending one inside it);
`RJMod` 3 lets `RejoinCount0` reach its roll-over; two addresses let old and new
session share one or not. `session_rejoin` is sequential because the question is what
loss, repetition and failure do. In both passing runs of `SessionStore` the commit does
not fail: the join-accept is sent, and the session saved, before it, so that after a
failed commit the device may use keys that a repeated join-request replaces, and a device
that is disabled in Redis may be enabled in PostgreSQL or the reverse. Put
`"commit"` into `FailAt` to see it; the theorems on nonces hold with it. 

In `multicast` three ids are two messages, one of them for two gateways; counters modulo 4
with 2 as the largest that the column holds reach the error of the column and, for a message
that no gateway is to transmit, the wrap to 0 (which counts as set back); `MaxNow` 0 stops the clock only
while no row waits. `BatchSize` is not smaller than the number of rows: an item that no
gateway acknowledges stays at the head of every batch, see below. In `registry` two calls
are a race of two updates or of an update and a deletion; at most one copy is kept at a time
(`MaxCopies`), since no step looks at two. In `mac` the history has two elements (20 in the code), enough for
mixed powers and for a gap, which is a loss of 50 %; three blocks fit a frame,
fewer than the server collects; `RXTimingSetup` and `TXParamSetup` are left out of the
instance, since their answers are treated as those of `RXParamSetup` (repeated) and
`RejoinParamSetup` (not refused). One change from outside is enough to have any of
them meet any loss and failure.

`CHECK_DEADLOCK FALSE` is used for `Deduplication`, where all
goroutines end, for `FrameCounter` and `SessionStore`, where the bounds on counters, nonces
and answers end the run, for `Multicast`, where the queue may be empty and the ids used up,
and for `downlink_crash`, where the instance may die with nothing left to do.

Fairness. `dedup` assumes weak fairness of `Tick`, and of the steps of each
goroutine that has stored its copy (the Go scheduler runs a runnable goroutine and
`time.Sleep` returns). Receptions and Redis errors are not fair. `multicast_live` assumes that
time passes and that the scheduler loops, which run for ever in every instance
(`downlink/scheduler.go`), go on; acknowledgements and API calls are not fair. `mac` assumes
that the device goes on sending, that a frame is lost or handled, and that after
any number of losses and failures there is a last one; nothing converges on a channel that
loses everything.

### Findings

1. `downlink_stale`: the whole-session writes of uplink handlers (and of
   `saveDeviceSession` in the response) undo the increment of a tx
   acknowledgement handled in between; the counter of a transmitted frame is used
   again.
2. `session_index`: the clean-up of a DevAddr set (`storage/device_session.go:426`) can
   remove the DevEUI that a concurrent `SaveDeviceSession` has just added; the session
   exists and is not found until it is saved again.

### Known limits

Behaviour of the code met while modelling. No run is about it: the properties except it by
name, or the module leaves it out.

* LoRaWAN 1.1: `handleUplinkACK` compares the item with `NFCntDown - 1` although it is
  numbered with `AFCntDown` (`uplink/data/data.go:670`); the ACK is ignored unless both
  counters agree.
* `UpdateDevice` sets `IsDisabled` on the main session only, not on the pending one of a
  rejoin (`api/ns/network_server.go:597`), and saves it before it commits.
* `UpdateMulticastGroup` sets the counter to what the request carries, also back
  (`api/ns/network_server.go:1600`).
* A multicast batch is always the rows with the lowest ids (`storage/multicast_group.go:410`):
  rows that no gateway acknowledges and that have no deadline keep newer ones from being
  transmitted once they fill a batch.
* Two writes of a gateway-profile in one second have the same version; a gateway that
  applied the first does not get the second.
* The cascade from a routing-profile to its gateways leaves the cached meta-data of the
  gateways in Redis until it expires.
* The RSSI of the uplink history is never recorded (`uplink/data/data.go:329`) nor passed on
  (`downlink/data/data.go:1158`): the LR-FHSS algorithm always sees a median of 0 and chooses
  coding-rate 4/6 whatever the signal.
* A device that refuses power index 1 sets `MaxSupportedTXPowerIndex` to 0, which
  `requestADRChange` takes for "not known"; it is asked again.
* `ResetToBootParameters` leaves the transmission and rejoin parameters and the error counts
  of the session, which the device has lost.
* A repeated `RXParamSetupAns` or `RXTimingSetupAns` is read with a newer request; a request
  that the configuration withdraws is never asked about again.
* An external controller may enqueue a command that the server uses as well
  (`storage/mac_command.go:96` takes any CID); there is one pending block for each CID, so
  the answers of the two requests are confused. `MacAssumption` leaves it out.
* Two equal blocks in the mac-command queue: the deletion of the second finds nothing and
  the response is not sent; blocks that do not fit the frame are dequeued all the same. A
  comment says that an enqueued block "replaces" an older one of its CID
  (`api/ns/network_server.go:766`), `CreateMACCommandQueueItem` appends
  (`storage/mac_command.go:96`).

## 4. Proofs

The proof modules follow one scheme: an inductive invariant `IInv` that is a
conjunction of named parts, a lemma per part (or, in `DeduplicationProofs`, per action)
that a step preserves it, and theorems that combine `Init => IInv`, the step and
`IInv => Property` with PTL. TLC checks the properties themselves on small instances.

`DeduplicationProofs`, for every set of receptions, delay, floor and latency that
satisfy `ConstantTypes` and `LatencyAssumption`: `TypeCorrect`, `CollectorExclusion`
(`OneCollector`), `CallsSeparated` (`CallsAreApart`), `CollectorKeepsFrame`
(`OwnFrameCollected`), `WindowCollected` (`WindowComplete`). The argument is about
time: a goroutine is never later than `due` (`Timing`), so a collector is done before
its lock expires (`LockOwner`) and two locks are an expiration apart (`LocksApart`). A
stored copy stays in the set, or a collector took it and then the lock outlives the
next step of whoever stored it (`FrameKept`), so that this goroutine will not
collect; while one sleeps, the set keeps everything stored since (`SleepKeeps`).

`DeviceDownlinkProofs`, for every number of goroutines, payloads, ids, tokens,
duplicates and crashes, with and without Class-C and LoRaWAN 1.1, from `ConstantTypes`,
`ProcsDisjoint` and `NonePayload`: `TypeCorrect`, `PendingNeverUndone`
(`PendingSticky`), `OneOutcome` (`OutcomeOnce`), `AckedWasTransmitted`
(`AckFollowsTransmission`), `NothingLost` (`NoSilentLoss`). None of the last four is
inductive. The
invariant adds who may hold the lock and that only the holder has dirty rows
(`Locking`), that ids are fresh (`Fresh`), that neither the dirty rows nor the copy a
scheduler will write back undoes a committed `is_pending` (`PendingKept`), and that a row
whose outcome is known is dead for whoever wrote it last (`Once`). `ItemKnown` and
`JobKnown` say which locals and saved frames name a row. For the last two theorems a row must
keep its payload for ever, also in a transaction that has written it (`PayloadInv`). A
mark `is_pending`, committed, uncommitted or read by a handler that is about to
delete the item, then means that a gateway transmitted this payload (`AckInv`). A
payload is accounted for in the committed table and in the one the open transaction would
commit, since a crash decides between the two, and while a transaction re-encrypts the
queue in the rows it has read as well, since it deletes all the others (`LossInv`).

`FrameCounterProofs`, for every `Width < Top` and history size (`CounterWidths`), with the
check on or off: `FullFCntExact` (`GetFullFCntUp` is exact from one behind to
`Width - 2` ahead), `TypeCorrect`, `NeverAcceptedTwice` (`AcceptedOnce`),
`VerdictCorrect` (`VerdictExact`), `HistoryOrdered` (`HistoryIncreasing`), `LossCounted`
(`LossExact`). The arithmetic rests on a
few lemmas about `%` (the representative of a number in an interval of length
`Width`). `AcceptedOnce` is not inductive: the invariant adds `Below`, every accepted
counter is below the expected one while the check is on. For the packet-loss, the sum of the
gaps that the loop of `GetPacketLossPercentage` computes is shown to be the distance of the
first and last record less the number of records after the first, which is the number of
counters in the range that have no record.

`SessionStoreProofs`: `NonceUsedOnce` (`NonceOnce`), `JoinsExclude` (`OneJoinAtATime`)
and `DisableLasts` (`DisabledIgnored`), for every number of handlers, nonces,
addresses and answers. The first two allow every operation and every failure, with no
hypothesis but `ConstantsOK`. The invariant is `Typed`, `LockInv` (a join past its first
statement, and an update past its own, holds the lock) and `NonceInv` (a nonce that is being activated has no
activation yet). `DisableLasts` has the hypothesis `JoinsAndUpdates`: only joins and updates
run and a failure comes before the commit. Its invariant `DInv` says what the holder of
the lock has written so far: while nobody holds it, and until an update saves the
session, the session agrees with the committed row.

`SessionHeardProofs`, from `ConstantsOK` and `NothingApart`: `TypeCorrect`, for every number
of handlers at the same time and every failure. A session holds the pending rejoin session, which
holds another, so its type `SessionsOf[n]` is defined by recursion on the number `n` of
answers of the join-server; `TInv` says which session each handler has in its hands
where it is, nested no deeper than the server has answered. `AlwaysHeard`
(`DeviceHeard`) has the hypothesis `OneAtATime`: handlers run one after the other and the
commit does not fail. The second is needed: a join-accept was sent before the commit, and if
that fails, the repeated join-request passes the nonce check again and replaces the session
the device uses by now. The first is what the run `session_rejoin` checks; the argument
is about one handler at a time, and nothing is claimed about handlers whose saves
interleave. Within the hypothesis frames are still lost and handled again, join-accepts
lost or taken late, the API is called at any time and every other step may fail half-way. The
session in Redis hears the session the device uses and the one it will use once it
takes a join-accept for the request it waits on, and both addresses are indexed (`HeardInv`).
To keep that, the device's next frame differs from all earlier ones (`FramesInv`); once its
request is answered no handler works on an older one (`AnsweredInv`, `AcceptedInv`); an
old request is refused, by its nonce or by the rejoin counter (`OldFrames`); and what a
handler is about to save is either made from the stored session or has new keys, with the
address sets written first (`SaveInv`, `KindInv`).

`MulticastProofs`, for every number of groups, devices, gateways, clients, schedulers,
faults and changes, from `ConstantTypes` (the gateways are finite and the sequence of ping offsets is
not empty): `TypeCorrect`, `CounterNeverReused` (`CounterFresh`), `RowsApart` (`RowsSpaced`),
`BatchKept` (`BatchIntact`), `EveryMemberCovered` (`Covered`, an action property), and
`Refinement` (`ImplementsService`): `Multicast` implements `MulticastService`.
`CounterFresh` needs that the counter of a group is above those of its messages (`CounterInv`), and that an enqueue holds the row of its group from its check of
the counter on, so that what it has read is still true when it commits (`LockInv`).
`BatchIntact` needs that the rows of a batch are in the queue and locked, by one scheduler,
which deletes only large ones (`BatchInv`), and that an id names one row for ever (`Fresh`);
`FlushInv` says that the rows a flush still has to delete are flushed messages. `Refinement` has
one lemma per kind of step of the service: the commit of an enqueue is one `Accept` however many
rows it writes, a frame sent is a `Transmit`, deleting flushed, acknowledged or large rows is a
`Remove`, and taking locks, reading, failing and crashing are stutters.

`RegistryProofs`, for every number of rows, clients and handlers and every time to live, from
`RegistryAssumption` and `NoneAssumption`: `TypeCorrect` (with the references between rows),
`CopiesAgree` (`CopiesFresh`), `StalenessBound` (`StalenessBounded`), `VersionMeansConfig`
(`VersionIdentifiesConfig`). References hold because what a transaction is about to write
refers to rows that exist as well (`RefInv`). A copy that is not excused is the row or a flush of it
is to come, a call that will write a profile has flushed the copies that depend on it or
still has them on its list, and a row that is about to be cached is the row as it is, or was
read in a race that the property excuses (`FreshInv`). The staleness is bounded since
a row in the hands of a handler ages by `Hold` at most and a copy by its remaining time to
live. A version identifies a configuration since the times of updates grow, and what the
statistics handler has read and what a gateway was sent agree with the row as long as the
row has their version (`VersionInv`).

`MacLayerProofs`, for every set of parameters, values and channels, every ADR algorithm,
data-rates and power table, every device, room in a frame and error limit, with and without
OTAA and with mac-commands enabled or disabled, from `MacAssumption` and `AdrAssumption`:
`TypeCorrect`, `AgreementKept` (`Agreement`), `OnlyRepeats` (`OnlyRepeatedMisread`),
`RefusedAvoided` (`RefusedPowerAvoided`), and `Inductive`, the invariant they all follow
from. None of the last three properties is inductive: an answer carries status bits only, so
whether it is read rightly depends on what is pending, on which frame is on its way and on
what the device has done. The invariant follows the exchange:

* `StageInv`: where a frame may be; while an exchange is under way the device holds only
  answers that it repeats.
* `PendingInv`, `AvoidInv`: a pending request has the shape of its command, was made while
  the command was not given up, and avoids refused powers.
* `BlocksInv`: a response on its way asks for the configured value of what is not set, for
  channels the session does not have and for masks that switch off unwanted channels only;
  each command comes once, `NewChannelReq` and `LinkADRReq` not together, the confirmation of a
  reset first; once sent its requests are the pending ones.
* `ReplyFlight`: an answer that is not repeated belongs to the pending request, since a
  request is replaced only when the answers to the former are gone, and tells what the
  device has done with it. A repeated answer tells what value the device has.
* `ResetInv`: a device that has reset has its boot values and says so last in its next frame,
  after answers that change nothing, so that no answer from before the reset is
  credited after it.
* `PowerInv`: the limit of the session is below every refused index (unless index 1 was
  refused), and the powers of session and device are ones the device supports.
* `ParamInv`, `ChannelInv`: where session and device differ there is a request left to
  make, or a reset to report, or a reason in `blind`.

A loop over commands is a recursive function; `LoopExists` and `LoopTyped` show once that
such a function exists and stays in its type, and `Induction` that what each step keeps holds
at the end. `HandleAnswers` (the answers of a frame), `ResponsesOK` and `CollectedOK` (the
requests of a response, for each choice of the algorithm) and `ObeyLoop` (what the device does
with them) are the results of the loops that the steps are proved from; the lemmas before
them say what each handler and each request does. `AdrOK` shows for every algorithm that a
request keeps within the data-rates and one to three transmissions, and asks for no power
index above the one the device has or the one it is known to support.

Induction over data (sums over a history, nested sessions, loops) is done in these modules
with the smallest counterexample: the set of numbers for which the claim fails is a subset of
`Nat`, and `WFMin` with `NatLessThanWellFounded` gives its least member. No module declares a
RECURSIVE operator; recursion is written as functions.

Only model-checked: `EventuallyHandled`, `RowsServed`, `Converges` and `LinkSettles`, since
liveness under fairness is out of the prover's reach. Every other property of a run that
passes is stated by a theorem. `AckedCounterKept` and `IndexCovers` do not hold (findings 1
and 2). What a recursive operator computes for every input is proved only as far as a
property needs it: that the ADR algorithms choose the best data-rate, for example, is not stated.

## 5. Plan

Done: `Deduplication`, `DeviceDownlink`, `FrameCounter`, `SessionStore`, `Multicast` with its
abstract specification, `Registry`, `Adr` and `MacLayer`, each with theorems for all its
safety properties. Next, in this order:

1. `TxAck`: the resend of the next item for gateways that take one item at a time
   (`downlink/ack/ack.go`), where the list is truncated before its length is tested.
2. `DownlinkLock`: the timed Redis locks on device and gateway, and what `SchedulerSkip`
   stands for.
3. Passive roaming sessions, Class-B unicast.

## 6. Not modelled

Brokers, gRPC and HTTP clients, cryptography (MIC, key derivation, certificates),
payload formats, regional parameters, metrics, logs, configuration and
migrations: I/O or pure functions without control state. What the modules assume of
them is named above: messages may be delayed, duplicated and lost, calls may fail.
Passive roaming adds two more networks with sessions of their own; proprietary frames are
forwarded without state; the choice of a downlink gateway depends on signal levels and
chance, and nothing modelled depends on its outcome. Of the modelled components, the read
calls of the API, Class-B unicast times, roaming acknowledgements and the Redis downlink locks
are left out; `PROJECT.json` says so for each component.
