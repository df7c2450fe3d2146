---------------------------- MODULE SessionStore ----------------------------
(***************************************************************************)
(* The life of one device's session: it is created by an OTAA join, by a   *)
(* rejoin-request (as a pending session inside the old one) or by an ABP   *)
(* activation, found again by the DevAddr of an uplink frame, changed by   *)
(* the API and deleted.  The session lives in Redis, in one key for the    *)
(* session and one set of DevEUIs for each DevAddr; the device and its     *)
(* activations live in PostgreSQL.  No lock covers both stores.            *)
(*                                                                         *)
(* A handler is a process.  One step is one access to shared state: a      *)
(* Redis command, an SQL statement, the end of a transaction, a            *)
(* join-accept handed to a gateway.  internal/uplink/join,                 *)
(* internal/uplink/rejoin, internal/uplink/data, internal/api/ns and       *)
(* internal/storage/{device,device_session}.go.                            *)
(***************************************************************************)
EXTENDS Naturals, FiniteSets

CONSTANTS
    Procs,       \* the handlers (goroutines) that can run at the same time
    Addrs,       \* the DevAddr values
    None,        \* no process, no request, no frame
    NoSession,   \* redis.Nil, a nil *DeviceSession
    Ops,         \* the handlers that take part in an instance
    RJMod,       \* RejoinCount0 is counted modulo this number (2^16 in the code)
    MaxNonce,    \* bound: join-requests the device sends
    MaxKeys,     \* bound: answers of the join-server
    MaxBusy,     \* bound: handlers at work at the same time
    FailAt       \* the steps at which a handler can fail, or its process can die

\* The steps of the handlers, each named for what it does next
Labels == {"idle", "getDevice", "validateNonce", "joinServer", "getSession", "smembers",
           "get", "srem", "updateDevice", "sadd", "saddPending", "set", "send", "commit"}

ASSUME ConstantsOK ==
    /\ None \notin Procs /\ NoSession \notin Addrs
    /\ Ops \subseteq {"join", "rejoin", "data", "update", "activate", "deactivate"}
    /\ RJMod \in Nat \ {0} /\ MaxNonce \in Nat /\ MaxKeys \in Nat /\ MaxBusy \in Nat
    /\ FailAt \subseteq Labels \ {"idle"}

Nonces == 0 .. MaxNonce
Keys == 0 .. MaxKeys

(***************************************************************************)
(* A DeviceSession: its DevAddr, the session keys (a number stands for the *)
(* three of them), IsDisabled, RejoinCount0 and the pending session.       *)
(***************************************************************************)
NewSession(a, k, dis) ==
    [addr |-> a, key |-> k, disabled |-> dis, rj |-> 0, pending |-> NoSession]

VARIABLES
    disabled,     \* device.is_disabled in PostgreSQL
    activations,  \* how many device_activation rows each DevNonce has
    lock,         \* the process whose transaction has the lock of the device row
    session,      \* the value of the device-session key in Redis
    index,        \* the DevAddr values whose Redis set has the DevEUI
    at,           \* where each process is in its handler
    req,          \* the frame or the API request each process handles
    row,          \* is_disabled as the process has it in its Device value
    ds,           \* the DeviceSession value of the process
    lastKey,      \* the keys the join-server has handed out
    device,       \* the session the device uses
    waiting,      \* the request the device awaits the join-accept of
    sent,         \* the last DevNonce the device used
    air,          \* the last frame of the device, which a handler may start on
    accepts,      \* the join-accepts handed to a gateway
    asked         \* IsDisabled of the last UpdateDevice that succeeded (history)

stores == <<disabled, activations, lock, session, index>>
handlers == <<at, req, row, ds>>
outside == <<device, waiting, sent, air, accepts, asked>>
vars == <<stores, handlers, lastKey, outside>>

Init ==
    /\ disabled = FALSE
    /\ activations = [n \in Nonces |-> 0]
    /\ lock = None
    /\ session = NoSession
    /\ index = {}
    /\ at = [p \in Procs |-> "idle"]
    /\ req = [p \in Procs |-> None]
    /\ row = [p \in Procs |-> FALSE]
    /\ ds = [p \in Procs |-> NoSession]
    /\ lastKey = 0
    /\ device = NoSession
    /\ waiting = None
    /\ sent = 0
    /\ air = None
    /\ accepts = {}
    /\ asked = FALSE

-----------------------------------------------------------------------------
(***************************************************************************)
(* The device.  It drops its session when it starts to join, and keeps it  *)
(* while it rejoins.  Only the join-accept of its last request can reach   *)
(* it (receive windows); any frame and any join-accept can be lost, and a  *)
(* frame can reach the server more than once.                              *)
(***************************************************************************)
DeviceJoins ==
    /\ "join" \in Ops /\ sent < MaxNonce
    /\ sent' = sent + 1
    /\ air' = [t |-> "join", nonce |-> sent + 1]
    /\ waiting' = air'
    /\ device' = NoSession
    /\ UNCHANGED <<stores, handlers, lastKey, accepts, asked>>

DeviceRejoins(type) ==
    /\ "rejoin" \in Ops /\ device # NoSession
    /\ device.key # 0        \* not personalised: the device-profile supports join
    /\ device.rj < RJMod
    /\ air' = [t |-> "rejoin", type |-> type, rj |-> device.rj, key |-> device.key]
    /\ waiting' = air'
    /\ device' = [device EXCEPT !.rj = @ + 1]
    /\ UNCHANGED <<stores, handlers, lastKey, sent, accepts, asked>>

DeviceSendsData ==
    /\ "data" \in Ops /\ device # NoSession
    /\ air' = [t |-> "data", addr |-> device.addr, key |-> device.key]
    /\ waiting' = None
    /\ UNCHANGED <<stores, handlers, lastKey, device, sent, accepts, asked>>

DeviceAccepted ==
    /\ \E m \in accepts :
         /\ m.for = waiting
         /\ device' = [addr |-> m.addr, key |-> m.key, rj |-> 0]
    /\ waiting' = None
    /\ UNCHANGED <<stores, handlers, lastKey, sent, air, accepts, asked>>

-----------------------------------------------------------------------------
(***************************************************************************)
(* Handlers.                                                               *)
(***************************************************************************)
Goto(p, l) == at' = [at EXCEPT ![p] = l]

Busy == {p \in Procs : at[p] # "idle"}
MayStart(p) == at[p] = "idle" /\ Cardinality(Busy) < MaxBusy

\* a transaction ends: the row lock is given back
Unlock(p) == lock' = IF lock = p THEN None ELSE lock

Finish(p) ==
    /\ Goto(p, "idle")
    /\ req' = [req EXCEPT ![p] = None]
    /\ row' = [row EXCEPT ![p] = FALSE]
    /\ ds' = [ds EXCEPT ![p] = NoSession]
    /\ Unlock(p)

\* ErrAbort or an error with nothing to undo in the stores
Return(p) ==
    /\ Finish(p)
    /\ UNCHANGED <<disabled, activations, session, index, lastKey, outside>>

\* the de-duplicated frame is handed to its handler
HandleFrame(p) ==
    /\ MayStart(p) /\ air # None
    /\ req' = [req EXCEPT ![p] = air]
    /\ Goto(p, IF air.t = "data" THEN "smembers" ELSE "getDevice")
    /\ UNCHANGED <<stores, row, ds, lastKey, outside>>

HandleAPI(p) ==
    /\ MayStart(p)
    /\ \/ "update" \in Ops
          /\ \E d \in BOOLEAN : req' = [req EXCEPT ![p] = [t |-> "update", disabled |-> d]]
          /\ Goto(p, "updateDevice")
       \/ "activate" \in Ops
          /\ \E a \in Addrs : req' = [req EXCEPT ![p] = [t |-> "activate", addr |-> a]]
          /\ Goto(p, "getDevice")
    /\ UNCHANGED <<stores, row, ds, lastKey, outside>>

\* A step fails, or the process dies: an open transaction is rolled back, what
\* was written to Redis and what was sent stays.
Fail(p) == at[p] \in FailAt /\ Return(p)

-----------------------------------------------------------------------------
(***************************************************************************)
(* OTAA join: one transaction, with the device row locked from its first   *)
(* statement.                                                              *)
(***************************************************************************)

\* Mutant: the device is read without "for update".
JoinGetDeviceUnlocked(p) ==
    /\ at[p] = "getDevice" /\ req[p].t = "join"
    /\ IF disabled
       THEN Return(p)
       ELSE /\ row' = [row EXCEPT ![p] = disabled]
            /\ Goto(p, "validateNonce")
            /\ UNCHANGED <<stores, req, ds, lastKey, outside>>

\* getDeviceOrTryRoaming: select ... for update, and abortOnDeviceIsDisabled
JoinGetDevice(p) ==
    /\ at[p] = "getDevice" /\ req[p].t = "join"
    /\ lock = None
    /\ IF disabled
       THEN Return(p)
       ELSE /\ lock' = p
            /\ row' = [row EXCEPT ![p] = disabled]
            /\ Goto(p, "validateNonce")
            /\ UNCHANGED <<disabled, activations, session, index, req, ds, lastKey, outside>>

\* Mutant: the error of ValidateDevNonce is reported and the join goes on.
ValidateDevNonceGoesOn(p) ==
    /\ at[p] = "validateNonce"
    /\ Goto(p, "joinServer")
    /\ UNCHANGED <<stores, req, row, ds, lastKey, outside>>

ValidateDevNonce(p) ==
    /\ at[p] = "validateNonce"
    /\ IF activations[req[p].nonce] # 0
       THEN Return(p)
       ELSE /\ Goto(p, "joinServer")
            /\ UNCHANGED <<stores, req, row, ds, lastKey, outside>>

\* getRandomDevAddr, getJoinAcceptFromAS and the new session value
JoinServerAnswers(p) ==
    /\ at[p] = "joinServer" /\ req[p].t = "join"
    /\ lastKey < MaxKeys
    /\ lastKey' = lastKey + 1
    /\ \E a \in Addrs : ds' = [ds EXCEPT ![p] = NewSession(a, lastKey', FALSE)]
    /\ Goto(p, "sadd")
    /\ UNCHANGED <<stores, req, row, outside>>

\* createDeviceActivation and setDeviceMode become visible; the row is written
\* as it was read
JoinCommits(p) ==
    /\ at[p] = "commit" /\ req[p].t = "join"
    /\ activations' = [activations EXCEPT ![req[p].nonce] = @ + 1]
    /\ disabled' = row[p]
    /\ Finish(p)
    /\ UNCHANGED <<session, index, lastKey, outside>>

-----------------------------------------------------------------------------
(***************************************************************************)
(* Rejoin-requests of type 0 and 2: no transaction and no lock.            *)
(***************************************************************************)

\* getDeviceAndProfiles and abortOnDeviceIsDisabled
RejoinGetDevice(p) ==
    /\ at[p] = "getDevice" /\ req[p].t = "rejoin"
    /\ IF disabled
       THEN Return(p)
       ELSE /\ Goto(p, "getSession")
            /\ UNCHANGED <<stores, req, row, ds, lastKey, outside>>

\* Mutant: the count is wider than the 16 bits of RejoinCount0.
NextRejoinCountWide(rj) == rj + 1

\* validateRejoinCounter0: the count the session goes on with
NextRejoinCount(rj) == (rj + 1) % RJMod

\* validateRejoinCounter0 and validateMIC
RejoinValid(s, m) ==
    /\ m.rj >= s.rj
    /\ NextRejoinCount(m.rj) # 0
    /\ m.key = s.key

RejoinGetSession(p) ==
    /\ at[p] = "getSession" /\ req[p].t = "rejoin"
    /\ IF session = NoSession
       THEN Return(p)
       ELSE IF ~ RejoinValid(session, req[p])
       THEN Return(p)
       ELSE /\ ds' = [ds EXCEPT ![p] = [session EXCEPT !.rj = NextRejoinCount(req[p].rj)]]
            /\ Goto(p, "joinServer")
            /\ UNCHANGED <<stores, req, row, lastKey, outside>>

\* setRejoin0PendingDeviceSession, setRejoin2PendingDeviceSession
PendingSession(s, type, a, k) ==
    IF type = 0 THEN NewSession(a, k, FALSE)
                ELSE [s EXCEPT !.addr = a, !.key = k, !.rj = 0]

RejoinServerAnswers(p) ==
    /\ at[p] = "joinServer" /\ req[p].t = "rejoin"
    /\ lastKey < MaxKeys
    /\ lastKey' = lastKey + 1
    /\ \E a \in Addrs :
         ds' = [ds EXCEPT ![p].pending = PendingSession(ds[p], req[p].type, a, lastKey')]
    /\ Goto(p, "sadd")
    /\ UNCHANGED <<stores, req, row, outside>>

-----------------------------------------------------------------------------
(***************************************************************************)
(* Uplink data: the session of a frame is searched by DevAddr.             *)
(***************************************************************************)

\* GetDevEUIsForDevAddr
SMembers(p) ==
    /\ at[p] = "smembers"
    /\ IF req[p].addr \in index
       THEN /\ Goto(p, "get")
            /\ UNCHANGED <<stores, req, row, ds, lastKey, outside>>
       ELSE Return(p)

\* the sessions of GetDeviceSessionsForDevAddr whose keys verify the MIC
Matching(s, a, k) ==
    {x \in ({s} \cup IF s = NoSession THEN {} ELSE {s.pending}) \ {NoSession} :
        x.addr = a /\ x.key = k}

\* GetDeviceSession; then GetDeviceSessionForPHYPayload, abortOnDeviceIsDisabled
UplinkGet(p) ==
    /\ at[p] = "get"
    /\ IF session = NoSession
       THEN /\ Goto(p, "srem")
            /\ UNCHANGED <<stores, req, row, ds, lastKey, outside>>
       ELSE LET found == Matching(session, req[p].addr, req[p].key)
            IN  IF \A s \in found : s.disabled
                THEN Return(p)
                ELSE /\ \E s \in found : ~ s.disabled /\ ds' = [ds EXCEPT ![p] = s]
                     /\ Goto(p, "sadd")
                     /\ UNCHANGED <<stores, req, row, lastKey, outside>>

\* a DevEUI without a session leaves the set of the DevAddr
SRem(p) ==
    /\ at[p] = "srem"
    /\ index' = index \ {req[p].addr}
    /\ Finish(p)
    /\ UNCHANGED <<disabled, activations, session, lastKey, outside>>

-----------------------------------------------------------------------------
(***************************************************************************)
(* The device API.                                                         *)
(***************************************************************************)

\* UpdateDevice: the update statement takes the row lock
UpdateDevice(p) ==
    /\ at[p] = "updateDevice" /\ req[p].t = "update"
    /\ lock = None
    /\ lock' = p
    /\ row' = [row EXCEPT ![p] = req[p].disabled]
    /\ Goto(p, "getSession")
    /\ UNCHANGED <<disabled, activations, session, index, req, ds, lastKey, outside>>

\* if there is a device-session, its IsDisabled is set
UpdateGetSession(p) ==
    /\ at[p] = "getSession" /\ req[p].t = "update"
    /\ IF session = NoSession
       THEN /\ Goto(p, "commit")
            /\ UNCHANGED ds
       ELSE /\ ds' = [ds EXCEPT ![p] = [session EXCEPT !.disabled = req[p].disabled]]
            /\ Goto(p, "sadd")
    /\ UNCHANGED <<stores, req, row, lastKey, outside>>

UpdateCommits(p) ==
    /\ at[p] = "commit" /\ req[p].t = "update"
    /\ disabled' = row[p]
    /\ asked' = row[p]
    /\ Finish(p)
    /\ UNCHANGED <<activations, session, index, lastKey, device, waiting, sent, air, accepts>>

\* ActivateDevice reads the device without a lock ...
ActivateGetDevice(p) ==
    /\ at[p] = "getDevice" /\ req[p].t = "activate"
    /\ row' = [row EXCEPT ![p] = disabled]
    /\ ds' = [ds EXCEPT ![p] = NewSession(req[p].addr, 0, disabled)]
    /\ Goto(p, "updateDevice")
    /\ UNCHANGED <<stores, req, lastKey, outside>>

\* ... and writes the whole row back, in a statement of its own
ActivateUpdateDevice(p) ==
    /\ at[p] = "updateDevice" /\ req[p].t = "activate"
    /\ lock = None
    /\ disabled' = row[p]
    /\ Goto(p, "sadd")
    /\ UNCHANGED <<activations, lock, session, index, req, row, ds, lastKey, outside>>

\* DeleteDeviceSession
DeactivateDevice ==
    /\ "deactivate" \in Ops /\ Cardinality(Busy) < MaxBusy
    /\ session # NoSession
    /\ session' = NoSession
    /\ UNCHANGED <<disabled, activations, lock, index, handlers, lastKey, outside>>

-----------------------------------------------------------------------------
(***************************************************************************)
(* SaveDeviceSession: the DevAddr set, the DevAddr set of the pending      *)
(* session, then the session, in three commands.                           *)
(***************************************************************************)
\* Mutant: the DevAddr set of the pending session is left out.
SAddMainOnly(p) ==
    /\ at[p] = "sadd"
    /\ index' = index \cup {ds[p].addr}
    /\ Goto(p, "set")
    /\ UNCHANGED <<disabled, activations, lock, session, req, row, ds, lastKey, outside>>

SAdd(p) ==
    /\ at[p] = "sadd"
    /\ index' = index \cup {ds[p].addr}
    /\ Goto(p, IF ds[p].pending = NoSession THEN "set" ELSE "saddPending")
    /\ UNCHANGED <<disabled, activations, lock, session, req, row, ds, lastKey, outside>>

SAddPending(p) ==
    /\ at[p] = "saddPending"
    /\ index' = index \cup {ds[p].pending.addr}
    /\ Goto(p, "set")
    /\ UNCHANGED <<disabled, activations, lock, session, req, row, ds, lastKey, outside>>

\* The handler goes on once its session is saved.  An uplink handler may answer
\* the device, and its answer saves the session a second time.
SaveDone(p) ==
    \/ /\ req[p].t \in {"join", "rejoin", "update"}
       /\ Goto(p, IF req[p].t = "update" THEN "commit" ELSE "send")
       /\ UNCHANGED <<lock, req, row, ds>>
    \/ /\ req[p].t = "data"
       /\ req' = [req EXCEPT ![p].t = "response"]
       /\ Goto(p, "sadd")
       /\ UNCHANGED <<lock, row, ds>>
    \/ /\ req[p].t \in {"data", "response", "activate"}
       /\ Finish(p)

Set(p) ==
    /\ at[p] = "set"
    /\ session' = ds[p]
    /\ SaveDone(p)
    /\ IF req[p].t = "activate"   \* the device is personalised with this session
       THEN /\ device' = [addr |-> ds[p].addr, key |-> ds[p].key, rj |-> 0]
            /\ waiting' = None /\ air' = None
       ELSE UNCHANGED <<device, waiting, air>>
    /\ UNCHANGED <<disabled, activations, index, lastKey, sent, accepts, asked>>

\* sendJoinAcceptDownlink of a join, before its commit, and of a rejoin
SendJoinAccept(p) ==
    /\ at[p] = "send"
    /\ LET new == IF req[p].t = "join" THEN ds[p] ELSE ds[p].pending
       IN  accepts' = accepts \cup {[for |-> req[p], addr |-> new.addr, key |-> new.key]}
    /\ IF req[p].t = "join"
       THEN Goto(p, "commit") /\ UNCHANGED <<lock, req, row, ds>>
       ELSE Finish(p)
    /\ UNCHANGED <<disabled, activations, session, index, lastKey, device, waiting, sent, air, asked>>

-----------------------------------------------------------------------------
DeviceStep == DeviceJoins \/ DeviceRejoins(0) \/ DeviceRejoins(2) \/ DeviceSendsData \/ DeviceAccepted

Step(p) ==
    \/ HandleFrame(p) \/ HandleAPI(p) \/ Fail(p)
    \/ JoinGetDevice(p) \/ ValidateDevNonce(p) \/ JoinServerAnswers(p) \/ JoinCommits(p)
    \/ RejoinGetDevice(p) \/ RejoinGetSession(p) \/ RejoinServerAnswers(p)
    \/ SMembers(p) \/ UplinkGet(p) \/ SRem(p)
    \/ UpdateDevice(p) \/ UpdateGetSession(p) \/ UpdateCommits(p)
    \/ ActivateGetDevice(p) \/ ActivateUpdateDevice(p)
    \/ SAdd(p) \/ SAddPending(p) \/ Set(p) \/ SendJoinAccept(p)

Next == DeviceStep \/ DeactivateDevice \/ \E p \in Procs : Step(p)

Spec == Init /\ [][Next]_vars
-----------------------------------------------------------------------------
(***************************************************************************)
(* Properties                                                              *)
(***************************************************************************)
\* Session values with at most d sessions nested in them: the pending session
\* of a type 2 rejoin is a copy that brings its own pending session along.
SessionsOf[d \in 0 .. MaxKeys] ==
    [addr : Addrs, key : Keys, disabled : BOOLEAN, rj : 0 .. RJMod - 1,
     pending : {NoSession} \cup IF d = 0 THEN {} ELSE SessionsOf[d - 1]]

Requests ==
    [t : {"join"}, nonce : Nonces]
    \cup [t : {"rejoin"}, type : {0, 2}, rj : 0 .. RJMod, key : Keys]
    \cup [t : {"data", "response"}, addr : Addrs, key : Keys]
    \cup [t : {"update"}, disabled : BOOLEAN]
    \cup [t : {"activate"}, addr : Addrs]

\* What stands for nothing is no request and no session.
ASSUME NothingApart == None \notin Requests /\ NoSession \notin SessionsOf[MaxKeys]

\* The variables have their types; a nested pending session costs a join-server
\* answer, so nesting is bounded by their number.
TypeOK ==
    /\ disabled \in BOOLEAN
    /\ activations \in [Nonces -> Nat]
    /\ lock \in Procs \cup {None}
    /\ session \in SessionsOf[MaxKeys] \cup {NoSession}
    /\ index \in SUBSET Addrs
    /\ at \in [Procs -> Labels]
    /\ req \in [Procs -> Requests \cup {None}]
    /\ row \in [Procs -> BOOLEAN]
    /\ ds \in [Procs -> SessionsOf[MaxKeys] \cup {NoSession}]
    /\ lastKey \in Keys
    /\ device \in [addr : Addrs, key : Keys, rj : 0 .. RJMod] \cup {NoSession}
    /\ waiting \in Requests \cup {None}
    /\ sent \in Nonces
    /\ air \in Requests \cup {None}
    /\ asked \in BOOLEAN
    /\ accepts \subseteq [for : Requests, addr : Addrs, key : Keys]

Quiet == Busy = {}

\* A DevNonce activates the device at most once, however often its join-request
\* is handled and whatever fails: ValidateDevNonce looks for a committed
\* activation, so this rests on the row lock that Handle takes first and keeps
\* to the end of its transaction.
NonceOnce == \A n \in Nonces : activations[n] <= 1

Creating(p) ==
    /\ at[p] \in {"joinServer", "sadd", "saddPending", "set", "send", "commit"}
    /\ req[p].t = "join"

\* At most one handler creates a session by a join at a time, and none for
\* a DevNonce that is activated: Redis is written inside the transaction of
\* the join, so the lock that protects the activations protects the session.
OneJoinAtATime ==
    \A p, q \in Procs :
        Creating(p) /\ Creating(q) => p = q /\ activations[req[p].nonce] = 0

\* What GetDeviceSessionForPHYPayload finds for a frame of the device
Found == IF device # NoSession /\ device.addr \in index
         THEN Matching(session, device.addr, device.key) ELSE {}

\* Between handlers, the server finds the session the device uses unless the
\* API has deleted it: a device that rejoins is heard on its old session until
\* it uses the new one, and on the new one from its first frame, whichever
\* frames and join-accepts are lost or repeated and wherever a handler fails.
DeviceHeard == Quiet /\ device # NoSession /\ session # NoSession => Found # {}

\* GetDeviceSessionsForDevAddr "returns a slice of device-sessions using the
\* given DevAddr": between handlers, the set of a DevAddr has the DevEUI of
\* every session that uses it.
IndexCovers ==
    Quiet /\ session # NoSession =>
        /\ session.addr \in index
        /\ session.pending # NoSession => session.pending.addr \in index

\* Once an UpdateDevice that disables the device has returned, and no handler is
\* at work, no frame of the device is accepted: abortOnDeviceIsDisabled of the
\* uplink handler looks at the session alone, which UpdateDevice and the join
\* keep in step with the device row by writing Redis with that row locked.
DisabledIgnored == Quiet /\ asked => \A s \in Found : s.disabled
=============================================================================
