--------------------------- MODULE RegistryProofs ---------------------------
(***************************************************************************)
(* Proofs about Registry, for any number of rows, clients and handlers.    *)
(*                                                                         *)
(* A copy that was read while no call was in progress agrees with its row, *)
(* or somebody is about to flush it: the calls that write a row have       *)
(* flushed the copies that depend on it, and what was read since is        *)
(* excused (FreshInv).  A row that is held grows stale by Hold ticks at    *)
(* most, a copy of it while its time to live runs down (AgeOK).  A version *)
(* is used for one state of a profile (VersionInv).                        *)
(***************************************************************************)
EXTENDS Registry, TLAPS

\* What a row can hold, by its key
RowSet(k) ==
    CASE k[1] = "sp" -> ServiceProfileRow
      [] k[1] = "dp" -> DeviceProfileRow
      [] k[1] = "gwm" -> GatewayMeta

\* A gateway-profile between the two statements that read it
Selected == [id : GatewayProfiles, row : GatewayProfileRow, routingProfileID : RoutingProfiles]
Versions == GatewayProfiles \X Nat
Contents == ServiceProfileRow \cup DeviceProfileRow \cup GatewayMeta \cup Selected \cup {None}
Rows == ServiceProfileRow \cup DeviceProfileRow \cup RoutingProfileRow \cup GatewayRow \cup {None}
RowIds == ServiceProfiles \cup DeviceProfiles \cup RoutingProfiles \cup Gateways

HandlerRecord ==
    [op : {"rx", "stats"}, at : {"flush", "get", "set", "config", "extra", "forward"},
     key : Keys, val : Contents, version : Versions \cup {None}, stale : Nat, held : Nat,
     excused : BOOLEAN]

\* A handler and the row it has read, which is stale for at most the time it is held
HandlerOK(x) ==
    \/ x = Idle
    \/ /\ x \in HandlerRecord
       /\ x.op = "stats" => x.key[1] = "gwm"
       /\ x.op = "rx" => x.at = "set"
       /\ x.at = "set" => x.val \in RowSet(x.key) /\ x.stale <= x.held /\ x.held <= Hold
       /\ x.at = "config" => x.val \in GatewayMeta
       /\ x.at = "extra" => x.val \in Selected

GatewayCalls == {"updateGateway", "generateCertificate"}
ServiceProfileCalls == {"updateServiceProfile", "deleteServiceProfile"}
DeviceProfileCalls == {"updateDeviceProfile", "deleteDeviceProfile"}
CallRecord ==
    [op : GatewayCalls \cup ServiceProfileCalls \cup DeviceProfileCalls
              \cup {"updateRoutingProfile", "deleteGateway"},
     id : RowIds, row : Rows, todo : SUBSET Gateways]

\* An API call in progress
CallOK(x) ==
    \/ x = Idle
    \/ /\ x \in CallRecord
       /\ x.op \in ServiceProfileCalls => x.id \in ServiceProfiles
       /\ x.op = "updateServiceProfile" => x.row \in ServiceProfileRow
       /\ x.op \in DeviceProfileCalls => x.id \in DeviceProfiles
       /\ x.op = "updateDeviceProfile" => x.row \in DeviceProfileRow
       /\ x.op = "updateRoutingProfile" => x.id \in RoutingProfiles /\ x.row \in RoutingProfileRow
       /\ x.op \in GatewayCalls => x.id \in Gateways /\ x.row \in GatewayRow
       /\ x.op = "deleteGateway" => x.id \in Gateways

\* A copy: as it ages, it has less to live
CopyOK(k, x) ==
    x # None =>
        /\ x \in [val : Contents, ttl : 1 .. TTL, stale : Nat, excused : BOOLEAN]
        /\ x.val \in RowSet(k)
        /\ x.stale + x.ttl <= TTL + Hold

RowsTyped ==
    /\ serviceProfile \in [ServiceProfiles -> ServiceProfileRow \cup {None}]
    /\ deviceProfile \in [DeviceProfiles -> DeviceProfileRow \cup {None}]
    /\ routingProfile \in [RoutingProfiles -> RoutingProfileRow \cup {None}]
    /\ gatewayProfile \in [GatewayProfiles -> GatewayProfileRow \cup {None}]
    /\ gateway \in [Gateways -> GatewayRow \cup {None}]

ProgressTyped ==
    /\ lock \in [Gateways -> Clients \cup {None}]
    /\ api = [c \in Clients |-> api[c]] /\ \A c \in Clients : CallOK(api[c])
    /\ hnd = [h \in Handlers |-> hnd[h]] /\ \A h \in Handlers : HandlerOK(hnd[h])
    /\ used \subseteq GatewayProfiles /\ clash \in BOOLEAN
    /\ second \in Nat
    /\ changes \in 0 .. MaxChanges /\ faults \in 0 .. MaxFaults

CacheTyped ==
    /\ cache = [k \in Keys |-> cache[k]]
    /\ \A k \in Keys : CopyOK(k, cache[k])

\* Rows refer to rows that exist, also those that a transaction is about to
\* commit.
RefInv ==
    /\ \A g \in Gateways : gateway[g] # None => ForeignKeys(gateway[g])
    /\ \A g \in Gateways : lock[g] # None =>
           /\ api[lock[g]].op \in GatewayCalls
           /\ api[lock[g]].id = g
           /\ ForeignKeys(api[lock[g]].row)

\* A version names one state of a profile, in the database, in the hands of a
\* handler and in a gateway, unless two states were written in a second.
Written(p, t) == t <= second /\ (t = second => p \in used)
ConfOK(x) ==
    x # None =>
        /\ x \in [version : Versions, channels : Values, extraChannels : Values \cup {None}]
        /\ Written(x.version[1], x.version[2])
        /\ LET row == gatewayProfile[x.version[1]]
           IN  ~clash /\ row # None /\ row.updatedAt = x.version[2] =>
                   x.channels = row.channels /\ x.extraChannels = row.extraChannels
VersionInv ==
    /\ \A p \in GatewayProfiles :
           gatewayProfile[p] # None => Written(p, gatewayProfile[p].updatedAt)
    /\ \A h \in Handlers : StatsAt(h, "extra") =>
           LET sel == hnd[h].val
               row == gatewayProfile[sel.id]
           IN  /\ Written(sel.id, sel.row.updatedAt)
               /\ ~clash /\ row # None /\ row.updatedAt = sel.row.updatedAt => row = sel.row
    /\ conf = [g \in Gateways |-> conf[g]] /\ \A g \in Gateways : ConfOK(conf[g])

\* There is no copy that could be blamed; a flush of the copy is to come.
Clean(k) == cache[k] = None \/ cache[k].excused
Pending(k) ==
    \/ \E c \in Clients : api[c].op = "deleteGateway" /\ k = GatewayMetaKey(api[c].id)
    \/ \E h \in Handlers : StatsAt(h, "flush") /\ k = hnd[h].key

\* A copy is the row, or a flush of it is to come.
CopyAgrees(k) == Clean(k) \/ cache[k].val = View(k) \/ Pending(k)

\* A call that will write a profile has flushed the copies that depend on it,
\* or will.
CallCovered(c) ==
    /\ api[c].op \in ServiceProfileCalls =>
           /\ Clean(ServiceProfileKey(api[c].id))
           /\ \A g \in Gateways : Refers(gateway[g], "serviceProfileID", api[c].id) =>
                  g \in api[c].todo \/ Clean(GatewayMetaKey(g)) \/ Pending(GatewayMetaKey(g))
    /\ api[c].op \in DeviceProfileCalls => Clean(DeviceProfileKey(api[c].id))

\* A row that is about to be cached
ReaderFresh(h) ==
    hnd[h] # Idle /\ hnd[h].at = "set" /\ ~hnd[h].excused =>
        ~Writing /\ hnd[h].val = View(hnd[h].key)

FreshInv ==
    /\ \A k \in Keys : CopyAgrees(k)
    /\ \A c \in Clients : CallCovered(c)
    /\ \A g \in Gateways : lock[g] # None => Clean(GatewayMetaKey(g))
    /\ \A h \in Handlers : ReaderFresh(h)

\* The inductive invariant
IInv == RowsTyped /\ ProgressTyped /\ CacheTyped /\ RefInv /\ VersionInv /\ FreshInv

-----------------------------------------------------------------------------
(* Rows, keys and views *)

\* The assumptions on the constants that are used most
LEMMA Constants ==
    /\ None \notin ServiceProfiles /\ None \notin GatewayProfiles /\ None \notin Clients
    /\ None \notin ServiceProfileRow /\ None \notin DeviceProfileRow
    /\ None \notin RoutingProfileRow /\ None \notin GatewayProfileRow
    /\ None \notin GatewayRow /\ None \notin GatewayMeta
    /\ TTL \in Nat \ {0} /\ Hold \in Nat /\ MaxChanges \in Nat /\ MaxFaults \in Nat
    /\ Initial \in Values /\ Locations \subseteq Values \cup {None}
BY RegistryAssumption, NoneAssumption

\* Keys of different kinds, or of different rows, are different.
LEMMA KeysOK ==
    /\ \A s \in ServiceProfiles : ServiceProfileKey(s) \in Keys
    /\ \A d \in DeviceProfiles : DeviceProfileKey(d) \in Keys
    /\ \A g \in Gateways : GatewayMetaKey(g) \in Keys
    /\ \A k \in Keys :
           \/ k[1] = "sp" /\ k[2] \in ServiceProfiles /\ k = ServiceProfileKey(k[2])
           \/ k[1] = "dp" /\ k[2] \in DeviceProfiles /\ k = DeviceProfileKey(k[2])
           \/ k[1] = "gwm" /\ k[2] \in Gateways /\ k = GatewayMetaKey(k[2])
BY DEF Keys, ServiceProfileKey, DeviceProfileKey, GatewayMetaKey

\* The components of the keys
LEMMA KeyParts ==
    ASSUME NEW x
    PROVE  /\ ServiceProfileKey(x)[1] = "sp" /\ ServiceProfileKey(x)[2] = x
           /\ DeviceProfileKey(x)[1] = "dp" /\ DeviceProfileKey(x)[2] = x
           /\ GatewayMetaKey(x)[1] = "gwm" /\ GatewayMetaKey(x)[2] = x
BY DEF ServiceProfileKey, DeviceProfileKey, GatewayMetaKey

\* The views and the rows of the keys
LEMMA Views ==
    ASSUME NEW k
    PROVE  /\ k[1] = "sp" => View(k) = serviceProfile[k[2]] /\ RowSet(k) = ServiceProfileRow
           /\ k[1] = "dp" => View(k) = deviceProfile[k[2]] /\ RowSet(k) = DeviceProfileRow
           /\ k[1] = "gwm" => View(k) = GetGatewayMeta(k[2]) /\ RowSet(k) = GatewayMeta
BY DEF View, RowSet, SelectServiceProfile, SelectDeviceProfile

\* The views after a step
LEMMA ViewsPrimed ==
    ASSUME NEW k
    PROVE  /\ k[1] = "sp" => View(k)' = serviceProfile'[k[2]]
           /\ k[1] = "dp" => View(k)' = deviceProfile'[k[2]]
           /\ k[1] = "gwm" => View(k)' = GetGatewayMeta(k[2])'
BY DEF View, SelectServiceProfile, SelectDeviceProfile

\* A reader of a key finds its copy.
LEMMA GetOK ==
    ASSUME NEW k \in Keys
    PROVE  Get(k) = cache[k]
BY KeysOK DEF Get, GetServiceProfileCache, GetDeviceProfileCache, GetGatewayMetaCache

\* The meta-data of a gateway that exists
LEMMA MetaOK ==
    ASSUME IInv, NEW g \in Gateways, gateway[g] # None
    PROVE  GetGatewayMeta(g) \in GatewayMeta
<1>1. gateway[g] \in GatewayRow /\ ForeignKeys(gateway[g])
  BY DEF IInv, RowsTyped, RefInv
<1>2. gateway[g].serviceProfileID # None =>
          serviceProfile[gateway[g].serviceProfileID].gwsPrivate \in BOOLEAN
  BY <1>1 DEF IInv, RowsTyped, ForeignKeys, GatewayRow, ServiceProfileRow
<1> QED
  BY <1>1, <1>2 DEF GetGatewayMeta, GatewayMeta, GatewayRow

\* What a reader finds in the database is a row of the key.
LEMMA ViewOK ==
    ASSUME IInv, NEW k \in Keys, View(k) # None
    PROVE  View(k) \in RowSet(k) /\ View(k) \in Contents
<1>1. CASE k[1] = "sp" /\ k[2] \in ServiceProfiles
  BY <1>1, Views DEF IInv, RowsTyped, Contents
<1>2. CASE k[1] = "dp" /\ k[2] \in DeviceProfiles
  BY <1>2, Views DEF IInv, RowsTyped, Contents
<1>3. CASE k[1] = "gwm" /\ k[2] \in Gateways
  <2>1. View(k) = GetGatewayMeta(k[2]) /\ RowSet(k) = GatewayMeta
    BY <1>3, Views
  <2>2. gateway[k[2]] # None
    BY <2>1 DEF GetGatewayMeta
  <2> QED
    BY <1>3, <2>1, <2>2, MetaOK DEF Contents
<1> QED
  BY <1>1, <1>2, <1>3, KeysOK

\* A copy is not None: RowSet has no None.
LEMMA RowSetOK ==
    ASSUME NEW k \in Keys
    PROVE  None \notin RowSet(k) /\ RowSet(k) \subseteq Contents
BY KeysOK, Views, Constants DEF Contents

\* A new row for a gateway
LEMMA NewGatewayOK ==
    ASSUME NEW request \in Requests
    PROVE  NewGateway(request) \in GatewayRow
BY RegistryAssumption DEF NewGateway, GatewayRow

-----------------------------------------------------------------------------
(* Initial states *)

\* The initial states satisfy the invariant.
LEMMA InitIInv == Init => IInv
<1> SUFFICES ASSUME Init PROVE IInv
  OBVIOUS
<1> USE DEF Init
<1>1. RowsTyped
  BY Constants, NewGatewayOK DEF RowsTyped, ServiceProfileRow, DeviceProfileRow,
     RoutingProfileRow, GatewayProfileRow
<1>2. ProgressTyped
  <2>1. /\ api = [c \in Clients |-> api[c]] /\ hnd = [h \in Handlers |-> hnd[h]]
        /\ \A c \in Clients : api[c] = Idle
        /\ \A h \in Handlers : hnd[h] = Idle
    OBVIOUS
  <2>2. (\A c \in Clients : CallOK(api[c])) /\ \A h \in Handlers : HandlerOK(hnd[h])
    BY <2>1 DEF CallOK, HandlerOK
  <2>3. changes \in 0 .. MaxChanges /\ faults \in 0 .. MaxFaults /\ second \in Nat
    BY Constants
  <2>4. lock \in [Gateways -> Clients \cup {None}] /\ used \subseteq GatewayProfiles /\ clash \in BOOLEAN
    OBVIOUS
  <2> QED
    BY <2>1, <2>2, <2>3, <2>4 DEF ProgressTyped
<1>3. CacheTyped
  BY DEF CacheTyped, CopyOK
<1>4. /\ \A s \in ServiceProfiles : serviceProfile[s] # None
      /\ \A r \in RoutingProfiles : routingProfile[r] # None
      /\ \A p \in GatewayProfiles : gatewayProfile[p] # None
  <2>1. /\ [gwsPrivate |-> FALSE] \in ServiceProfileRow /\ [tlsKey |-> FALSE] \in RoutingProfileRow
        /\ [channels |-> Initial, extraChannels |-> Initial, updatedAt |-> 0] \in GatewayProfileRow
    BY Constants DEF ServiceProfileRow, RoutingProfileRow, GatewayProfileRow
  <2> QED
    BY <2>1, Constants
<1>5. RefInv
  BY <1>1, <1>4 DEF RefInv, RowsTyped, ForeignKeys, GatewayRow
<1>6. VersionInv
  BY DEF VersionInv, Written, StatsAt, ConfOK
<1>7. FreshInv
  BY KeysOK DEF FreshInv, CopyAgrees, CallCovered, ReaderFresh, Clean, Idle,
     ServiceProfileCalls, DeviceProfileCalls
<1> QED
  BY <1>1, <1>2, <1>3, <1>5, <1>6, <1>7 DEF IInv

-----------------------------------------------------------------------------
(* Types of the rows *)

\* The statement that ends a call of op
UpdateServiceProfileEnds(c) ==
    /\ api[c].op = "updateServiceProfile" /\ api[c].todo = {}
    /\ UpdateServiceProfileRow(api[c].id, api[c].row)
    /\ UNCHANGED <<deviceProfile, routingProfile, gatewayProfile, gateway>>
DeleteServiceProfileEnds(c) ==
    /\ api[c].op = "deleteServiceProfile" /\ api[c].todo = {}
    /\ DeleteServiceProfileRow(api[c].id)
    /\ UNCHANGED <<deviceProfile, routingProfile, gatewayProfile>>
DeviceProfileEnds(c) ==
    /\ api[c].op \in DeviceProfileCalls
    /\ deviceProfile' = deviceProfile
           \/ (api[c].op = "updateDeviceProfile" /\ deviceProfile' = Put(deviceProfile, api[c].id, api[c].row))
           \/ deviceProfile' = Put(deviceProfile, api[c].id, None)
    /\ UNCHANGED <<serviceProfile, routingProfile, gatewayProfile, gateway>>
UpdateRoutingProfileEnds(c) ==
    /\ api[c].op = "updateRoutingProfile"
    /\ UpdateRoutingProfileRow(api[c].id, api[c].row)
    /\ UNCHANGED <<serviceProfile, deviceProfile, gatewayProfile, gateway>>

\* The second statement of an update or delete
UpdateEnds(c) ==
    /\ Done(c)
    /\ UNCHANGED <<cache, lock, hnd, conf, second, used, clash, changes, faults>>
    /\ \/ UpdateServiceProfileEnds(c) \/ DeleteServiceProfileEnds(c)
       \/ DeviceProfileEnds(c) \/ UpdateRoutingProfileEnds(c)

\* The calls of one statement
CreateProfile(c) == CreateServiceProfile(c) \/ CreateDeviceProfile(c) \/ CreateRoutingProfile(c)
WriteGatewayProfile(c) ==
    CreateGatewayProfile(c) \/ UpdateGatewayProfile(c) \/ DeleteGatewayProfile(c)

\* The first statement of a delete
DeleteGatewayBegins(c) ==
    /\ \E g \in Gateways :
             DeleteGatewayRow(g) /\ Begin(c, Call("deleteGateway", g, None, {}))
    /\ UNCHANGED <<serviceProfile, deviceProfile, routingProfile, gatewayProfile, cache,
                   lock, conf, second, ghosts, faults>>

\* The steps that change rows
LEMMA RowsChange ==
    ASSUME Next
    PROVE  \/ UNCHANGED rows
           \/ \E c \in Clients :
                 \/ CreateProfile(c) \/ WriteGatewayProfile(c) \/ DeleteRoutingProfile(c)
                 \/ CreateGateway(c) \/ UpdateEnds(c) \/ CommitGateway(c) \/ DeleteGatewayBegins(c)
           \/ \E h \in Handlers : HandleStats(h)
<1>1. ASSUME NEW h \in Handlers, Uplink(h) PROVE UNCHANGED rows
  BY <1>1 DEF Uplink, UpdateMetaDataInRXPacket, GetAndCacheDeviceProfile,
       GetAndCacheServiceProfile, GetAndCacheGatewayMeta, GetAndCache, CacheRow
<1>2. ASSUME NEW h \in Handlers, Stats(h) PROVE HandleStats(h) \/ UNCHANGED rows
  BY <1>2 DEF Stats, FlushGatewayState, GetStatsGatewayMeta, GetAndCacheGatewayMeta, GetAndCache,
       CacheRow, SelectGatewayProfile, HandleGatewayConfigurationUpdate, ForwardGatewayStats,
       StatsBreakOff
<1>3. ASSUME NEW c \in Clients, ServiceProfileAPI(c)
      PROVE  CreateProfile(c) \/ UpdateEnds(c) \/ UNCHANGED rows
  BY <1>3 DEF ServiceProfileAPI, UpdateServiceProfile, DeleteServiceProfile, FlushNextGatewayMeta,
       CreateProfile, UpdateEnds, UpdateServiceProfileEnds, DeleteServiceProfileEnds, ghosts
<1>4. ASSUME NEW c \in Clients, DeviceProfileAPI(c)
      PROVE  CreateProfile(c) \/ UpdateEnds(c) \/ UNCHANGED rows
  BY <1>4 DEF DeviceProfileAPI, UpdateDeviceProfile, DeleteDeviceProfile, DeviceProfileCalls,
       CreateProfile, UpdateEnds, DeviceProfileEnds, UpdateDeviceProfileRow, DeleteDeviceProfileRow, ghosts
<1>5. ASSUME NEW c \in Clients, RoutingProfileAPI(c)
      PROVE  CreateProfile(c) \/ UpdateEnds(c) \/ DeleteRoutingProfile(c) \/ UNCHANGED rows
  BY <1>5 DEF RoutingProfileAPI, UpdateRoutingProfile, CreateProfile, UpdateEnds,
       UpdateRoutingProfileEnds, ghosts
<1>6. ASSUME NEW c \in Clients, GatewayProfileAPI(c)
      PROVE  WriteGatewayProfile(c)
  BY <1>6 DEF GatewayProfileAPI, WriteGatewayProfile
<1>7. ASSUME NEW c \in Clients, GatewayAPI(c)
      PROVE  CreateGateway(c) \/ CommitGateway(c) \/ DeleteGatewayBegins(c) \/ UNCHANGED rows
  BY <1>7 DEF GatewayAPI, UpdateGateway, GenerateGatewayClientCertificate, DeleteGateway,
       DeleteGatewayBegins
<1>8. ASSUME NEW c \in Clients, BreakOff(c) PROVE UNCHANGED rows
  BY <1>8 DEF BreakOff
<1>9. CASE Tick
  BY <1>9 DEF Tick
<1> QED
  BY <1>1, <1>2, <1>3, <1>4, <1>5, <1>6, <1>7, <1>8, <1>9 DEF Next

\* The rows have their types.
LEMMA RowsTypedStep ==
    ASSUME IInv, Next
    PROVE  RowsTyped'
<1> USE DEF Put
<1>0. RowsTyped
  BY DEF IInv
<1>1. CASE UNCHANGED rows
  BY <1>0, <1>1 DEF rows, RowsTyped
<1>2. ASSUME NEW c \in Clients, CreateProfile(c) PROVE RowsTyped'
  BY <1>0, <1>2 DEF CreateProfile, CreateServiceProfile, CreateDeviceProfile, CreateRoutingProfile,
     InsertServiceProfile, InsertDeviceProfile, InsertRoutingProfile, RowsTyped
<1>3. ASSUME NEW c \in Clients, WriteGatewayProfile(c) PROVE RowsTyped'
  <2>1. second \in Nat
    BY DEF IInv, ProgressTyped
  <2>2. \A v \in Values : [channels |-> v, extraChannels |-> v, updatedAt |-> second] \in GatewayProfileRow
    BY <2>1 DEF GatewayProfileRow
  <2> QED
    BY <1>0, <1>3, <2>2 DEF WriteGatewayProfile, CreateGatewayProfile, UpdateGatewayProfile,
       DeleteGatewayProfile, InsertGatewayProfile, UpdateGatewayProfileRow,
       DeleteGatewayProfileRow, RowsTyped
<1>4. ASSUME NEW c \in Clients, DeleteRoutingProfile(c) PROVE RowsTyped'
  BY <1>0, <1>4 DEF DeleteRoutingProfile, DeleteRoutingProfileRow, Cascade, RowsTyped
<1>5. ASSUME NEW c \in Clients, CreateGateway(c) PROVE RowsTyped'
  BY <1>0, <1>5, NewGatewayOK DEF CreateGateway, InsertGateway, RowsTyped
<1>6. ASSUME NEW c \in Clients, UpdateEnds(c) PROVE RowsTyped'
  <2>1. CallOK(api[c])
    BY DEF IInv, ProgressTyped
  <2>2. CASE UpdateServiceProfileEnds(c)
    <3>1. api[c].id \in ServiceProfiles /\ api[c].row \in ServiceProfileRow
      BY <2>1, <2>2 DEF UpdateServiceProfileEnds, CallOK, Idle, ServiceProfileCalls
    <3> QED
      BY <1>0, <2>2, <3>1 DEF UpdateServiceProfileEnds, UpdateServiceProfileRow, RowsTyped
  <2>3. CASE DeleteServiceProfileEnds(c)
    BY <1>0, <2>3 DEF DeleteServiceProfileEnds, DeleteServiceProfileRow, Cascade, RowsTyped
  <2>4. CASE DeviceProfileEnds(c)
    <3>1. api[c].op = "updateDeviceProfile" => api[c].row \in DeviceProfileRow
      BY <2>1, <2>4 DEF DeviceProfileEnds, CallOK, Idle
    <3> QED
      BY <1>0, <2>4, <3>1 DEF DeviceProfileEnds, RowsTyped
  <2>5. CASE UpdateRoutingProfileEnds(c)
    <3>1. api[c].row \in RoutingProfileRow
      BY <2>1, <2>5 DEF UpdateRoutingProfileEnds, CallOK, Idle
    <3> QED
      BY <1>0, <2>5, <3>1 DEF UpdateRoutingProfileEnds, UpdateRoutingProfileRow, RowsTyped
  <2> QED
    BY <1>6, <2>2, <2>3, <2>4, <2>5 DEF UpdateEnds
<1>7. ASSUME NEW c \in Clients, CommitGateway(c) PROVE RowsTyped'
  <2>1. api[c].row \in GatewayRow
    BY <1>7 DEF IInv, ProgressTyped, CommitGateway, CallOK, Idle, GatewayCalls
  <2> QED
    BY <1>0, <1>7, <2>1 DEF CommitGateway, RowsTyped
<1>8. ASSUME NEW c \in Clients, DeleteGatewayBegins(c) PROVE RowsTyped'
  BY <1>0, <1>8 DEF DeleteGatewayBegins, DeleteGatewayRow, RowsTyped
<1>9. ASSUME NEW h \in Handlers, HandleStats(h) PROVE RowsTyped'
  <2>1. PICK g \in Gateways, location \in Locations :
            /\ gateway[g] # None
            /\ gateway' = [gateway EXCEPT
                     ![g].seen = TRUE,
                     ![g].location = IF location = None THEN @ ELSE location]
    BY <1>9 DEF HandleStats, UpdateGatewayState
  <2>2. gateway[g] \in GatewayRow /\ (location # None => location \in Values)
    BY <1>0, <2>1, Constants DEF RowsTyped
  <2>3. gateway' = [gateway EXCEPT ![g] = [gateway[g] EXCEPT !.seen = TRUE,
                        !.location = IF location = None THEN gateway[g].location ELSE location]]
    BY <1>0, <2>1, <2>2 DEF RowsTyped, GatewayRow
  <2>4. [gateway[g] EXCEPT !.seen = TRUE,
             !.location = IF location = None THEN gateway[g].location ELSE location] \in GatewayRow
    BY <2>2 DEF GatewayRow
  <2> QED
    BY <1>0, <1>9, <2>3, <2>4 DEF HandleStats, RowsTyped
<1> QED
  BY <1>1, <1>2, <1>3, <1>4, <1>5, <1>6, <1>7, <1>8, <1>9, RowsChange

-----------------------------------------------------------------------------
(* Types of calls and handlers *)

\* A handler caches what it has read, or fails to.
Caches(h) ==
    /\ hnd[h] # Idle /\ hnd[h].at = "set"
    /\ cache' = Set(h) \/ cache' = cache
    /\ Proceed(h, hnd[h].val)
    /\ UNCHANGED <<rows, lock, api, conf, second, ghosts, changes, faults>>

\* Readers look for a copy, or cache a row.
LEMMA ReaderSteps ==
    ASSUME NEW h \in Handlers, IInv, Uplink(h) \/ GetStatsGatewayMeta(h)
    PROVE  Caches(h) \/ \E k \in Keys : GetAndCache(h, k)
<1>1. CacheRow(h, "dp", CreateDeviceProfileCache) => Caches(h)
  BY DEF CacheRow, CreateDeviceProfileCache, Caches
<1>2. CacheRow(h, "sp", CreateServiceProfileCache) => Caches(h)
  BY DEF CacheRow, CreateServiceProfileCache, Caches
<1>3. CacheRow(h, "gwm", CreateGatewayMetaCache) => Caches(h)
  BY DEF CacheRow, CreateGatewayMetaCache, Caches
<1>4. ASSUME hnd[h] # Idle, hnd[h].op = "stats" PROVE GatewayOf(h) \in Gateways
  BY <1>4, KeysOK DEF IInv, ProgressTyped, HandlerOK, HandlerRecord, GatewayOf
<1> QED
  BY <1>1, <1>2, <1>3, <1>4, KeysOK DEF Uplink, GetStatsGatewayMeta, UpdateMetaDataInRXPacket,
     GetAndCacheDeviceProfile, GetAndCacheServiceProfile, GetAndCacheGatewayMeta

\* The steps of handlers
HandlerStep(h) ==
    \/ Caches(h) \/ \E k \in Keys : GetAndCache(h, k)
    \/ HandleStats(h) \/ FlushGatewayState(h) \/ SelectGatewayProfile(h)
    \/ HandleGatewayConfigurationUpdate(h) \/ ForwardGatewayStats(h) \/ StatsBreakOff(h)

\* The steps of API calls leave the handlers alone, but for the excuse.
LEMMA HandlersChange ==
    ASSUME IInv, Next
    PROVE  \/ UNCHANGED hnd \/ hnd' = Excuse(hnd) \/ Tick
           \/ \E h \in Handlers : HandlerStep(h)
<1>1. ASSUME NEW h \in Handlers, Uplink(h) \/ Stats(h) PROVE HandlerStep(h)
  BY <1>1, ReaderSteps DEF Stats, HandlerStep
<1>2. ASSUME NEW c \in Clients, ServiceProfileAPI(c) PROVE UNCHANGED hnd \/ hnd' = Excuse(hnd)
  BY <1>2 DEF ServiceProfileAPI, CreateServiceProfile, AtOnce, Starts, UpdateServiceProfile,
       FlushServiceProfileCache, Begin, DeleteServiceProfile, FlushNextGatewayMeta
<1>3. ASSUME NEW c \in Clients, DeviceProfileAPI(c) PROVE UNCHANGED hnd \/ hnd' = Excuse(hnd)
  BY <1>3 DEF DeviceProfileAPI, CreateDeviceProfile, AtOnce, Starts, UpdateDeviceProfile,
       Begin, DeleteDeviceProfile
<1>4. ASSUME NEW c \in Clients, RoutingProfileAPI(c) \/ GatewayProfileAPI(c)
      PROVE  UNCHANGED hnd \/ hnd' = Excuse(hnd)
  BY <1>4 DEF RoutingProfileAPI, CreateRoutingProfile, AtOnce, Starts, UpdateRoutingProfile,
       Begin, DeleteRoutingProfile, GatewayProfileAPI, CreateGatewayProfile, UpdateGatewayProfile,
       DeleteGatewayProfile
<1>5. ASSUME NEW c \in Clients, GatewayAPI(c) \/ BreakOff(c) PROVE UNCHANGED hnd \/ hnd' = Excuse(hnd)
  BY <1>5 DEF GatewayAPI, CreateGateway, AtOnce, Starts, UpdateGateway, Begin, DeleteGateway,
       GenerateGatewayClientCertificate, CommitGateway, BreakOff
<1> QED
  BY <1>1, <1>2, <1>3, <1>4, <1>5 DEF Next

\* Handlers that are excused
LEMMA ExcuseOK ==
    ASSUME IInv, NEW h \in Handlers
    PROVE  /\ Excuse(hnd)[h] = IF hnd[h] # Idle /\ hnd[h].at = "set"
                               THEN [hnd[h] EXCEPT !.excused = TRUE] ELSE hnd[h]
           /\ HandlerOK(Excuse(hnd)[h])
           /\ Excuse(hnd)[h] # Idle /\ Excuse(hnd)[h].at = "set" => Excuse(hnd)[h].excused
           /\ (Excuse(hnd)[h] = Idle) <=> (hnd[h] = Idle)
           /\ hnd[h].op = "stats" /\ hnd[h].at # "set" => Excuse(hnd)[h] = hnd[h]
           /\ Excuse(hnd)[h] # Idle => Excuse(hnd)[h].at = hnd[h].at /\ Excuse(hnd)[h].op = hnd[h].op
<1> DEFINE x == hnd[h]
           y == [x EXCEPT !.excused = TRUE]
<1>1. HandlerOK(x)
  BY DEF IInv, ProgressTyped
<1>2. Excuse(hnd)[h] = IF x # Idle /\ x.at = "set" THEN y ELSE x
  BY DEF Excuse
<1> HIDE DEF x
<1>3. CASE x # Idle /\ x.at = "set"
  <2>1. x \in HandlerRecord
    BY <1>1, <1>3 DEF HandlerOK
  <2>2. /\ y \in HandlerRecord /\ y.excused = TRUE /\ y.op = x.op /\ y.at = x.at /\ y.key = x.key
        /\ y.val = x.val /\ y.stale = x.stale /\ y.held = x.held
    BY <2>1 DEF HandlerRecord
  <2> HIDE DEF y
  <2>3. HandlerOK(y)
    BY <1>1, <1>3, <2>2 DEF HandlerOK
  <2>4. y # Idle
    BY <2>2 DEF HandlerRecord, Idle
  <2> QED
    BY <1>2, <1>3, <2>2, <2>3, <2>4 DEF x, y
<1>4. CASE ~(x # Idle /\ x.at = "set")
  BY <1>1, <1>2, <1>4 DEF x
<1> QED
  BY <1>3, <1>4

\* A handler that has its row
LEMMA ProceedOK ==
    ASSUME IInv, NEW h \in Handlers, NEW val, Proceed(h, val),
           hnd[h] # Idle /\ hnd[h].op = "stats" => val \in GatewayMeta
    PROVE  /\ HandlerOK(hnd'[h])
           /\ hnd'[h] = Idle \/ hnd'[h].at = "config"
           /\ \A i \in Handlers : i # h => hnd'[i] = hnd[i]
           /\ hnd' = [i \in Handlers |-> hnd'[i]]
<1> DEFINE x == hnd[h]
           y == [x EXCEPT !.at = "config", !.val = val, !.stale = 0, !.held = 0, !.excused = FALSE]
<1>1. HandlerOK(x) /\ hnd = [i \in Handlers |-> hnd[i]]
  BY DEF IInv, ProgressTyped
<1>2. hnd' = [hnd EXCEPT ![h] = IF x # Idle /\ x.op = "stats" THEN y ELSE Idle]
  BY DEF Proceed
<1>3. hnd'[h] = IF x # Idle /\ x.op = "stats" THEN y ELSE Idle
  BY <1>1, <1>2
<1>4. (\A i \in Handlers : i # h => hnd'[i] = hnd[i]) /\ hnd' = [i \in Handlers |-> hnd'[i]]
  BY <1>1, <1>2
<1>5. CASE x # Idle /\ x.op = "stats"
  <2>1. x \in HandlerRecord /\ x.key[1] = "gwm" /\ val \in Contents /\ val \in GatewayMeta
    BY <1>1, <1>5 DEF HandlerOK, Contents
  <2>2. y \in HandlerRecord /\ y.at = "config" /\ y.val = val /\ y.op = "stats" /\ y.key = x.key
    BY <1>5, <2>1 DEF HandlerRecord
  <2> HIDE DEF y, x
  <2>3. HandlerOK(y)
    BY <2>1, <2>2 DEF HandlerOK
  <2> QED
    BY <1>3, <1>4, <1>5, <2>2, <2>3
<1>6. CASE ~(x # Idle /\ x.op = "stats")
  BY <1>3, <1>4, <1>6 DEF HandlerOK
<1> QED
  BY <1>5, <1>6

\* A handler that starts to read
LEMMA GetAndCacheOK ==
    ASSUME IInv, NEW h \in Handlers, NEW k \in Keys, GetAndCache(h, k)
    PROVE  /\ HandlerOK(hnd'[h])
           /\ \A i \in Handlers : i # h => hnd'[i] = hnd[i]
           /\ hnd' = [i \in Handlers |-> hnd'[i]]
           /\ hnd'[h] = Idle \/ hnd'[h].at = "config"
                 \/ (/\ hnd'[h].at = "set" /\ hnd'[h].key = k /\ hnd'[h].val = View(k)
                     /\ hnd'[h].excused = Writing)
           /\ UNCHANGED cache
<1> DEFINE x == hnd[h]
<1>1. HandlerOK(x) /\ hnd = [i \in Handlers |-> hnd[i]]
  BY DEF IInv, ProgressTyped
<1>2. x # Idle => x \in HandlerRecord /\ x.op = "stats" /\ x.key = k /\ k[1] = "gwm"
  BY <1>1 DEF GetAndCache, HandlerOK, HandlerRecord
<1>3. CASE Hit(h, k)
  <2>1. cache[k] # None /\ Proceed(h, cache[k].val) /\ UNCHANGED cache
    BY <1>3, GetOK DEF Hit
  <2>2. cache[k].val \in RowSet(k)
    BY <2>1 DEF IInv, CacheTyped, CopyOK
  <2>3. x # Idle => cache[k].val \in GatewayMeta
    BY <1>2, <2>2, Views
  <2> QED
    BY <2>1, <2>3, ProceedOK
<1>4. CASE Miss(h, k)
  <2> DEFINE y == Read("rx", "set", k, View(k), None, Writing)
             z == Read("stats", "set", k, View(k), x.version, Writing)
  <2>1. /\ View(k) # None /\ UNCHANGED cache
        /\ hnd' = [hnd EXCEPT ![h] = IF x = Idle THEN y ELSE z]
    BY <1>4 DEF Miss
  <2>2. hnd'[h] = IF x = Idle THEN y ELSE z
    BY <1>1, <2>1
  <2>3. (\A i \in Handlers : i # h => hnd'[i] = hnd[i]) /\ hnd' = [i \in Handlers |-> hnd'[i]]
    BY <1>1, <2>1
  <2>4. View(k) \in RowSet(k) /\ View(k) \in Contents /\ Writing \in BOOLEAN
    BY <2>1, ViewOK DEF Writing
  <2> HIDE DEF x
  <2>5. CASE x = Idle
    <3>1. y \in HandlerRecord /\ y.op = "rx" /\ y.at = "set" /\ y.key = k /\ y.val = View(k)
              /\ y.stale = 0 /\ y.held = 0 /\ y.excused = Writing
      BY <2>4 DEF Read, HandlerRecord
    <3> HIDE DEF y
    <3>2. HandlerOK(y)
      BY <2>4, <3>1, Constants DEF HandlerOK
    <3> QED
      BY <2>1, <2>2, <2>3, <2>5, <3>1, <3>2
  <2>6. CASE x # Idle
    <3>1. x.version \in Versions \cup {None}
      BY <1>2, <2>6 DEF HandlerRecord
    <3>2. z \in HandlerRecord /\ z.op = "stats" /\ z.at = "set" /\ z.key = k /\ z.val = View(k)
              /\ z.stale = 0 /\ z.held = 0 /\ z.excused = Writing
      BY <2>4, <3>1 DEF Read, HandlerRecord
    <3> HIDE DEF z
    <3>3. HandlerOK(z)
      BY <1>2, <2>4, <2>6, <3>2, Constants DEF HandlerOK
    <3> QED
      BY <2>1, <2>2, <2>3, <2>6, <3>2, <3>3
  <2> QED
    BY <2>5, <2>6
<1>5. CASE Unknown(h, k)
  BY <1>1, <1>5 DEF Unknown, HandlerOK
<1> QED
  BY <1>3, <1>4, <1>5 DEF GetAndCache

\* A handler that caches the row it has read
LEMMA CachesOK ==
    ASSUME IInv, NEW h \in Handlers, Caches(h)
    PROVE  /\ HandlerOK(hnd'[h])
           /\ \A i \in Handlers : i # h => hnd'[i] = hnd[i]
           /\ hnd' = [i \in Handlers |-> hnd'[i]]
           /\ hnd'[h] = Idle \/ hnd'[h].at = "config"
<1>1. HandlerOK(hnd[h]) /\ hnd[h] # Idle /\ hnd[h].at = "set" /\ Proceed(h, hnd[h].val)
  BY DEF IInv, ProgressTyped, Caches
<1>2. hnd[h].op = "stats" => hnd[h].val \in GatewayMeta
  BY <1>1, Views DEF HandlerOK
<1> QED
  BY <1>1, <1>2, ProceedOK

\* A handler that goes from one part of the stats to the next
LEMMA MovesOK ==
    ASSUME IInv, NEW h \in Handlers, NEW a \in {"get", "forward"},
           hnd[h] # Idle, hnd[h].op = "stats", hnd' = [hnd EXCEPT ![h] = [hnd[h] EXCEPT !.at = a]]
    PROVE  /\ HandlerOK(hnd'[h])
           /\ \A i \in Handlers : i # h => hnd'[i] = hnd[i]
           /\ hnd' = [i \in Handlers |-> hnd'[i]]
           /\ hnd'[h].at = a
<1> DEFINE x == hnd[h]
           y == [x EXCEPT !.at = a]
<1>1. x \in HandlerRecord /\ x.key[1] = "gwm" /\ hnd = [i \in Handlers |-> hnd[i]]
  BY DEF IInv, ProgressTyped, HandlerOK
<1>2. hnd'[h] = y /\ (\A i \in Handlers : i # h => hnd'[i] = hnd[i]) /\ hnd' = [i \in Handlers |-> hnd'[i]]
  BY <1>1
<1>3. y \in HandlerRecord /\ y.at = a /\ y.op = "stats" /\ y.key = x.key
  BY <1>1 DEF HandlerRecord
<1> HIDE DEF x, y
<1>4. HandlerOK(y)
  BY <1>1, <1>3 DEF HandlerOK
<1> QED
  BY <1>2, <1>3, <1>4

\* The read of the gateway-profile
LEMMA SelectOK ==
    ASSUME IInv, NEW h \in Handlers, SelectGatewayProfile(h)
    PROVE  /\ HandlerOK(hnd'[h])
           /\ \A i \in Handlers : i # h => hnd'[i] = hnd[i]
           /\ hnd' = [i \in Handlers |-> hnd'[i]]
           /\ \/ hnd'[h] = Idle \/ hnd'[h].at = "forward"
              \/ \E p \in GatewayProfiles :
                    /\ hnd'[h].at = "extra" /\ gatewayProfile[p] # None
                    /\ hnd'[h].val.id = p /\ hnd'[h].val.row = gatewayProfile[p]
<1> DEFINE x == hnd[h]
           p == x.val.gatewayProfileID
           val == [id |-> p, row |-> gatewayProfile[p], routingProfileID |-> x.val.routingProfileID]
           y == [x EXCEPT !.at = "extra", !.val = val]
           z == [x EXCEPT !.at = "forward"]
<1>1. x # Idle /\ x.op = "stats" /\ x.at = "config"
  BY DEF SelectGatewayProfile, StatsAt
<1>2. x \in HandlerRecord /\ x.key[1] = "gwm" /\ x.val \in GatewayMeta /\ hnd = [i \in Handlers |-> hnd[i]]
  BY <1>1 DEF IInv, ProgressTyped, HandlerOK
<1>3. hnd' = [hnd EXCEPT ![h] = IF p = None \/ GatewayOf(h) \notin Concentratord THEN z
                                ELSE IF gatewayProfile[p] = None THEN Idle ELSE y]
  BY DEF SelectGatewayProfile
<1>4. /\ hnd'[h] = z \/ hnd'[h] = Idle \/ (p # None /\ gatewayProfile[p] # None /\ hnd'[h] = y)
      /\ \A i \in Handlers : i # h => hnd'[i] = hnd[i]
      /\ hnd' = [i \in Handlers |-> hnd'[i]]
  BY <1>2, <1>3
<1> HIDE DEF x
<1>5. HandlerOK(Idle)
  BY DEF HandlerOK
<1>6. HandlerOK(z) /\ z.at = "forward"
  <2>1. z \in HandlerRecord /\ z.at = "forward" /\ z.op = "stats" /\ z.key = x.key
    BY <1>1, <1>2 DEF HandlerRecord
  <2> HIDE DEF z
  <2> QED
    BY <1>2, <2>1 DEF HandlerOK
<1>7. ASSUME p # None, gatewayProfile[p] # None
      PROVE  HandlerOK(y) /\ p \in GatewayProfiles /\ y.at = "extra" /\ y.val.id = p /\ y.val.row = gatewayProfile[p]
  <2>1. p \in GatewayProfiles /\ x.val.routingProfileID \in RoutingProfiles
    BY <1>2, <1>7 DEF GatewayMeta
  <2>2. gatewayProfile[p] \in GatewayProfileRow
    BY <1>7, <2>1 DEF IInv, RowsTyped
  <2>3. val \in Selected /\ val \in Contents
    BY <2>1, <2>2 DEF Selected, Contents
  <2>4. val.id = p /\ val.row = gatewayProfile[p]
    OBVIOUS
  <2> HIDE DEF val
  <2>5. y \in HandlerRecord /\ y.at = "extra" /\ y.op = "stats" /\ y.key = x.key /\ y.val = val
    BY <1>1, <1>2, <2>3 DEF HandlerRecord
  <2> HIDE DEF y
  <2> QED
    BY <1>2, <2>1, <2>3, <2>4, <2>5 DEF HandlerOK
<1> HIDE DEF y, z
<1> QED
  BY <1>4, <1>5, <1>6, <1>7

\* A tick: a row that is held grows stale no faster than it is held.
LEMMA TickHandlersOK ==
    ASSUME IInv, Tick, NEW h \in Handlers
    PROVE  /\ HandlerOK(hnd'[h])
           /\ (hnd'[h] = Idle) <=> (hnd[h] = Idle)
           /\ hnd[h] # Idle => /\ hnd'[h].op = hnd[h].op /\ hnd'[h].at = hnd[h].at
                               /\ hnd'[h].key = hnd[h].key /\ hnd'[h].val = hnd[h].val
                               /\ hnd'[h].excused = hnd[h].excused
<1> DEFINE x == hnd[h]
           t == IF x.val = View(x.key) THEN 0 ELSE x.stale + 1
           y == [x EXCEPT !.held = x.held + 1, !.stale = t]
<1>1. HandlerOK(x)
  BY DEF IInv, ProgressTyped
<1>2. hnd'[h] = IF x = Idle \/ x.at # "set" THEN x ELSE y
  <2>1. x # Idle => x \in HandlerRecord
    BY <1>1 DEF HandlerOK
  <2> QED
    BY <2>1 DEF Tick, HandlerRecord
<1>3. x # Idle /\ x.at = "set" => x.held < Hold
  BY DEF Tick
<1> HIDE DEF x
<1>4. CASE x # Idle /\ x.at = "set"
  <2>1. x \in HandlerRecord /\ x.stale <= x.held /\ x.stale \in Nat /\ x.held \in Nat
    BY <1>1, <1>4 DEF HandlerOK, HandlerRecord
  <2>2. /\ y \in HandlerRecord /\ y.op = x.op /\ y.at = x.at /\ y.key = x.key /\ y.val = x.val
        /\ y.excused = x.excused /\ y.held = x.held + 1 /\ y.stale \in {0, x.stale + 1}
    <3>1. t \in Nat /\ x.held + 1 \in Nat /\ t \in {0, x.stale + 1}
      BY <2>1
    <3> HIDE DEF t
    <3> QED
      BY <2>1, <3>1 DEF HandlerRecord
  <2> HIDE DEF y
  <2>3. y.stale <= y.held /\ y.held <= Hold
    BY <1>3, <1>4, <2>1, <2>2, Constants
  <2>4. HandlerOK(y)
    BY <1>1, <1>4, <2>2, <2>3 DEF HandlerOK
  <2>5. y # Idle
    BY <2>2 DEF HandlerRecord, Idle
  <2> QED
    BY <1>2, <1>4, <2>2, <2>4, <2>5 DEF x
<1>5. CASE ~(x # Idle /\ x.at = "set")
  BY <1>1, <1>2, <1>5 DEF x
<1> QED
  BY <1>4, <1>5

\* The report of a gateway
LEMMA StatsOK ==
    ASSUME IInv, NEW h \in Handlers, HandleStats(h)
    PROVE  /\ HandlerOK(hnd'[h])
           /\ \A i \in Handlers : i # h => hnd'[i] = Excuse(hnd)[i]
           /\ hnd' = [i \in Handlers |-> hnd'[i]]
           /\ \E g \in Gateways :
                 /\ StatsAt(h, "flush")' /\ hnd'[h].key = GatewayMetaKey(g) /\ lock[g] = None
                 /\ gateway[g] # None
                 /\ \A f \in Gateways : f # g => gateway'[f] = gateway[f]
                 /\ \A f \in {"serviceProfileID", "gatewayProfileID", "routingProfileID"} :
                        gateway'[g][f] = gateway[g][f]
<1>1. PICK g \in Gateways, location \in Locations :
          /\ UpdateGatewayState(h, g, location)
          /\ hnd' = [Excuse(hnd) EXCEPT
                       ![h] = Read("stats", "flush", GatewayMetaKey(g), None, Reported(g), FALSE)]
  BY DEF HandleStats
<1> DEFINE x == Read("stats", "flush", GatewayMetaKey(g), None, Reported(g), FALSE)
<1>2. hnd'[h] = x /\ (\A i \in Handlers : i # h => hnd'[i] = Excuse(hnd)[i]) /\ hnd' = [i \in Handlers |-> hnd'[i]]
  BY <1>1 DEF Excuse
<1>3. Reported(g) \in Versions \cup {None}
  BY DEF Reported, IInv, VersionInv, ConfOK
<1>4. x \in HandlerRecord /\ x.op = "stats" /\ x.at = "flush" /\ x.key = GatewayMetaKey(g)
  BY <1>3, KeysOK DEF Read, HandlerRecord, Contents
<1> HIDE DEF x
<1>5. HandlerOK(x)
  BY <1>4, KeyParts DEF HandlerOK
<1>6. x # Idle
  BY <1>4 DEF Idle
<1>7. lock[g] = None /\ gateway[g] # None
  BY <1>1 DEF UpdateGatewayState, Unlocked
<1>8. gateway \in [Gateways -> GatewayRow \cup {None}] /\ gateway[g] \in GatewayRow
  BY <1>7 DEF IInv, RowsTyped
<1>9. gateway' = [gateway EXCEPT ![g] = [gateway[g] EXCEPT !.seen = TRUE,
                        !.location = IF location = None THEN gateway[g].location ELSE location]]
  BY <1>1, <1>8 DEF UpdateGatewayState, GatewayRow
<1>10. \A f \in {"serviceProfileID", "gatewayProfileID", "routingProfileID"} : gateway'[g][f] = gateway[g][f]
  BY <1>8, <1>9 DEF GatewayRow
<1>11. \A f \in Gateways : f # g => gateway'[f] = gateway[f]
  BY <1>8, <1>9
<1> QED
  BY <1>2, <1>4, <1>5, <1>6, <1>7, <1>10, <1>11 DEF StatsAt

\* The handlers have their types.
LEMMA HandlersStep ==
    ASSUME IInv, Next
    PROVE  hnd' = [h \in Handlers |-> hnd'[h]] /\ \A h \in Handlers : HandlerOK(hnd'[h])
<1>0. hnd = [h \in Handlers |-> hnd[h]] /\ \A h \in Handlers : HandlerOK(hnd[h])
  BY DEF IInv, ProgressTyped
<1>1. CASE UNCHANGED hnd
  BY <1>0, <1>1
<1>2. CASE hnd' = Excuse(hnd)
  BY <1>2, ExcuseOK DEF Excuse
<1>3. CASE Tick
  BY <1>3, TickHandlersOK DEF Tick
<1>4. ASSUME NEW h \in Handlers, HandlerStep(h)
      PROVE  hnd' = [i \in Handlers |-> hnd'[i]] /\ \A i \in Handlers : HandlerOK(hnd'[i])
  <2>1. CASE Caches(h)
    BY <1>0, <2>1, CachesOK
  <2>2. CASE \E k \in Keys : GetAndCache(h, k)
    BY <1>0, <2>2, GetAndCacheOK
  <2>3. CASE HandleStats(h)
    BY <2>3, StatsOK, ExcuseOK
  <2>4. CASE FlushGatewayState(h)
    BY <1>0, <2>4, MovesOK DEF FlushGatewayState, StatsAt
  <2>5. CASE SelectGatewayProfile(h)
    BY <1>0, <2>5, SelectOK
  <2>6. CASE HandleGatewayConfigurationUpdate(h)
    BY <1>0, <2>6, MovesOK DEF HandleGatewayConfigurationUpdate, StatsAt
  <2>7. CASE ForwardGatewayStats(h) \/ StatsBreakOff(h)
    <3>1. hnd' = [hnd EXCEPT ![h] = Idle] /\ HandlerOK(Idle)
      BY <2>7 DEF ForwardGatewayStats, StatsBreakOff, HandlerOK
    <3> QED
      BY <1>0, <3>1
  <2> QED
    BY <1>4, <2>1, <2>2, <2>3, <2>4, <2>5, <2>6, <2>7 DEF HandlerStep
<1> QED
  BY <1>1, <1>2, <1>3, <1>4, HandlersChange

\* A call that begins
LEMMA BeginOK ==
    ASSUME IInv, NEW c \in Clients, NEW call, Begin(c, call)
    PROVE  /\ api[c] = Idle /\ api' = [api EXCEPT ![c] = call] /\ hnd' = Excuse(hnd)
           /\ changes' \in 0 .. MaxChanges
<1>1. changes \in 0 .. MaxChanges /\ MaxChanges \in Nat
  BY Constants DEF IInv, ProgressTyped
<1> QED
  BY <1>1 DEF Begin, Starts

\* A new call that is well-formed
Begins(c) ==
    /\ api[c] = Idle /\ lock' = lock
    /\ \E x : api' = [api EXCEPT ![c] = x] /\ CallOK(x)

\* The end of a call, or of its work on one gateway
Ends(c) ==
    /\ api[c] # Idle
    /\ Done(c)
    /\ lock' \in [Gateways -> Clients \cup {None}]

LocksGateway(c) ==
    /\ api[c].op \in GatewayCalls
    /\ UpdateGatewayRow(c)
    /\ UNCHANGED <<rows, hnd, conf, second, ghosts, changes, faults>>

\* Records of calls
LEMMA CallRecordOK ==
    ASSUME NEW op \in GatewayCalls \cup ServiceProfileCalls \cup DeviceProfileCalls
                          \cup {"updateRoutingProfile", "deleteGateway"},
           NEW id \in RowIds, NEW row \in Rows, NEW todo \in SUBSET Gateways
    PROVE  /\ Call(op, id, row, todo) \in CallRecord
           /\ Call(op, id, row, todo).op = op /\ Call(op, id, row, todo).id = id
           /\ Call(op, id, row, todo).row = row /\ Call(op, id, row, todo).todo = todo
BY DEF Call, CallRecord

\* Calls begin well-formed: service-profiles
LEMMA ServiceProfileBegins ==
    ASSUME IInv, NEW c \in Clients, NEW op \in ServiceProfileCalls, NEW s \in ServiceProfiles,
           NEW row \in Rows, op = "updateServiceProfile" => row \in ServiceProfileRow,
           FlushServiceProfileCache(c, op, s, row), lock' = lock
    PROVE  Begins(c)
<1> DEFINE todo == FlushGatewayMetaCacheForServiceProfile(s)
           x == Call(op, s, row, todo)
<1>1. todo \in SUBSET Gateways /\ s \in RowIds
  BY DEF FlushGatewayMetaCacheForServiceProfile, RowIds
<1>2. x \in CallRecord /\ x.op = op /\ x.id = s /\ x.row = row
  BY <1>1, CallRecordOK
<1>3. api[c] = Idle /\ api' = [api EXCEPT ![c] = x]
  BY BeginOK DEF FlushServiceProfileCache
<1> HIDE DEF x
<1>4. CallOK(x)
  BY <1>2 DEF CallOK, ServiceProfileCalls, DeviceProfileCalls, GatewayCalls
<1> QED
  BY <1>3, <1>4 DEF Begins

\* Calls begin well-formed: the others
LEMMA OtherBegins ==
    ASSUME IInv, NEW c \in Clients,
           NEW op \in DeviceProfileCalls \cup GatewayCalls \cup {"updateRoutingProfile", "deleteGateway"},
           NEW id \in RowIds, NEW row \in Rows,
           op \in DeviceProfileCalls => id \in DeviceProfiles,
           op = "updateDeviceProfile" => row \in DeviceProfileRow,
           op = "updateRoutingProfile" => id \in RoutingProfiles /\ row \in RoutingProfileRow,
           op \in GatewayCalls => id \in Gateways /\ row \in GatewayRow,
           op = "deleteGateway" => id \in Gateways,
           Begin(c, Call(op, id, row, {})), lock' = lock
    PROVE  Begins(c)
<1> DEFINE x == Call(op, id, row, {})
<1>1. x \in CallRecord /\ x.op = op /\ x.id = id /\ x.row = row
  BY CallRecordOK
<1>2. api[c] = Idle /\ api' = [api EXCEPT ![c] = x]
  BY BeginOK
<1> HIDE DEF x
<1>3. CallOK(x)
  BY <1>1 DEF CallOK, ServiceProfileCalls, DeviceProfileCalls, GatewayCalls
<1> QED
  BY <1>2, <1>3 DEF Begins

\* What steps do to calls and locks
LEMMA CallsChange ==
    ASSUME IInv, Next
    PROVE  \/ UNCHANGED <<api, lock>>
           \/ \E c \in Clients : Begins(c) \/ Ends(c) \/ LocksGateway(c) \/ FlushNextGatewayMeta(c)
<1>1. lock \in [Gateways -> Clients \cup {None}]
  BY DEF IInv, ProgressTyped
<1>2. \A s \in ServiceProfiles : s \in RowIds
  BY DEF RowIds
<1>3. ASSUME NEW c \in Clients, ServiceProfileAPI(c)
      PROVE  UNCHANGED <<api, lock>> \/ Begins(c) \/ Ends(c) \/ FlushNextGatewayMeta(c)
  <2>1. CASE CreateServiceProfile(c)
    BY <2>1 DEF CreateServiceProfile, AtOnce
  <2>2. CASE UpdateServiceProfile(c)
    BY <1>1, <2>2, ServiceProfileBegins DEF UpdateServiceProfile, Ends, Rows, ServiceProfileCalls, Idle
  <2>3. CASE DeleteServiceProfile(c)
    BY <1>1, <2>3, ServiceProfileBegins DEF DeleteServiceProfile, Ends, Rows, ServiceProfileCalls, Idle
  <2> QED
    BY <1>3, <2>1, <2>2, <2>3 DEF ServiceProfileAPI
<1>4. ASSUME NEW c \in Clients, DeviceProfileAPI(c)
      PROVE  UNCHANGED <<api, lock>> \/ Begins(c) \/ Ends(c)
  <2>1. CASE CreateDeviceProfile(c)
    BY <2>1 DEF CreateDeviceProfile, AtOnce
  <2>2. ASSUME NEW d \in DeviceProfiles, NEW row \in DeviceProfileRow,
               Begin(c, Call("updateDeviceProfile", d, row, {})), lock' = lock
        PROVE  Begins(c)
    BY <2>2, OtherBegins DEF Rows, RowIds, DeviceProfileCalls, GatewayCalls
  <2>3. ASSUME NEW d \in DeviceProfiles,
               Begin(c, Call("deleteDeviceProfile", d, None, {})), lock' = lock
        PROVE  Begins(c)
    BY <2>3, OtherBegins DEF Rows, RowIds, DeviceProfileCalls, GatewayCalls
  <2>4. CASE UpdateDeviceProfile(c)
    BY <1>1, <2>2, <2>4 DEF UpdateDeviceProfile, Ends, Idle
  <2>5. CASE DeleteDeviceProfile(c)
    BY <1>1, <2>3, <2>5 DEF DeleteDeviceProfile, Ends, Idle
  <2> QED
    BY <1>4, <2>1, <2>4, <2>5 DEF DeviceProfileAPI
<1>5. ASSUME NEW c \in Clients, RoutingProfileAPI(c) \/ GatewayProfileAPI(c)
      PROVE  UNCHANGED <<api, lock>> \/ Begins(c) \/ Ends(c)
  <2>1. ASSUME NEW r \in RoutingProfiles, NEW row \in RoutingProfileRow,
               Begin(c, Call("updateRoutingProfile", r, row, {})), lock' = lock
        PROVE  Begins(c)
    BY <2>1, OtherBegins DEF Rows, RowIds, DeviceProfileCalls, GatewayCalls
  <2>2. ASSUME NEW r \in RoutingProfiles, NEW cert \in BOOLEAN, NEW key \in BOOLEAN,
               SelectRoutingProfile(r) # None
        PROVE  RoutingProfileUpdate(SelectRoutingProfile(r), cert, key) \in RoutingProfileRow
    BY <2>2 DEF RoutingProfileUpdate, RoutingProfileRow, SelectRoutingProfile, IInv, RowsTyped
  <2>3. CASE UpdateRoutingProfile(c)
    BY <1>1, <2>1, <2>2, <2>3 DEF UpdateRoutingProfile, Ends, Idle
  <2> QED
    BY <1>5, <2>3 DEF RoutingProfileAPI, GatewayProfileAPI, CreateRoutingProfile,
       DeleteRoutingProfile, CreateGatewayProfile, UpdateGatewayProfile, DeleteGatewayProfile, AtOnce
<1>6. ASSUME NEW c \in Clients, GatewayAPI(c)
      PROVE  UNCHANGED <<api, lock>> \/ Begins(c) \/ Ends(c) \/ LocksGateway(c)
  <2>1. ASSUME NEW op \in GatewayCalls, NEW g \in Gateways, NEW row \in GatewayRow,
               Begin(c, Call(op, g, row, {})), lock' = lock
        PROVE  Begins(c)
    BY <2>1, OtherBegins DEF Rows, RowIds, DeviceProfileCalls, GatewayCalls
  <2>2. ASSUME NEW g \in Gateways, Begin(c, Call("deleteGateway", g, None, {})), lock' = lock
        PROVE  Begins(c)
    BY <2>2, OtherBegins DEF Rows, RowIds, DeviceProfileCalls, GatewayCalls
  <2>3. CASE CreateGateway(c)
    BY <2>3 DEF CreateGateway, AtOnce
  <2>4. ASSUME NEW g \in Gateways, SelectGateway(g) # None
        PROVE  /\ [SelectGateway(g) EXCEPT !.tlsCert = TRUE] \in GatewayRow
               /\ \A request \in Requests : GatewayUpdate(SelectGateway(g), request) \in GatewayRow
    <3>1. gateway[g] \in GatewayRow
      BY <2>4 DEF SelectGateway, IInv, RowsTyped
    <3>2. gateway[g].seen \in BOOLEAN /\ gateway[g].tlsCert \in BOOLEAN
      BY <3>1 DEF GatewayRow
    <3>3. ASSUME NEW request \in Requests PROVE GatewayUpdate(gateway[g], request) \in GatewayRow
      BY <3>2, NewGatewayOK DEF GatewayUpdate, GatewayRow
    <3> QED
      BY <3>1, <3>3 DEF SelectGateway, GatewayRow
  <2>5. CASE UpdateGateway(c)
    BY <2>1, <2>4, <2>5 DEF UpdateGateway, LocksGateway, GatewayCalls
  <2>6. CASE GenerateGatewayClientCertificate(c)
    BY <2>1, <2>4, <2>6 DEF GenerateGatewayClientCertificate, LocksGateway, GatewayCalls
  <2>7. CASE DeleteGateway(c)
    BY <1>1, <2>2, <2>7 DEF DeleteGateway, Ends, Idle
  <2>8. CASE CommitGateway(c)
    <3>1. api[c] # Idle /\ Done(c) /\ lock' = [lock EXCEPT ![api[c].id] = None]
      BY <2>8 DEF CommitGateway, Idle
    <3>2. lock' \in [Gateways -> Clients \cup {None}]
      BY <1>1, <3>1
    <3> QED
      BY <3>1, <3>2 DEF Ends
  <2> QED
    BY <1>6, <2>3, <2>5, <2>6, <2>7, <2>8 DEF GatewayAPI
<1>7. ASSUME NEW c \in Clients, BreakOff(c) PROVE Ends(c)
  BY <1>1, <1>7 DEF BreakOff, Ends
<1>8. ASSUME NEW h \in Handlers, Uplink(h) \/ Stats(h) PROVE UNCHANGED <<api, lock>>
  BY <1>8, ReaderSteps DEF Stats, Caches, GetAndCache, HandleStats, FlushGatewayState, SelectGatewayProfile,
     HandleGatewayConfigurationUpdate, ForwardGatewayStats, StatsBreakOff
<1>9. CASE Tick
  BY <1>9 DEF Tick
<1> QED
  BY <1>3, <1>4, <1>5, <1>6, <1>7, <1>8, <1>9 DEF Next

\* The calls and locks have their types.
LEMMA CallsStep ==
    ASSUME IInv, Next
    PROVE  /\ lock' \in [Gateways -> Clients \cup {None}]
           /\ api' = [c \in Clients |-> api'[c]] /\ \A c \in Clients : CallOK(api'[c])
<1>0. /\ lock \in [Gateways -> Clients \cup {None}]
      /\ api = [c \in Clients |-> api[c]] /\ \A c \in Clients : CallOK(api[c])
  BY DEF IInv, ProgressTyped
<1>1. CASE UNCHANGED <<api, lock>>
  BY <1>0, <1>1
<1>2. ASSUME NEW c \in Clients, NEW x, CallOK(x), api' = [api EXCEPT ![c] = x]
      PROVE  api' = [e \in Clients |-> api'[e]] /\ \A e \in Clients : CallOK(api'[e])
  BY <1>0, <1>2
<1>3. ASSUME NEW c \in Clients, Begins(c)
      PROVE  /\ lock' \in [Gateways -> Clients \cup {None}]
             /\ api' = [e \in Clients |-> api'[e]] /\ \A e \in Clients : CallOK(api'[e])
  BY <1>0, <1>2, <1>3 DEF Begins
<1>4. ASSUME NEW c \in Clients, Ends(c)
      PROVE  /\ lock' \in [Gateways -> Clients \cup {None}]
             /\ api' = [e \in Clients |-> api'[e]] /\ \A e \in Clients : CallOK(api'[e])
  <2>1. CallOK(Idle)
    BY DEF CallOK
  <2> QED
    BY <1>2, <1>4, <2>1 DEF Ends, Done
<1>5. ASSUME NEW c \in Clients, LocksGateway(c)
      PROVE  /\ lock' \in [Gateways -> Clients \cup {None}]
             /\ api' = [e \in Clients |-> api'[e]] /\ \A e \in Clients : CallOK(api'[e])
  <2>1. lock' = lock \/ lock' = [lock EXCEPT ![api[c].id] = c]
    BY <1>5 DEF LocksGateway, UpdateGatewayRow
  <2>2. api' = api \/ api' = [api EXCEPT ![c] = Idle]
    BY <1>5 DEF LocksGateway, UpdateGatewayRow, Done
  <2>3. CallOK(Idle)
    BY DEF CallOK
  <2>4. lock' \in [Gateways -> Clients \cup {None}]
    BY <1>0, <2>1
  <2> QED
    BY <1>0, <1>2, <2>2, <2>3, <2>4
<1>6. ASSUME NEW c \in Clients, FlushNextGatewayMeta(c)
      PROVE  /\ lock' \in [Gateways -> Clients \cup {None}]
             /\ api' = [e \in Clients |-> api'[e]] /\ \A e \in Clients : CallOK(api'[e])
  <2>1. PICK g \in api[c].todo : api' = [api EXCEPT ![c].todo = api[c].todo \ {g}]
    BY <1>6 DEF FlushNextGatewayMeta
  <2> DEFINE x == api[c]
             y == [x EXCEPT !.todo = x.todo \ {g}]
  <2>2. x \in CallRecord /\ CallOK(x)
    BY <1>0, <1>6 DEF FlushNextGatewayMeta, CallOK
  <2>3. api' = [api EXCEPT ![c] = y]
    BY <1>0, <2>1
  <2> HIDE DEF x
  <2>4. y \in CallRecord /\ y.op = x.op /\ y.id = x.id /\ y.row = x.row
    BY <2>2 DEF CallRecord
  <2>5. x.op # "idle"
    BY <2>2 DEF CallRecord, GatewayCalls, ServiceProfileCalls, DeviceProfileCalls
  <2> HIDE DEF y
  <2>6. CallOK(y)
    BY <2>2, <2>4, <2>5 DEF CallOK, Idle
  <2>7. lock' = lock
    BY <1>6 DEF FlushNextGatewayMeta
  <2> QED
    BY <1>0, <1>2, <2>3, <2>6, <2>7
<1> QED
  BY <1>1, <1>3, <1>4, <1>5, <1>6, CallsChange

\* API calls do not move the clock, and stamp gateway-profiles only.
LEMMA ApiFrame ==
    ASSUME NEW c \in Clients,
           \/ ServiceProfileAPI(c) \/ DeviceProfileAPI(c) \/ RoutingProfileAPI(c)
           \/ GatewayProfileAPI(c) \/ GatewayAPI(c)
    PROVE  /\ UNCHANGED <<faults, conf, second>>
           /\ UNCHANGED <<used, clash>> \/ \E p \in GatewayProfiles : Stamp(p)
           /\ changes' = changes \/ (changes < MaxChanges /\ changes' = changes + 1)
<1> USE DEF ghosts, Starts, Begin
<1>1. CASE ServiceProfileAPI(c)
  BY <1>1 DEF ServiceProfileAPI, CreateServiceProfile, UpdateServiceProfile,
     DeleteServiceProfile, FlushNextGatewayMeta, FlushServiceProfileCache, AtOnce
<1>2. CASE DeviceProfileAPI(c)
  BY <1>2 DEF DeviceProfileAPI, CreateDeviceProfile, UpdateDeviceProfile, DeleteDeviceProfile, AtOnce
<1>3. CASE RoutingProfileAPI(c)
  BY <1>3 DEF RoutingProfileAPI, CreateRoutingProfile, UpdateRoutingProfile, DeleteRoutingProfile, AtOnce
<1>4. CASE GatewayProfileAPI(c)
  BY <1>4 DEF GatewayProfileAPI, CreateGatewayProfile, UpdateGatewayProfile, DeleteGatewayProfile,
     InsertGatewayProfile, UpdateGatewayProfileRow, AtOnce
<1>5. CASE GatewayAPI(c)
  BY <1>5 DEF GatewayAPI, CreateGateway, UpdateGateway, GenerateGatewayClientCertificate,
     DeleteGateway, CommitGateway, AtOnce
<1> QED
  BY <1>1, <1>2, <1>3, <1>4, <1>5

\* The bounds, the clock and the profiles written in this second
LEMMA ScalarsStep ==
    ASSUME IInv, Next
    PROVE  /\ changes' \in 0 .. MaxChanges /\ faults' \in 0 .. MaxFaults
           /\ second' \in Nat /\ used' \subseteq GatewayProfiles /\ clash' \in BOOLEAN
<1> USE DEF ghosts
<1>0. /\ changes \in 0 .. MaxChanges /\ faults \in 0 .. MaxFaults /\ second \in Nat
      /\ used \subseteq GatewayProfiles /\ clash \in BOOLEAN /\ MaxChanges \in Nat /\ MaxFaults \in Nat
  BY Constants DEF IInv, ProgressTyped
<1>1. changes' = changes \/ (changes < MaxChanges /\ changes' = changes + 1)
  <2>1. ASSUME NEW h \in Handlers, Uplink(h) \/ Stats(h) PROVE UNCHANGED changes
    BY <2>1, ReaderSteps DEF Stats, Caches, GetAndCache, HandleStats, FlushGatewayState, SelectGatewayProfile,
       HandleGatewayConfigurationUpdate, ForwardGatewayStats, StatsBreakOff
  <2> QED
    BY <2>1, ApiFrame DEF Next, Tick, BreakOff
<1>2. faults' = faults \/ (faults < MaxFaults /\ faults' = faults + 1)
  <2>1. ASSUME NEW h \in Handlers, Uplink(h) \/ Stats(h)
        PROVE  faults' = faults \/ (faults < MaxFaults /\ faults' = faults + 1)
    BY <2>1, ReaderSteps DEF Stats, Caches, GetAndCache, HandleStats, FlushGatewayState, SelectGatewayProfile,
       HandleGatewayConfigurationUpdate, ForwardGatewayStats, StatsBreakOff
  <2> QED
    BY <2>1, ApiFrame DEF Next, Tick, BreakOff
<1>3. \/ UNCHANGED <<second, used, clash>> \/ Tick
      \/ (second' = second /\ \E p \in GatewayProfiles : Stamp(p))
  <2>1. ASSUME NEW h \in Handlers, Uplink(h) \/ Stats(h) PROVE UNCHANGED <<second, used, clash>>
    BY <2>1, ReaderSteps DEF Stats, Caches, GetAndCache, HandleStats, FlushGatewayState, SelectGatewayProfile,
       HandleGatewayConfigurationUpdate, ForwardGatewayStats, StatsBreakOff
  <2> QED
    BY <2>1, ApiFrame DEF Next, BreakOff
<1>4. second' \in Nat
  <2>1. second' = second \/ second' = second + 1
    BY <1>3 DEF Tick
  <2> QED
    BY <1>0, <2>1
<1>5. used' \subseteq GatewayProfiles /\ clash' \in BOOLEAN
  <2>1. CASE UNCHANGED <<second, used, clash>> \/ Tick
    BY <1>0, <2>1 DEF Tick
  <2>2. ASSUME NEW p \in GatewayProfiles, Stamp(p) PROVE used' \subseteq GatewayProfiles /\ clash' \in BOOLEAN
    BY <1>0, <2>2 DEF Stamp
  <2> QED
    BY <1>3, <2>1, <2>2
<1> QED
  BY <1>0, <1>1, <1>2, <1>4, <1>5

\* Calls, handlers and bounds have their types.
LEMMA ProgressStep ==
    ASSUME IInv, Next
    PROVE  ProgressTyped'
<1>1. \A c \in Clients : CallOK(api[c])'
  BY CallsStep DEF CallOK, Idle
<1>2. \A h \in Handlers : HandlerOK(hnd[h])'
  <2>1. \A h \in Handlers : HandlerOK(hnd'[h])
    BY HandlersStep
  <2> QED
    BY <2>1 DEF HandlerOK
<1> QED
  BY <1>1, <1>2, CallsStep, HandlersStep, ScalarsStep DEF ProgressTyped

-----------------------------------------------------------------------------
(* The steps, once more, by what they do to rows and copies *)

ServiceProfileFlushed(c) ==
    /\ \E op \in ServiceProfileCalls, s \in ServiceProfiles :
          \E row : FlushServiceProfileCache(c, op, s, row)
    /\ UNCHANGED <<rows, lock, conf, second, ghosts, faults>>
DeviceProfileFlushed(c) ==
    /\ \E op \in DeviceProfileCalls, d \in DeviceProfiles :
          FlushDeviceProfileCache(d) /\ \E row : Begin(c, Call(op, d, row, {}))
    /\ UNCHANGED <<rows, lock, conf, second, ghosts, faults>>
CallBegins(c) ==
    /\ \E op \in GatewayCalls \cup {"updateRoutingProfile"} :
          \E id, row : Begin(c, Call(op, id, row, {}))
    /\ UNCHANGED <<rows, cache, lock, conf, second, ghosts, faults>>
DeleteGatewayEnds(c) ==
    /\ api[c].op = "deleteGateway"
    /\ FlushGatewayMetaCache(api[c].id)
    /\ Done(c)
    /\ UNCHANGED <<rows, lock, hnd, conf, second, ghosts, changes, faults>>

ApiStep(c) ==
    \/ CreateProfile(c) \/ WriteGatewayProfile(c) \/ DeleteRoutingProfile(c) \/ CreateGateway(c)
    \/ ServiceProfileFlushed(c) \/ DeviceProfileFlushed(c) \/ CallBegins(c)
    \/ DeleteGatewayBegins(c) \/ DeleteGatewayEnds(c) \/ UpdateEnds(c)
    \/ LocksGateway(c) \/ CommitGateway(c) \/ FlushNextGatewayMeta(c) \/ BreakOff(c)

\* Every step is one of these.
LEMMA StepsOK ==
    ASSUME IInv, Next
    PROVE  (\E c \in Clients : ApiStep(c)) \/ (\E h \in Handlers : HandlerStep(h)) \/ Tick
<1> USE DEF ghosts
<1>1. ASSUME NEW c \in Clients, ServiceProfileAPI(c)
      PROVE  CreateProfile(c) \/ ServiceProfileFlushed(c) \/ UpdateEnds(c) \/ FlushNextGatewayMeta(c)
  BY <1>1 DEF ServiceProfileAPI, UpdateServiceProfile, DeleteServiceProfile, ServiceProfileFlushed,
       ServiceProfileCalls, CreateProfile, UpdateEnds, UpdateServiceProfileEnds, DeleteServiceProfileEnds
<1>2. ASSUME NEW c \in Clients, DeviceProfileAPI(c)
      PROVE  CreateProfile(c) \/ DeviceProfileFlushed(c) \/ UpdateEnds(c)
  BY <1>2 DEF DeviceProfileAPI, UpdateDeviceProfile, DeleteDeviceProfile, DeviceProfileCalls,
       DeviceProfileFlushed, CreateProfile, UpdateEnds, DeviceProfileEnds, UpdateDeviceProfileRow,
       DeleteDeviceProfileRow
<1>3. ASSUME NEW c \in Clients, RoutingProfileAPI(c)
      PROVE  CreateProfile(c) \/ CallBegins(c) \/ UpdateEnds(c) \/ DeleteRoutingProfile(c)
  BY <1>3 DEF RoutingProfileAPI, UpdateRoutingProfile, CreateProfile, CallBegins, UpdateEnds,
       UpdateRoutingProfileEnds
<1>4. ASSUME NEW c \in Clients, GatewayProfileAPI(c) PROVE WriteGatewayProfile(c)
  BY <1>4 DEF GatewayProfileAPI, WriteGatewayProfile
<1>5. ASSUME NEW c \in Clients, GatewayAPI(c)
      PROVE  \/ CreateGateway(c) \/ CallBegins(c) \/ LocksGateway(c) \/ CommitGateway(c)
             \/ DeleteGatewayBegins(c) \/ DeleteGatewayEnds(c)
  BY <1>5 DEF GatewayAPI, UpdateGateway, GenerateGatewayClientCertificate, DeleteGateway, GatewayCalls,
       CallBegins, LocksGateway, DeleteGatewayBegins, DeleteGatewayEnds
<1>6. ASSUME NEW h \in Handlers, Uplink(h) \/ Stats(h) PROVE HandlerStep(h)
  BY <1>6, ReaderSteps DEF Stats, HandlerStep
<1> QED
  BY <1>1, <1>2, <1>3, <1>4, <1>5, <1>6 DEF Next, ApiStep

\* The copy of a key stays as it is, is removed, or is excused.
Fades(k) ==
    \/ cache'[k] = cache[k] \/ cache'[k] = None
    \/ cache[k] # None /\ cache'[k] = [cache[k] EXCEPT !.excused = TRUE]

\* API calls make no copies.
LEMMA ApiFades ==
    ASSUME IInv, NEW c \in Clients, ApiStep(c)
    PROVE  cache' = [k \in Keys |-> cache'[k]] /\ \A k \in Keys : Fades(k)
<1>0. cache = [k \in Keys |-> cache[k]]
  BY DEF IInv, CacheTyped
<1>1. CASE UNCHANGED cache
  BY <1>0, <1>1 DEF Fades
<1>2. ASSUME NEW ks, cache' = Flush(ks)
      PROVE  cache' = [k \in Keys |-> cache'[k]] /\ \A k \in Keys : Fades(k)
  BY <1>2 DEF Fades, Flush
<1>3. CASE CreateProfile(c) \/ WriteGatewayProfile(c) \/ CreateGateway(c)
  BY <1>1, <1>3 DEF CreateProfile, WriteGatewayProfile, CreateGateway, CreateServiceProfile,
     CreateDeviceProfile, CreateRoutingProfile, CreateGatewayProfile, UpdateGatewayProfile, DeleteGatewayProfile
<1>4. CASE DeleteRoutingProfile(c)
  BY <1>4 DEF DeleteRoutingProfile, Fades
<1>5. CASE ServiceProfileFlushed(c) \/ DeviceProfileFlushed(c)
  BY <1>2, <1>5 DEF ServiceProfileFlushed, FlushServiceProfileCache, DeviceProfileFlushed, FlushDeviceProfileCache
<1>6. CASE CallBegins(c) \/ DeleteGatewayBegins(c) \/ UpdateEnds(c) \/ CommitGateway(c)
  BY <1>1, <1>6 DEF CallBegins, DeleteGatewayBegins, UpdateEnds, CommitGateway
<1>7. CASE DeleteGatewayEnds(c) \/ LocksGateway(c) \/ FlushNextGatewayMeta(c)
  BY <1>1, <1>2, <1>7 DEF DeleteGatewayEnds, LocksGateway, UpdateGatewayRow, FlushNextGatewayMeta, FlushGatewayMetaCache
<1>8. CASE BreakOff(c)
  BY <1>8 DEF BreakOff, Fades
<1> QED
  BY <1>3, <1>4, <1>5, <1>6, <1>7, <1>8 DEF ApiStep

\* Handlers make copies only when they cache a row.
LEMMA HandlerFades ==
    ASSUME IInv, NEW h \in Handlers, HandlerStep(h), ~Caches(h)
    PROVE  cache' = [k \in Keys |-> cache'[k]] /\ \A k \in Keys : Fades(k)
<1>0. cache = [k \in Keys |-> cache[k]]
  BY DEF IInv, CacheTyped
<1>1. CASE UNCHANGED cache
  BY <1>0, <1>1 DEF Fades
<1>2. CASE FlushGatewayState(h)
  BY <1>2 DEF FlushGatewayState, FlushGatewayMetaCache, Flush, Fades
<1>3. CASE StatsBreakOff(h)
  <2>1. cache' = [cache EXCEPT ![hnd[h].key] = IF cache[hnd[h].key] = None THEN None
                                               ELSE [cache[hnd[h].key] EXCEPT !.excused = TRUE]]
    BY <1>0, <1>3 DEF StatsBreakOff
  <2> QED
    BY <1>0, <2>1 DEF Fades
<1>4. CASE ~FlushGatewayState(h) /\ ~StatsBreakOff(h)
  BY <1>1, <1>4, GetAndCacheOK DEF HandlerStep, HandleStats, SelectGatewayProfile,
     HandleGatewayConfigurationUpdate, ForwardGatewayStats
<1> QED
  BY <1>2, <1>3, <1>4

\* A copy that fades is still a copy, and no older.
LEMMA FadesOK ==
    ASSUME IInv, NEW k \in Keys, Fades(k)
    PROVE  /\ CopyOK(k, cache'[k])
           /\ Clean(k) => Clean(k)'
           /\ ~Clean(k)' => cache'[k].val = cache[k].val /\ ~Clean(k)
<1> DEFINE x == cache[k]
           y == [x EXCEPT !.excused = TRUE]
<1>1. CopyOK(k, x)
  BY DEF IInv, CacheTyped
<1>2. cache'[k] = x \/ cache'[k] = None \/ (x # None /\ cache'[k] = y)
  BY DEF Fades
<1>3. CASE cache'[k] = x \/ cache'[k] = None
  BY <1>1, <1>3 DEF CopyOK, Clean
<1>4. CASE x # None /\ cache'[k] = y
  <2> HIDE DEF x
  <2>1. x \in [val : Contents, ttl : 1 .. TTL, stale : Nat, excused : BOOLEAN]
    BY <1>1, <1>4 DEF CopyOK
  <2>2. /\ y \in [val : Contents, ttl : 1 .. TTL, stale : Nat, excused : BOOLEAN]
        /\ y.val = x.val /\ y.ttl = x.ttl /\ y.stale = x.stale /\ y.excused = TRUE
    BY <2>1
  <2> HIDE DEF y
  <2>3. CopyOK(k, y)
    BY <1>1, <1>4, <2>2 DEF CopyOK
  <2> QED
    BY <1>4, <2>2, <2>3 DEF Clean
<1> QED
  BY <1>2, <1>3, <1>4

\* The copy of a row that was held for at most Hold ticks
LEMMA SetOK ==
    ASSUME IInv, NEW h \in Handlers, hnd[h] # Idle, hnd[h].at = "set"
    PROVE  LET x == Copy(hnd[h].val, hnd[h].stale, hnd[h].excused) IN
           /\ hnd[h].key \in Keys /\ CopyOK(hnd[h].key, x)
           /\ x.val = hnd[h].val /\ x.excused = hnd[h].excused
<1> DEFINE y == hnd[h]
           x == Copy(y.val, y.stale, y.excused)
<1>1. y \in HandlerRecord /\ y.val \in RowSet(y.key) /\ y.stale <= y.held /\ y.held <= Hold
  BY DEF IInv, ProgressTyped, HandlerOK
<1>2. y.key \in Keys /\ y.val \in Contents /\ y.stale \in Nat /\ y.held \in Nat /\ y.excused \in BOOLEAN
  BY <1>1 DEF HandlerRecord
<1> HIDE DEF y
<1>3. TTL \in 1 .. TTL /\ TTL \in Nat /\ Hold \in Nat
  BY Constants
<1>4. y.stale + TTL <= TTL + Hold
  BY <1>1, <1>2, <1>3
<1>5. /\ x \in [val : Contents, ttl : 1 .. TTL, stale : Nat, excused : BOOLEAN]
      /\ x.val = y.val /\ x.ttl = TTL /\ x.stale = y.stale /\ x.excused = y.excused
  BY <1>2, <1>3 DEF Copy
<1> HIDE DEF x
<1>6. CopyOK(y.key, x)
  BY <1>1, <1>4, <1>5 DEF CopyOK
<1> QED
  BY <1>2, <1>5, <1>6 DEF x, y

\* A tick: what a copy gains in staleness it loses in time to live.
LEMMA AgeOK ==
    ASSUME IInv, NEW k \in Keys
    PROVE  CopyOK(k, Age(k)) /\ (Age(k) # None => /\ cache[k] # None /\ Age(k).val = cache[k].val
                                                  /\ Age(k).excused = cache[k].excused)
<1> DEFINE x == cache[k]
           t == IF x.val = View(k) THEN 0 ELSE x.stale + 1
           y == [x EXCEPT !.ttl = x.ttl - 1, !.stale = t]
<1>1. CopyOK(k, x)
  BY DEF IInv, CacheTyped
<1>2. CASE x = None \/ x.ttl = 1
  BY <1>2 DEF Age, CopyOK
<1>3. CASE x # None /\ x.ttl # 1
  <2>1. /\ x \in [val : Contents, ttl : 1 .. TTL, stale : Nat, excused : BOOLEAN]
        /\ x.val \in RowSet(k) /\ x.stale + x.ttl <= TTL + Hold
    BY <1>1, <1>3 DEF CopyOK
  <2>2. Age(k) = y
    BY <1>3, <2>1 DEF Age
  <2> HIDE DEF x
  <2>3. x.ttl \in 1 .. TTL /\ x.stale \in Nat /\ TTL \in Nat /\ Hold \in Nat
    BY <2>1, Constants
  <2>4. t \in Nat /\ x.ttl - 1 \in 1 .. TTL /\ t + (x.ttl - 1) <= TTL + Hold
    BY <1>3, <2>1, <2>3
  <2> HIDE DEF t
  <2>5. /\ y \in [val : Contents, ttl : 1 .. TTL, stale : Nat, excused : BOOLEAN]
        /\ y.val = x.val /\ y.ttl = x.ttl - 1 /\ y.stale = t /\ y.excused = x.excused
    BY <2>1, <2>4
  <2> HIDE DEF y
  <2>6. CopyOK(k, y)
    BY <2>1, <2>4, <2>5 DEF CopyOK
  <2> QED
    BY <1>3, <2>2, <2>5, <2>6 DEF x
<1> QED
  BY <1>2, <1>3

\* The copies have their types, and age as they should.
LEMMA CacheStep ==
    ASSUME IInv, Next
    PROVE  CacheTyped'
<1>0. cache = [k \in Keys |-> cache[k]] /\ \A k \in Keys : CopyOK(k, cache[k])
  BY DEF IInv, CacheTyped
<1>1. SUFFICES cache' = [k \in Keys |-> cache'[k]] /\ \A k \in Keys : CopyOK(k, cache'[k])
  BY DEF CacheTyped, CopyOK, RowSet
<1>2. ASSUME NEW c \in Clients, ApiStep(c)
      PROVE  cache' = [k \in Keys |-> cache'[k]] /\ \A k \in Keys : CopyOK(k, cache'[k])
  BY <1>2, ApiFades, FadesOK
<1>3. ASSUME NEW h \in Handlers, HandlerStep(h)
      PROVE  cache' = [k \in Keys |-> cache'[k]] /\ \A k \in Keys : CopyOK(k, cache'[k])
  <2>1. CASE Caches(h)
    <3>1. /\ cache' = cache \/ cache' = [cache EXCEPT ![hnd[h].key] = Copy(hnd[h].val, hnd[h].stale, hnd[h].excused)]
          /\ hnd[h] # Idle /\ hnd[h].at = "set"
      BY <2>1 DEF Caches, Set
    <3> QED
      BY <1>0, <3>1, SetOK
  <2>2. CASE ~Caches(h)
    BY <1>3, <2>2, HandlerFades, FadesOK
  <2> QED
    BY <2>1, <2>2
<1>4. CASE Tick
  <2>1. cache' = [k \in Keys |-> Age(k)]
    BY <1>4 DEF Tick
  <2> QED
    BY <2>1, AgeOK
<1> QED
  BY <1>2, <1>3, <1>4, StepsOK

-----------------------------------------------------------------------------
(* References *)

\* The rows that a gateway row refers to are in the tables.
Refs(row, sps, gps, rps) ==
    /\ row.serviceProfileID # None => sps[row.serviceProfileID] # None
    /\ row.gatewayProfileID # None => gps[row.gatewayProfileID] # None
    /\ rps[row.routingProfileID] # None

\* References are kept when what they refer to is.
LEMMA RefsKept ==
    ASSUME NEW row \in GatewayRow, NEW sps, NEW gps, NEW rps, NEW sps2, NEW gps2, NEW rps2,
           Refs(row, sps, gps, rps),
           \A s \in ServiceProfiles : sps[s] # None /\ row.serviceProfileID = s => sps2[s] # None,
           \A p \in GatewayProfiles : gps[p] # None /\ row.gatewayProfileID = p => gps2[p] # None,
           \A r \in RoutingProfiles : rps[r] # None /\ row.routingProfileID = r => rps2[r] # None
    PROVE  Refs(row, sps2, gps2, rps2)
<1>1. /\ row.serviceProfileID \in ServiceProfiles \cup {None}
      /\ row.gatewayProfileID \in GatewayProfiles \cup {None}
      /\ row.routingProfileID \in RoutingProfiles
  BY DEF GatewayRow
<1> QED
  BY <1>1 DEF Refs

\* The holder of a lock is a call on that gateway.
LEMMA LockHeld ==
    ASSUME IInv, NEW g \in Gateways, lock[g] # None
    PROVE  /\ lock[g] \in Clients /\ api[lock[g]].op \in GatewayCalls /\ api[lock[g]].id = g
           /\ api[lock[g]] # Idle /\ api[lock[g]].row \in GatewayRow
           /\ Refs(api[lock[g]].row, serviceProfile, gatewayProfile, routingProfile)
<1>1. lock[g] \in Clients /\ api[lock[g]].op \in GatewayCalls /\ api[lock[g]].id = g
          /\ ForeignKeys(api[lock[g]].row) /\ CallOK(api[lock[g]])
  BY DEF IInv, ProgressTyped, RefInv
<1> QED
  BY <1>1 DEF CallOK, Idle, GatewayCalls, ForeignKeys, Refs

\* A lock is kept by the call that holds it, until it ends; it is taken for a
\* row whose references exist.
LEMMA LocksKept ==
    ASSUME IInv, Next, NEW g \in Gateways, lock'[g] # None
    PROVE  /\ lock'[g] \in Clients /\ api'[lock'[g]].op \in GatewayCalls /\ api'[lock'[g]].id = g
           /\ \/ lock[g] = lock'[g] /\ api'[lock'[g]].row = api[lock[g]].row
              \/ /\ Refs(api'[lock'[g]].row, serviceProfile, gatewayProfile, routingProfile)
                 /\ api'[lock'[g]].row \in GatewayRow
                 /\ UNCHANGED rows
<1>0. /\ lock \in [Gateways -> Clients \cup {None}] /\ lock' \in [Gateways -> Clients \cup {None}]
      /\ api = [c \in Clients |-> api[c]] /\ \A c \in Clients : CallOK(api[c])
  BY CallsStep DEF IInv, ProgressTyped
<1>1. CASE UNCHANGED <<api, lock>>
  BY <1>1, LockHeld
<1>2. ASSUME NEW c \in Clients, ApiStep(c)
      PROVE  /\ lock'[g] \in Clients /\ api'[lock'[g]].op \in GatewayCalls /\ api'[lock'[g]].id = g
             /\ \/ lock[g] = lock'[g] /\ api'[lock'[g]].row = api[lock[g]].row
                \/ /\ Refs(api'[lock'[g]].row, serviceProfile, gatewayProfile, routingProfile)
                   /\ api'[lock'[g]].row \in GatewayRow
                   /\ UNCHANGED rows
  <2>1. ASSUME lock'[g] = lock[g], lock[g] # c, NEW x, api' = [api EXCEPT ![c] = x]
        PROVE  /\ lock'[g] \in Clients /\ api'[lock'[g]].op \in GatewayCalls /\ api'[lock'[g]].id = g
               /\ lock[g] = lock'[g] /\ api'[lock'[g]].row = api[lock[g]].row
    BY <1>0, <2>1, LockHeld
  <2>2. CASE CreateProfile(c) \/ WriteGatewayProfile(c) \/ DeleteRoutingProfile(c) \/ CreateGateway(c)
    BY <1>1, <2>2 DEF CreateProfile, WriteGatewayProfile, DeleteRoutingProfile, CreateGateway,
       CreateServiceProfile, CreateDeviceProfile, CreateRoutingProfile, CreateGatewayProfile,
       UpdateGatewayProfile, DeleteGatewayProfile, AtOnce
  <2>3. CASE ServiceProfileFlushed(c) \/ DeviceProfileFlushed(c) \/ CallBegins(c) \/ DeleteGatewayBegins(c)
    <3>1. lock' = lock /\ api[c] = Idle /\ \E x : api' = [api EXCEPT ![c] = x]
      BY <2>3 DEF ServiceProfileFlushed, FlushServiceProfileCache, DeviceProfileFlushed, CallBegins,
         DeleteGatewayBegins, Begin, Starts
    <3> QED
      BY <2>1, <3>1, LockHeld
  <2>4. CASE DeleteGatewayEnds(c) \/ UpdateEnds(c)
    <3>1. lock' = lock /\ api' = [api EXCEPT ![c] = Idle] /\ api[c].op \notin GatewayCalls
      BY <2>4 DEF DeleteGatewayEnds, UpdateEnds, UpdateServiceProfileEnds, DeleteServiceProfileEnds,
         DeviceProfileEnds, UpdateRoutingProfileEnds, Done, GatewayCalls, DeviceProfileCalls
    <3> QED
      BY <2>1, <3>1, LockHeld
  <2>5. CASE LocksGateway(c)
    <3> DEFINE f == api[c].id
    <3>1. api[c].op \in GatewayCalls /\ lock[f] = None /\ UNCHANGED rows
      BY <2>5 DEF LocksGateway, UpdateGatewayRow, Unlocked
    <3>2. CASE api' = api /\ lock' = [lock EXCEPT ![f] = c] /\ ForeignKeys(api[c].row)
      <4>1. CASE g = f
        <5>1. lock'[g] = c
          BY <1>0, <3>2, <4>1
        <5>2. api[c].row \in GatewayRow
          BY <1>0, <3>1 DEF CallOK, GatewayCalls, Idle
        <5> QED
          BY <3>1, <3>2, <4>1, <5>1, <5>2 DEF ForeignKeys, Refs
      <4>2. CASE g # f
        BY <1>0, <3>2, <4>2, LockHeld
      <4> QED
        BY <4>1, <4>2
    <3>3. CASE api' = [api EXCEPT ![c] = Idle] /\ lock' = lock
      <4>1. lock[g] # c
        BY <3>1, <3>3, LockHeld
      <4> QED
        BY <2>1, <3>3, <4>1
    <3> QED
      BY <2>5, <3>2, <3>3 DEF LocksGateway, UpdateGatewayRow, Done
  <2>6. CASE CommitGateway(c)
    <3>1. lock' = [lock EXCEPT ![api[c].id] = None] /\ api' = [api EXCEPT ![c] = Idle]
      BY <2>6 DEF CommitGateway, Done
    <3>2. lock[g] = lock'[g] /\ g # api[c].id
      BY <1>0, <3>1
    <3>3. lock[g] # c
      BY <3>2, LockHeld
    <3> QED
      BY <2>1, <3>1, <3>2, <3>3
  <2>7. CASE FlushNextGatewayMeta(c)
    <3>1. lock' = lock /\ api[c] # Idle
      BY <2>7 DEF FlushNextGatewayMeta
    <3>2. PICK f \in api[c].todo : api' = [api EXCEPT ![c].todo = api[c].todo \ {f}]
      BY <2>7 DEF FlushNextGatewayMeta
    <3>3. api[c] \in CallRecord
      BY <1>0, <3>1 DEF CallOK
    <3>4. api'[c].op = api[c].op /\ api'[c].id = api[c].id /\ api'[c].row = api[c].row
      BY <1>0, <3>2, <3>3 DEF CallRecord
    <3>5. \A e \in Clients : e # c => api'[e] = api[e]
      BY <1>0, <3>2
    <3> QED
      BY <3>1, <3>4, <3>5, LockHeld
  <2>8. CASE BreakOff(c)
    <3>1. api' = [api EXCEPT ![c] = Idle] /\ lock'[g] = lock[g] /\ lock[g] # c
      BY <2>8 DEF BreakOff, Done
    <3> QED
      BY <2>1, <3>1
  <2> QED
    BY <1>2, <2>2, <2>3, <2>4, <2>5, <2>6, <2>7, <2>8 DEF ApiStep
<1>3. ASSUME NEW h \in Handlers, HandlerStep(h) PROVE UNCHANGED <<api, lock>>
  BY <1>3 DEF HandlerStep, Caches, GetAndCache, HandleStats, FlushGatewayState, SelectGatewayProfile,
     HandleGatewayConfigurationUpdate, ForwardGatewayStats, StatsBreakOff
<1>4. CASE Tick
  BY <1>1, <1>4 DEF Tick
<1> QED
  BY <1>1, <1>2, <1>3, <1>4, StepsOK

\* No profile is deleted.
ProfilesStay ==
    /\ \A s \in ServiceProfiles : serviceProfile[s] # None => serviceProfile'[s] # None
    /\ \A p \in GatewayProfiles : gatewayProfile[p] # None => gatewayProfile'[p] # None
    /\ \A r \in RoutingProfiles : routingProfile[r] # None => routingProfile'[r] # None

\* Gateways refer to what they did, or to profiles that exist.
RefersWell(g) ==
    \/ gateway'[g] = gateway[g] \/ gateway'[g] = None
    \/ Refs(gateway'[g], serviceProfile, gatewayProfile, routingProfile)

\* Steps that delete no profile
LEMMA StaysOK ==
    ASSUME IInv, Next
    PROVE  \/ ProfilesStay /\ \A g \in Gateways : RefersWell(g)
           \/ \E c \in Clients : \/ UpdateEnds(c) /\ DeleteServiceProfileEnds(c)
                                 \/ DeleteRoutingProfile(c) \/ DeleteGatewayProfile(c)
<1> USE DEF Put
<1>0. RowsTyped /\ RefInv /\ second \in Nat
  BY DEF IInv, ProgressTyped
<1>1. CASE UNCHANGED rows
  BY <1>1 DEF rows, ProfilesStay, RefersWell
<1>2. ASSUME NEW c \in Clients, CreateProfile(c) PROVE ProfilesStay /\ \A g \in Gateways : RefersWell(g)
  BY <1>0, <1>2, Constants DEF CreateProfile, CreateServiceProfile, CreateDeviceProfile, CreateRoutingProfile,
     InsertServiceProfile, InsertDeviceProfile, InsertRoutingProfile, RowsTyped, ProfilesStay, RefersWell
<1>3. ASSUME NEW c \in Clients, CreateGatewayProfile(c) \/ UpdateGatewayProfile(c)
      PROVE  ProfilesStay /\ \A g \in Gateways : RefersWell(g)
  <2>1. \A v \in Values : [channels |-> v, extraChannels |-> v, updatedAt |-> second] # None
    BY <1>0, Constants DEF GatewayProfileRow
  <2> QED
    BY <1>0, <1>3, <2>1 DEF CreateGatewayProfile, UpdateGatewayProfile, InsertGatewayProfile,
       UpdateGatewayProfileRow, RowsTyped, ProfilesStay, RefersWell
<1>4. ASSUME NEW c \in Clients, CreateGateway(c) PROVE ProfilesStay /\ \A g \in Gateways : RefersWell(g)
  BY <1>0, <1>4 DEF CreateGateway, InsertGateway, ForeignKeys, Refs, RowsTyped, ProfilesStay, RefersWell
<1>5. ASSUME NEW c \in Clients, UpdateEnds(c), ~DeleteServiceProfileEnds(c)
      PROVE  ProfilesStay /\ \A g \in Gateways : RefersWell(g)
  <2>1. CallOK(api[c])
    BY DEF IInv, ProgressTyped
  <2>2. CASE UpdateServiceProfileEnds(c)
    <3>1. api[c].row # None
      BY <2>1, <2>2, Constants DEF UpdateServiceProfileEnds, CallOK, Idle
    <3> QED
      BY <1>0, <2>2, <3>1 DEF UpdateServiceProfileEnds, UpdateServiceProfileRow, RowsTyped, ProfilesStay, RefersWell
  <2>3. CASE DeviceProfileEnds(c)
    BY <2>3 DEF DeviceProfileEnds, ProfilesStay, RefersWell
  <2>4. CASE UpdateRoutingProfileEnds(c)
    <3>1. api[c].row # None
      BY <2>1, <2>4, Constants DEF UpdateRoutingProfileEnds, CallOK, Idle
    <3> QED
      BY <1>0, <2>4, <3>1 DEF UpdateRoutingProfileEnds, UpdateRoutingProfileRow, RowsTyped, ProfilesStay, RefersWell
  <2> QED
    BY <1>5, <2>2, <2>3, <2>4 DEF UpdateEnds
<1>6. ASSUME NEW c \in Clients, CommitGateway(c) PROVE ProfilesStay /\ \A g \in Gateways : RefersWell(g)
  <2>1. api[c].id \in Gateways
    BY <1>6 DEF IInv, ProgressTyped, CallOK, Idle, GatewayCalls, CommitGateway
  <2>2. lock[api[c].id] = c
    BY <1>6 DEF CommitGateway
  <2>3. Refs(api[c].row, serviceProfile, gatewayProfile, routingProfile)
    BY <2>1, <2>2, LockHeld, Constants
  <2> QED
    BY <1>0, <1>6, <2>3 DEF CommitGateway, RowsTyped, ProfilesStay, RefersWell
<1>7. ASSUME NEW c \in Clients, DeleteGatewayBegins(c) PROVE ProfilesStay /\ \A g \in Gateways : RefersWell(g)
  BY <1>0, <1>7 DEF DeleteGatewayBegins, DeleteGatewayRow, RowsTyped, ProfilesStay, RefersWell
<1>8. ASSUME NEW h \in Handlers, HandleStats(h) PROVE ProfilesStay /\ \A g \in Gateways : RefersWell(g)
  <2>1. PICK g \in Gateways : /\ gateway[g] # None
                              /\ \A f \in Gateways : f # g => gateway'[f] = gateway[f]
                              /\ \A f \in {"serviceProfileID", "gatewayProfileID", "routingProfileID"} :
                                     gateway'[g][f] = gateway[g][f]
    BY <1>8, StatsOK
  <2>2. ForeignKeys(gateway[g])
    BY <1>0, <2>1 DEF RefInv
  <2>3. RefersWell(g)
    BY <2>1, <2>2 DEF RefersWell, Refs, ForeignKeys
  <2> QED
    BY <1>8, <2>1, <2>3 DEF HandleStats, ProfilesStay, RefersWell
<1>9. ASSUME NEW c \in Clients, WriteGatewayProfile(c), ~DeleteGatewayProfile(c)
      PROVE  ProfilesStay /\ \A g \in Gateways : RefersWell(g)
  BY <1>3, <1>9 DEF WriteGatewayProfile
<1> QED
  BY <1>1, <1>2, <1>4, <1>5, <1>6, <1>7, <1>8, <1>9, RowsChange

\* A profile is deleted with the gateways that refer to it, or not at all
\* while a gateway, or a transaction, refers to it.
LEMMA DeletesOK ==
    ASSUME IInv, NEW c \in Clients,
           \/ UpdateEnds(c) /\ DeleteServiceProfileEnds(c)
           \/ DeleteRoutingProfile(c) \/ DeleteGatewayProfile(c)
    PROVE  /\ \A g \in Gateways : gateway'[g] # None =>
                  /\ gateway'[g] = gateway[g]
                  /\ Refs(gateway'[g], serviceProfile', gatewayProfile', routingProfile')
           /\ \A g \in Gateways : lock[g] # None =>
                  Refs(api[lock[g]].row, serviceProfile', gatewayProfile', routingProfile')
<1> USE DEF Put
<1>0. RowsTyped /\ RefInv
  BY DEF IInv
<1>1. ASSUME NEW g \in Gateways, gateway[g] # None
      PROVE  gateway[g] \in GatewayRow /\ Refs(gateway[g], serviceProfile, gatewayProfile, routingProfile)
  BY <1>0, <1>1 DEF RowsTyped, RefInv, ForeignKeys, Refs
<1>2. \A g \in Gateways : lock[g] # None =>
          api[lock[g]].row \in GatewayRow /\ api[lock[g]].row # None
            /\ Refs(api[lock[g]].row, serviceProfile, gatewayProfile, routingProfile)
  BY LockHeld, Constants
<1>3. CASE UpdateEnds(c) /\ DeleteServiceProfileEnds(c)
  <2> DEFINE s == api[c].id
  <2>1. /\ Deletable("serviceProfileID", s) /\ serviceProfile' = [serviceProfile EXCEPT ![s] = None]
        /\ gateway' = [g \in Gateways |-> IF Refers(gateway[g], "serviceProfileID", s) THEN None ELSE gateway[g]]
        /\ UNCHANGED <<gatewayProfile, routingProfile>>
    BY <1>3 DEF DeleteServiceProfileEnds, DeleteServiceProfileRow, Cascade
  <2> HIDE DEF s
  <2>2. ASSUME NEW row \in GatewayRow, Refs(row, serviceProfile, gatewayProfile, routingProfile),
               row.serviceProfileID # s
        PROVE  Refs(row, serviceProfile', gatewayProfile', routingProfile')
    <3>1. \A t \in ServiceProfiles : serviceProfile[t] # None /\ row.serviceProfileID = t => serviceProfile'[t] # None
      BY <1>0, <2>1, <2>2 DEF RowsTyped
    <3> QED
      BY <2>1, <2>2, <3>1, RefsKept
  <2> QED
    BY <1>1, <1>2, <2>1, <2>2 DEF Refers, Deletable
<1>4. CASE DeleteRoutingProfile(c)
  <2>1. PICK r \in RoutingProfiles :
            /\ Deletable("routingProfileID", r) /\ routingProfile' = [routingProfile EXCEPT ![r] = None]
            /\ gateway' = [g \in Gateways |-> IF Refers(gateway[g], "routingProfileID", r) THEN None ELSE gateway[g]]
            /\ UNCHANGED <<gatewayProfile, serviceProfile>>
    BY <1>4 DEF DeleteRoutingProfile, DeleteRoutingProfileRow, Cascade
  <2>2. ASSUME NEW row \in GatewayRow, Refs(row, serviceProfile, gatewayProfile, routingProfile),
               row.routingProfileID # r
        PROVE  Refs(row, serviceProfile', gatewayProfile', routingProfile')
    <3>1. \A t \in RoutingProfiles : routingProfile[t] # None /\ row.routingProfileID = t => routingProfile'[t] # None
      BY <1>0, <2>1, <2>2 DEF RowsTyped
    <3> QED
      BY <2>1, <2>2, <3>1, RefsKept
  <2> QED
    BY <1>1, <1>2, <2>1, <2>2 DEF Refers, Deletable
<1>5. CASE DeleteGatewayProfile(c)
  <2>1. PICK p \in GatewayProfiles :
            /\ Deletable("gatewayProfileID", p) /\ gatewayProfile' = [gatewayProfile EXCEPT ![p] = None]
            /\ ~\E g \in Gateways : Refers(gateway[g], "gatewayProfileID", p)
            /\ UNCHANGED <<gateway, routingProfile, serviceProfile>>
    BY <1>5 DEF DeleteGatewayProfile, DeleteGatewayProfileRow
  <2>2. ASSUME NEW row \in GatewayRow, Refs(row, serviceProfile, gatewayProfile, routingProfile),
               row.gatewayProfileID # p
        PROVE  Refs(row, serviceProfile', gatewayProfile', routingProfile')
    <3>1. \A t \in GatewayProfiles : gatewayProfile[t] # None /\ row.gatewayProfileID = t => gatewayProfile'[t] # None
      BY <1>0, <2>1, <2>2 DEF RowsTyped
    <3> QED
      BY <2>1, <2>2, <3>1, RefsKept
  <2> QED
    BY <1>1, <1>2, <2>1, <2>2 DEF Refers, Deletable
<1> QED
  BY <1>3, <1>4, <1>5

\* References are to rows that exist.
LEMMA RefStep ==
    ASSUME IInv, Next
    PROVE  RefInv'
<1>1. ASSUME NEW g \in Gateways, lock'[g] # None
      PROVE  Refs(api'[lock'[g]].row, serviceProfile', gatewayProfile', routingProfile')
  <2>1. CASE UNCHANGED rows /\ Refs(api'[lock'[g]].row, serviceProfile, gatewayProfile, routingProfile)
    BY <2>1 DEF rows
  <2>2. CASE lock[g] = lock'[g] /\ api'[lock'[g]].row = api[lock[g]].row
    <3>1. /\ api[lock[g]].row \in GatewayRow
          /\ Refs(api[lock[g]].row, serviceProfile, gatewayProfile, routingProfile)
      BY <1>1, <2>2, LockHeld
    <3>2. CASE ProfilesStay
      BY <2>2, <3>1, <3>2, RefsKept DEF ProfilesStay
    <3>3. CASE ~ProfilesStay
      BY <1>1, <2>2, <3>3, StaysOK, DeletesOK
    <3> QED
      BY <3>2, <3>3
  <2> QED
    BY <1>1, <2>1, <2>2, LocksKept
<1>2. ASSUME NEW g \in Gateways, gateway'[g] # None
      PROVE  Refs(gateway'[g], serviceProfile', gatewayProfile', routingProfile')
  <2>1. gateway'[g] \in GatewayRow
    BY <1>2, RowsTypedStep DEF RowsTyped
  <2>2. CASE ProfilesStay /\ RefersWell(g)
    <3>1. Refs(gateway'[g], serviceProfile, gatewayProfile, routingProfile)
      BY <1>2, <2>2 DEF RefersWell, IInv, RefInv, ForeignKeys, Refs
    <3> QED
      BY <2>1, <2>2, <3>1, RefsKept DEF ProfilesStay
  <2>3. CASE ~(ProfilesStay /\ RefersWell(g))
    BY <1>2, <2>3, StaysOK, DeletesOK
  <2> QED
    BY <2>2, <2>3
<1>3. ASSUME NEW g \in Gateways, lock'[g] # None
      PROVE  api'[lock'[g]].op \in GatewayCalls /\ api'[lock'[g]].id = g
  BY <1>3, LocksKept
<1> QED
  BY <1>1, <1>2, <1>3 DEF RefInv, ForeignKeys, Refs

-----------------------------------------------------------------------------
(* Versions *)

\* The ways in which gateway-profiles and the clock change
ProfileWritten ==
    /\ second' = second
    /\ \E p \in GatewayProfiles, v \in Values :
          /\ gatewayProfile' = [gatewayProfile EXCEPT ![p] =
                                  [channels |-> v, extraChannels |-> v, updatedAt |-> second]]
          /\ Stamp(p)
ProfileDeleted ==
    /\ UNCHANGED <<second, used, clash>>
    /\ \E p \in GatewayProfiles : gatewayProfile' = [gatewayProfile EXCEPT ![p] = None]

\* No step changes them in another way.
LEMMA ProfileChanges ==
    ASSUME IInv, Next
    PROVE  \/ UNCHANGED <<gatewayProfile, second, used, clash>>
           \/ ProfileWritten \/ ProfileDeleted
           \/ Tick /\ UNCHANGED gatewayProfile
<1> USE DEF ghosts
<1>1. ASSUME NEW c \in Clients, ApiStep(c), ~WriteGatewayProfile(c)
      PROVE  UNCHANGED <<gatewayProfile, second, used, clash>>
  <2>1. CASE CreateProfile(c) \/ DeleteRoutingProfile(c) \/ CreateGateway(c)
    BY <2>1 DEF CreateProfile, DeleteRoutingProfile, CreateGateway, CreateServiceProfile,
       CreateDeviceProfile, CreateRoutingProfile, AtOnce
  <2>2. CASE ServiceProfileFlushed(c) \/ DeviceProfileFlushed(c) \/ CallBegins(c) \/ DeleteGatewayBegins(c)
    BY <2>2 DEF ServiceProfileFlushed, DeviceProfileFlushed, CallBegins, DeleteGatewayBegins, rows
  <2>3. CASE DeleteGatewayEnds(c) \/ LocksGateway(c) \/ CommitGateway(c) \/ FlushNextGatewayMeta(c) \/ BreakOff(c)
    BY <2>3 DEF DeleteGatewayEnds, LocksGateway, CommitGateway, FlushNextGatewayMeta, BreakOff, rows
  <2>4. CASE UpdateEnds(c)
    BY <2>4 DEF UpdateEnds, UpdateServiceProfileEnds, DeleteServiceProfileEnds, DeviceProfileEnds,
       UpdateRoutingProfileEnds
  <2> QED
    BY <1>1, <2>1, <2>2, <2>3, <2>4 DEF ApiStep
<1>2. ASSUME NEW c \in Clients, WriteGatewayProfile(c) PROVE ProfileWritten \/ ProfileDeleted
  <2>1. CASE CreateGatewayProfile(c) \/ UpdateGatewayProfile(c)
    <3>1. second' = second
      BY <2>1 DEF CreateGatewayProfile, UpdateGatewayProfile, AtOnce
    <3> QED
      BY <2>1, <3>1 DEF CreateGatewayProfile, UpdateGatewayProfile, InsertGatewayProfile,
         UpdateGatewayProfileRow, Put, ProfileWritten
  <2>2. CASE DeleteGatewayProfile(c)
    BY <2>2 DEF DeleteGatewayProfile, DeleteGatewayProfileRow, AtOnce, Put, ProfileDeleted
  <2> QED
    BY <1>2, <2>1, <2>2 DEF WriteGatewayProfile
<1>3. ASSUME NEW h \in Handlers, HandlerStep(h) PROVE UNCHANGED <<gatewayProfile, second, used, clash>>
  BY <1>3 DEF HandlerStep, Caches, GetAndCache, HandleStats, FlushGatewayState, SelectGatewayProfile,
     HandleGatewayConfigurationUpdate, ForwardGatewayStats, StatsBreakOff, rows
<1>4. CASE Tick
  BY <1>4 DEF Tick, rows
<1> QED
  BY <1>1, <1>2, <1>3, <1>4, StepsOK

\* A version stays written; a profile that still has it was not written since,
\* unless that was in the same second.
LEMMA VersionKept ==
    ASSUME IInv, Next, NEW p \in GatewayProfiles, NEW t \in Nat, Written(p, t)
    PROVE  /\ t <= second' /\ (t = second' => p \in used')
           /\ ~clash' /\ gatewayProfile'[p] # None /\ gatewayProfile'[p].updatedAt = t =>
                  ~clash /\ gatewayProfile[p] # None /\ gatewayProfile'[p] = gatewayProfile[p]
<1>0. second \in Nat /\ gatewayProfile \in [GatewayProfiles -> GatewayProfileRow \cup {None}] /\ clash \in BOOLEAN
  BY DEF IInv, ProgressTyped, RowsTyped
<1>1. CASE UNCHANGED <<gatewayProfile, second, used, clash>>
  BY <1>1 DEF Written
<1>2. CASE ProfileWritten
  <2>1. PICK q \in GatewayProfiles, v \in Values :
            /\ gatewayProfile' = [gatewayProfile EXCEPT ![q] =
                                  [channels |-> v, extraChannels |-> v, updatedAt |-> second]]
            /\ Stamp(q)
    BY <1>2 DEF ProfileWritten
  <2>2. second' = second
    BY <1>2 DEF ProfileWritten
  <2>3. CASE p = q
    <3>1. gatewayProfile'[p].updatedAt = second
      BY <1>0, <2>1, <2>3
    <3> QED
      BY <2>1, <2>2, <2>3, <3>1 DEF Stamp, Written
  <2>4. CASE p # q
    BY <1>0, <2>1, <2>2, <2>4 DEF Stamp, Written
  <2> QED
    BY <2>3, <2>4
<1>3. CASE ProfileDeleted
  BY <1>0, <1>3 DEF ProfileDeleted, Written
<1>4. CASE Tick /\ UNCHANGED gatewayProfile
  <2>1. used' = {} /\ clash' = clash /\ second' = IF used = {} THEN second ELSE second + 1
    BY <1>4 DEF Tick
  <2>2. t <= second' /\ t # second'
    BY <1>0, <2>1 DEF Written
  <2> QED
    BY <1>4, <2>1, <2>2
<1> QED
  BY <1>1, <1>2, <1>3, <1>4, ProfileChanges

\* What a handler has selected, it has selected before or selects now.
LEMMA ExtraKept ==
    ASSUME IInv, Next, NEW h \in Handlers, StatsAt(h, "extra")'
    PROVE  \/ StatsAt(h, "extra") /\ hnd'[h].val = hnd[h].val
           \/ /\ UNCHANGED <<gatewayProfile, second, used, clash>>
              /\ \E p \in GatewayProfiles : /\ gatewayProfile[p] # None /\ hnd'[h].val.id = p
                                            /\ hnd'[h].val.row = gatewayProfile[p]
<1>0. hnd'[h] # Idle /\ hnd'[h].op = "stats" /\ hnd'[h].at = "extra" /\ HandlerOK(hnd[h])
  BY DEF StatsAt, IInv, ProgressTyped
<1>1. ASSUME hnd'[h] = hnd[h] PROVE StatsAt(h, "extra") /\ hnd'[h].val = hnd[h].val
  BY <1>0, <1>1 DEF StatsAt
<1>2. CASE hnd'[h] = Excuse(hnd)[h]
  <2>1. hnd[h] # Idle /\ hnd[h].op = "stats" /\ hnd[h].at = "extra"
    BY <1>0, <1>2, ExcuseOK
  <2> QED
    BY <1>1, <1>2, <2>1, ExcuseOK
<1>3. CASE Tick
  <2>1. hnd[h] # Idle /\ hnd[h].at = "extra" /\ hnd[h].op = "stats" /\ hnd'[h].val = hnd[h].val
    BY <1>0, <1>3, TickHandlersOK
  <2> QED
    BY <2>1 DEF StatsAt
<1>4. ASSUME NEW i \in Handlers, HandlerStep(i), ~SelectGatewayProfile(i)
      PROVE  hnd'[h] = hnd[h] \/ hnd'[h] = Excuse(hnd)[h]
  <2>1. CASE Caches(i)
    BY <1>0, <2>1, CachesOK
  <2>2. CASE \E k \in Keys : GetAndCache(i, k)
    BY <1>0, <2>2, GetAndCacheOK
  <2>3. CASE HandleStats(i)
    BY <1>0, <2>3, StatsOK DEF StatsAt
  <2>4. CASE FlushGatewayState(i)
    BY <1>0, <2>4, MovesOK DEF FlushGatewayState, StatsAt
  <2>5. CASE HandleGatewayConfigurationUpdate(i)
    BY <1>0, <2>5, MovesOK DEF HandleGatewayConfigurationUpdate, StatsAt
  <2>6. CASE ForwardGatewayStats(i) \/ StatsBreakOff(i)
    <3>1. hnd' = [hnd EXCEPT ![i] = Idle]
      BY <2>6 DEF ForwardGatewayStats, StatsBreakOff
    <3>2. hnd = [j \in Handlers |-> hnd[j]]
      BY DEF IInv, ProgressTyped
    <3> QED
      BY <1>0, <3>1, <3>2
  <2> QED
    BY <1>4, <2>1, <2>2, <2>3, <2>4, <2>5, <2>6 DEF HandlerStep
<1>5. ASSUME NEW i \in Handlers, SelectGatewayProfile(i), hnd'[h] # hnd[h]
      PROVE  /\ UNCHANGED <<gatewayProfile, second, used, clash>>
             /\ \E p \in GatewayProfiles : /\ gatewayProfile[p] # None /\ hnd'[h].val.id = p
                                           /\ hnd'[h].val.row = gatewayProfile[p]
  <2>1. h = i
    BY <1>5, SelectOK
  <2>2. UNCHANGED <<gatewayProfile, second, used, clash>>
    BY <1>5 DEF SelectGatewayProfile, rows, ghosts
  <2> QED
    BY <1>0, <1>5, <2>1, <2>2, SelectOK
<1> QED
  BY <1>1, <1>2, <1>3, <1>4, <1>5, HandlersChange

\* A version means one state of a profile.
LEMMA VersionStep ==
    ASSUME IInv, Next
    PROVE  VersionInv'
<1>0. /\ conf = [g \in Gateways |-> conf[g]] /\ \A g \in Gateways : ConfOK(conf[g])
      /\ gatewayProfile \in [GatewayProfiles -> GatewayProfileRow \cup {None}] /\ second \in Nat
      /\ \A p \in GatewayProfiles : gatewayProfile[p] # None => Written(p, gatewayProfile[p].updatedAt)
  BY DEF IInv, ProgressTyped, RowsTyped, VersionInv
<1>1. ASSUME NEW p \in GatewayProfiles, gatewayProfile'[p] # None
      PROVE  Written(p, gatewayProfile[p].updatedAt)'
  <2>1. CASE gatewayProfile'[p] = gatewayProfile[p]
    <3>1. gatewayProfile[p].updatedAt \in Nat
      BY <1>0, <1>1, <2>1 DEF GatewayProfileRow
    <3> QED
      BY <1>0, <1>1, <2>1, <3>1, VersionKept DEF Written
  <2>2. CASE gatewayProfile'[p] # gatewayProfile[p]
    <3>1. ProfileWritten \/ ProfileDeleted
      BY <2>2, ProfileChanges
    <3>2. ProfileWritten
      BY <1>0, <1>1, <2>2, <3>1 DEF ProfileDeleted
    <3>3. PICK q \in GatewayProfiles, v \in Values :
              /\ gatewayProfile' = [gatewayProfile EXCEPT ![q] =
                                  [channels |-> v, extraChannels |-> v, updatedAt |-> second]]
              /\ Stamp(q)
      BY <3>2 DEF ProfileWritten
    <3>4. p = q /\ gatewayProfile'[p].updatedAt = second /\ second' = second
      BY <1>0, <2>2, <3>2, <3>3 DEF ProfileWritten
    <3> QED
      BY <1>0, <3>3, <3>4 DEF Written, Stamp
  <2> QED
    BY <2>1, <2>2
<1>2. ASSUME NEW h \in Handlers, StatsAt(h, "extra")'
      PROVE  LET sel == hnd'[h].val
                 row == gatewayProfile'[sel.id]
             IN  /\ sel.row.updatedAt <= second' /\ (sel.row.updatedAt = second' => sel.id \in used')
                 /\ ~clash' /\ row # None /\ row.updatedAt = sel.row.updatedAt => row = sel.row
  <2> DEFINE sel == hnd'[h].val
  <2>1. CASE StatsAt(h, "extra") /\ hnd'[h].val = hnd[h].val
    <3>1. sel \in Selected
      BY <2>1 DEF StatsAt, IInv, ProgressTyped, HandlerOK
    <3>2. sel.id \in GatewayProfiles /\ sel.row.updatedAt \in Nat
      BY <3>1 DEF Selected, GatewayProfileRow
    <3>3. /\ Written(sel.id, sel.row.updatedAt)
          /\ ~clash /\ gatewayProfile[sel.id] # None /\ gatewayProfile[sel.id].updatedAt = sel.row.updatedAt
                => gatewayProfile[sel.id] = sel.row
      BY <2>1 DEF IInv, VersionInv
    <3> HIDE DEF sel
    <3>4. /\ sel.row.updatedAt <= second' /\ (sel.row.updatedAt = second' => sel.id \in used')
          /\ ~clash' /\ gatewayProfile'[sel.id] # None /\ gatewayProfile'[sel.id].updatedAt = sel.row.updatedAt =>
                 ~clash /\ gatewayProfile[sel.id] # None /\ gatewayProfile'[sel.id] = gatewayProfile[sel.id]
      BY <3>2, <3>3, VersionKept
    <3> QED
      BY <3>3, <3>4 DEF sel
  <2>2. CASE /\ UNCHANGED <<gatewayProfile, second, used, clash>>
             /\ \E p \in GatewayProfiles : /\ gatewayProfile[p] # None /\ hnd'[h].val.id = p
                                           /\ hnd'[h].val.row = gatewayProfile[p]
    BY <1>0, <2>2 DEF Written
  <2> QED
    BY <1>2, <2>1, <2>2, ExtraKept
<1>3. ASSUME NEW x, ConfOK(x)
      PROVE  x # None =>
               /\ x \in [version : Versions, channels : Values, extraChannels : Values \cup {None}]
               /\ x.version[2] <= second' /\ (x.version[2] = second' => x.version[1] \in used')
               /\ LET row == gatewayProfile'[x.version[1]]
                  IN  ~clash' /\ row # None /\ row.updatedAt = x.version[2] =>
                          x.channels = row.channels /\ x.extraChannels = row.extraChannels
  <2> SUFFICES ASSUME x # None
               PROVE  /\ x \in [version : Versions, channels : Values, extraChannels : Values \cup {None}]
                      /\ x.version[2] <= second' /\ (x.version[2] = second' => x.version[1] \in used')
                      /\ LET row == gatewayProfile'[x.version[1]]
                         IN  ~clash' /\ row # None /\ row.updatedAt = x.version[2] =>
                                 x.channels = row.channels /\ x.extraChannels = row.extraChannels
    OBVIOUS
  <2>1. x \in [version : Versions, channels : Values, extraChannels : Values \cup {None}]
    BY <1>3 DEF ConfOK
  <2>2. x.version[1] \in GatewayProfiles /\ x.version[2] \in Nat
    BY <2>1 DEF Versions
  <2>3. Written(x.version[1], x.version[2])
    BY <1>3 DEF ConfOK
  <2>4. ~clash /\ gatewayProfile[x.version[1]] # None /\ gatewayProfile[x.version[1]].updatedAt = x.version[2] =>
           /\ x.channels = gatewayProfile[x.version[1]].channels
           /\ x.extraChannels = gatewayProfile[x.version[1]].extraChannels
    BY <1>3 DEF ConfOK
  <2> QED
    BY <2>1, <2>2, <2>3, <2>4, VersionKept
<1>4. conf' = [g \in Gateways |-> conf'[g]] /\ \A g \in Gateways : conf'[g] = conf[g] \/ ConfOK(conf'[g])
  <2>1. CASE UNCHANGED conf
    BY <1>0, <2>1
  <2>2. ASSUME NEW h \in Handlers, HandleGatewayConfigurationUpdate(h), conf' # conf
        PROVE  conf' = [g \in Gateways |-> conf'[g]] /\ \A g \in Gateways : conf'[g] = conf[g] \/ ConfOK(conf'[g])
    <3> DEFINE sel == hnd[h].val
               x == Configuration(sel)
    <3>1. conf' = [conf EXCEPT ![GatewayOf(h)] = x] /\ StatsAt(h, "extra")
      BY <2>2 DEF HandleGatewayConfigurationUpdate
    <3>2. sel \in Selected
      BY <3>1 DEF StatsAt, IInv, ProgressTyped, HandlerOK
    <3>3. sel.id \in GatewayProfiles /\ sel.row \in GatewayProfileRow /\ sel.row.updatedAt \in Nat
            /\ sel.row.channels \in Values
      BY <3>2 DEF Selected, GatewayProfileRow
    <3>4. /\ Written(sel.id, sel.row.updatedAt)
          /\ ~clash /\ gatewayProfile[sel.id] # None /\ gatewayProfile[sel.id].updatedAt = sel.row.updatedAt
                => gatewayProfile[sel.id] = sel.row
      BY <3>1 DEF IInv, VersionInv
    <3> HIDE DEF sel
    <3>5. /\ ExtraChannels(sel.id) \in Values \cup {None}
          /\ gatewayProfile[sel.id] # None => ExtraChannels(sel.id) = gatewayProfile[sel.id].extraChannels
      BY <1>0, <3>3 DEF ExtraChannels, GatewayProfileRow
    <3>6. /\ x \in [version : Versions, channels : Values, extraChannels : Values \cup {None}]
          /\ x.version[1] = sel.id /\ x.version[2] = sel.row.updatedAt
          /\ x.channels = sel.row.channels /\ x.extraChannels = ExtraChannels(sel.id)
      BY <3>3, <3>5 DEF Configuration, GetVersion, Versions
    <3> HIDE DEF x
    <3>7. ConfOK(x)
      BY <3>4, <3>5, <3>6 DEF ConfOK
    <3> QED
      BY <1>0, <3>1, <3>7
  <2>3. conf' = conf \/ \E h \in Handlers : HandleGatewayConfigurationUpdate(h)
    <3>1. ASSUME NEW h \in Handlers, HandlerStep(h), ~HandleGatewayConfigurationUpdate(h) PROVE conf' = conf
      BY <3>1 DEF HandlerStep, Caches, GetAndCache, HandleStats, FlushGatewayState, SelectGatewayProfile,
         ForwardGatewayStats, StatsBreakOff
    <3>2. ASSUME NEW h \in Handlers, Uplink(h) \/ Stats(h) PROVE HandlerStep(h)
      BY <3>2, ReaderSteps DEF Stats, HandlerStep
    <3> QED
      BY <3>1, <3>2, ApiFrame DEF Next, BreakOff, Tick
  <2> QED
    BY <2>1, <2>2, <2>3
<1>5. \A g \in Gateways : ConfOK(conf[g])'
  BY <1>0, <1>3, <1>4 DEF ConfOK, Written
<1> QED
  BY <1>1, <1>2, <1>4, <1>5 DEF VersionInv, Written

-----------------------------------------------------------------------------
(* Copies *)

\* A copy that is not blamed becomes none that is, and keeps its row; a flush
\* that is to come stays to come or is done.
CopyKept(k) ==
    /\ Clean(k) => Clean(k)'
    /\ ~Clean(k)' => cache'[k].val = cache[k].val
    /\ Pending(k) => Pending(k)' \/ Clean(k)'

\* What a step has to respect for copies to stay fresh
Respects ==
    /\ \A k \in Keys : CopyKept(k)
    /\ \A k \in Keys : View(k)' = View(k) \/ View(k) = None \/ Clean(k)' \/ Pending(k)'
    /\ \A g \in Gateways :
           \/ gateway'[g] = None
           \/ gateway[g] # None /\ gateway'[g].serviceProfileID = gateway[g].serviceProfileID
           \/ Clean(GatewayMetaKey(g))' \/ Pending(GatewayMetaKey(g))'
    /\ \A c \in Clients :
           \/ api'[c] = api[c] \/ CallCovered(c)'
           \/ api'[c].op \notin ServiceProfileCalls \cup DeviceProfileCalls
    /\ \A g \in Gateways :
           lock'[g] = None \/ lock'[g] = lock[g] \/ Clean(GatewayMetaKey(g))'

\* Copies that agree with their rows do so after the step.
LEMMA RespectsOK ==
    ASSUME IInv, ProgressTyped', Respects
    PROVE  /\ \A k \in Keys : CopyAgrees(k)'
           /\ \A c \in Clients : CallCovered(c)'
           /\ \A g \in Gateways : lock'[g] # None => Clean(GatewayMetaKey(g))'
<1>1. ASSUME NEW k \in Keys PROVE CopyAgrees(k)'
  <2>1. CopyAgrees(k) /\ CopyOK(k, cache[k]) /\ CopyKept(k)
    BY DEF IInv, FreshInv, CacheTyped, Respects
  <2>2. ~Clean(k) => cache[k].val # None
    BY <2>1, RowSetOK DEF Clean, CopyOK
  <2>3. View(k)' = View(k) \/ View(k) = None \/ Clean(k)' \/ Pending(k)'
    BY DEF Respects
  <2> QED
    BY <2>1, <2>2, <2>3 DEF CopyAgrees, CopyKept
<1>2. ASSUME NEW c \in Clients PROVE CallCovered(c)'
  <2>1. CASE CallCovered(c)' \/ api'[c].op \notin ServiceProfileCalls \cup DeviceProfileCalls
    BY <2>1 DEF CallCovered
  <2>2. CASE api'[c] = api[c]
    <3>1. CallCovered(c) /\ CallOK(api[c])
      BY DEF IInv, FreshInv, ProgressTyped
    <3>2. ASSUME api[c].op \in ServiceProfileCalls PROVE api[c].id \in ServiceProfiles
      BY <3>1, <3>2 DEF CallOK, Idle, ServiceProfileCalls
    <3>3. ASSUME api[c].op \in DeviceProfileCalls PROVE api[c].id \in DeviceProfiles
      BY <3>1, <3>3 DEF CallOK, Idle, DeviceProfileCalls
    <3>4. \A k \in Keys : Clean(k) => Clean(k)'
      BY DEF Respects, CopyKept
    <3>5. \A k \in Keys : Pending(k) => Pending(k)' \/ Clean(k)'
      BY DEF Respects, CopyKept
    <3>6. ASSUME api[c].op \in DeviceProfileCalls PROVE Clean(DeviceProfileKey(api[c].id))'
      <4>1. DeviceProfileKey(api[c].id) \in Keys /\ Clean(DeviceProfileKey(api[c].id))
        BY <3>1, <3>3, <3>6, KeysOK DEF CallCovered
      <4>2. Clean(DeviceProfileKey(api[c].id)) => cache'[DeviceProfileKey(api[c].id)] = None \/ cache'[DeviceProfileKey(api[c].id)].excused
        BY <3>4, <4>1 DEF Clean
      <4> QED
        BY <2>2, <4>1, <4>2 DEF Clean
    <3>7. ASSUME api[c].op \in ServiceProfileCalls PROVE Clean(ServiceProfileKey(api[c].id))'
      <4>1. ServiceProfileKey(api[c].id) \in Keys /\ Clean(ServiceProfileKey(api[c].id))
        BY <3>1, <3>2, <3>7, KeysOK DEF CallCovered
      <4>2. Clean(ServiceProfileKey(api[c].id)) => cache'[ServiceProfileKey(api[c].id)] = None \/ cache'[ServiceProfileKey(api[c].id)].excused
        BY <3>4, <4>1 DEF Clean
      <4> QED
        BY <2>2, <4>1, <4>2 DEF Clean
    <3>8. ASSUME api[c].op \in ServiceProfileCalls, NEW g \in Gateways,
                 Refers(gateway'[g], "serviceProfileID", api[c].id)
          PROVE  g \in api[c].todo \/ Clean(GatewayMetaKey(g))' \/ Pending(GatewayMetaKey(g))'
      <4>1. \/ gateway[g] # None /\ gateway'[g].serviceProfileID = gateway[g].serviceProfileID
            \/ Clean(GatewayMetaKey(g))' \/ Pending(GatewayMetaKey(g))'
        BY <3>8 DEF Respects, Refers
      <4>2. CASE gateway[g] # None /\ gateway'[g].serviceProfileID = gateway[g].serviceProfileID
        <5>1. Refers(gateway[g], "serviceProfileID", api[c].id)
          BY <3>8, <4>2 DEF Refers
        <5>2. g \in api[c].todo \/ Clean(GatewayMetaKey(g)) \/ Pending(GatewayMetaKey(g))
          BY <3>1, <3>8, <5>1 DEF CallCovered
        <5> QED
          BY <3>4, <3>5, <5>2, KeysOK
      <4> QED
        BY <4>1, <4>2
    <3> QED
      BY <2>2, <3>6, <3>7, <3>8 DEF CallCovered
  <2> QED
    BY <2>1, <2>2 DEF Respects
<1>3. ASSUME NEW g \in Gateways, lock'[g] # None PROVE Clean(GatewayMetaKey(g))'
  <2>1. GatewayMetaKey(g) \in Keys /\ CopyKept(GatewayMetaKey(g))
    BY KeysOK DEF Respects
  <2>2. lock'[g] = lock[g] \/ Clean(GatewayMetaKey(g))'
    BY <1>3 DEF Respects
  <2>3. lock[g] # None => Clean(GatewayMetaKey(g))
    BY DEF IInv, FreshInv
  <2> QED
    BY <1>3, <2>1, <2>2, <2>3 DEF CopyKept
<1> QED
  BY <1>1, <1>2, <1>3

\* Readers that hold a row are excused by every call that writes.
LEMMA ApiReaders ==
    ASSUME IInv, NEW c \in Clients, ApiStep(c)
    PROVE  \A h \in Handlers : ReaderFresh(h)'
<1>1. CASE hnd' = Excuse(hnd)
  BY <1>1, ExcuseOK DEF ReaderFresh
<1>2. CASE hnd' = hnd /\ api[c] # Idle
  <2>1. Writing
    BY <1>2 DEF Writing
  <2> QED
    BY <1>2, <2>1 DEF IInv, FreshInv, ReaderFresh
<1>3. CASE CreateProfile(c) \/ WriteGatewayProfile(c) \/ DeleteRoutingProfile(c) \/ CreateGateway(c)
  BY <1>1, <1>3 DEF CreateProfile, WriteGatewayProfile, DeleteRoutingProfile, CreateGateway,
       CreateServiceProfile, CreateDeviceProfile, CreateRoutingProfile, CreateGatewayProfile,
       UpdateGatewayProfile, DeleteGatewayProfile, AtOnce, Starts
<1>4. CASE ServiceProfileFlushed(c) \/ DeviceProfileFlushed(c) \/ CallBegins(c) \/ DeleteGatewayBegins(c)
  BY <1>1, <1>4 DEF ServiceProfileFlushed, FlushServiceProfileCache, DeviceProfileFlushed, CallBegins,
         DeleteGatewayBegins, Begin, Starts
<1>5. CASE DeleteGatewayEnds(c) \/ UpdateEnds(c)
  BY <1>2, <1>5 DEF DeleteGatewayEnds, UpdateEnds, UpdateServiceProfileEnds, DeleteServiceProfileEnds,
         DeviceProfileEnds, UpdateRoutingProfileEnds, DeviceProfileCalls, Idle
<1>6. CASE LocksGateway(c) \/ CommitGateway(c) \/ FlushNextGatewayMeta(c) \/ BreakOff(c)
  BY <1>2, <1>6 DEF LocksGateway, CommitGateway, FlushNextGatewayMeta, BreakOff, GatewayCalls, Idle
<1> QED
  BY <1>3, <1>4, <1>5, <1>6 DEF ApiStep

\* A flush that is to come stays to come while its call or handler does.
LEMMA PendingKept ==
    ASSUME IInv, NEW k \in Keys, Pending(k), hnd' = hnd \/ hnd' = Excuse(hnd),
           \A e \in Clients : api[e].op = "deleteGateway" =>
               api'[e].op = "deleteGateway" /\ api'[e].id = api[e].id
    PROVE  Pending(k)'
<1>1. CASE \E e \in Clients : api[e].op = "deleteGateway" /\ k = GatewayMetaKey(api[e].id)
  BY <1>1 DEF Pending, GatewayMetaKey
<1>2. ASSUME NEW h \in Handlers, StatsAt(h, "flush"), k = hnd[h].key PROVE Pending(k)'
  <2>1. hnd'[h] = hnd[h]
    BY <1>2, ExcuseOK DEF StatsAt
  <2> QED
    BY <1>2, <2>1 DEF Pending, StatsAt
<1> QED
  BY <1>1, <1>2 DEF Pending

\* A gateway's flush is done by the call that was to do it, or it breaks off
\* and the copy is excused.
LEMMA ApiPending ==
    ASSUME IInv, NEW c \in Clients, ApiStep(c), NEW k \in Keys
    PROVE  CopyKept(k)
<1>0. /\ api = [e \in Clients |-> api[e]] /\ CallOK(api[c])
      /\ cache = [i \in Keys |-> cache[i]]
  BY DEF IInv, ProgressTyped, CacheTyped
<1>1. SUFFICES ASSUME Pending(k) PROVE Pending(k)' \/ Clean(k)'
  <2>1. (Clean(k) => Clean(k)') /\ (~Clean(k)' => cache'[k].val = cache[k].val)
    BY ApiFades, FadesOK
  <2> QED
    BY <2>1 DEF CopyKept
<1>2. ASSUME NEW x, api' = [api EXCEPT ![c] = x], api[c].op # "deleteGateway", hnd' = hnd \/ hnd' = Excuse(hnd)
      PROVE  Pending(k)'
  BY <1>0, <1>1, <1>2, PendingKept
<1>3. CASE api' = api /\ (hnd' = hnd \/ hnd' = Excuse(hnd))
  BY <1>1, <1>3, PendingKept
<1>4. CASE CreateProfile(c) \/ WriteGatewayProfile(c) \/ DeleteRoutingProfile(c) \/ CreateGateway(c)
  BY <1>3, <1>4 DEF CreateProfile, WriteGatewayProfile, DeleteRoutingProfile, CreateGateway,
       CreateServiceProfile, CreateDeviceProfile, CreateRoutingProfile, CreateGatewayProfile,
       UpdateGatewayProfile, DeleteGatewayProfile, AtOnce, Starts
<1>5. CASE ServiceProfileFlushed(c) \/ DeviceProfileFlushed(c) \/ CallBegins(c) \/ DeleteGatewayBegins(c)
  <2>1. hnd' = Excuse(hnd) /\ api[c] = Idle /\ \E x : api' = [api EXCEPT ![c] = x]
    BY <1>5 DEF ServiceProfileFlushed, FlushServiceProfileCache, DeviceProfileFlushed, CallBegins,
         DeleteGatewayBegins, Begin, Starts
  <2>2. PICK x : api' = [api EXCEPT ![c] = x]
    BY <2>1
  <2>3. api[c].op # "deleteGateway"
    BY <2>1 DEF Idle
  <2> QED
    BY <1>2, <2>1, <2>2, <2>3
<1>6. CASE UpdateEnds(c) \/ CommitGateway(c)
  <2>1. hnd' = hnd /\ api[c].op # "deleteGateway" /\ api' = [api EXCEPT ![c] = Idle]
    BY <1>6 DEF UpdateEnds, UpdateServiceProfileEnds, DeleteServiceProfileEnds, DeviceProfileEnds,
       UpdateRoutingProfileEnds, DeviceProfileCalls, CommitGateway, Done
  <2> QED
    BY <1>2, <2>1
<1>7. CASE LocksGateway(c)
  <2>1. hnd' = hnd /\ api[c].op # "deleteGateway" /\ (api' = api \/ api' = [api EXCEPT ![c] = Idle])
    BY <1>7 DEF LocksGateway, UpdateGatewayRow, GatewayCalls, Done
  <2> QED
    BY <1>2, <1>3, <2>1
<1>8. CASE FlushNextGatewayMeta(c)
  <2>1. PICK g \in api[c].todo : api' = [api EXCEPT ![c].todo = api[c].todo \ {g}]
    BY <1>8 DEF FlushNextGatewayMeta
  <2>2. hnd' = hnd /\ api[c] \in CallRecord
    BY <1>0, <1>8 DEF FlushNextGatewayMeta, CallOK
  <2>3. api'[c].op = api[c].op /\ api'[c].id = api[c].id
    BY <1>0, <2>1, <2>2 DEF CallRecord
  <2>4. \A e \in Clients : e # c => api'[e] = api[e]
    BY <1>0, <2>1
  <2> QED
    BY <1>1, <2>2, <2>3, <2>4, PendingKept
<1>9. ASSUME hnd' = hnd, api' = [api EXCEPT ![c] = Idle], k # GatewayMetaKey(api[c].id) \/ api[c].op # "deleteGateway"
      PROVE  Pending(k)'
  <2>1. CASE \E e \in Clients : api[e].op = "deleteGateway" /\ k = GatewayMetaKey(api[e].id)
    <3>1. PICK e \in Clients : api[e].op = "deleteGateway" /\ k = GatewayMetaKey(api[e].id)
      BY <2>1
    <3>2. api'[e] = api[e]
      BY <1>0, <1>9, <3>1
    <3> QED
      BY <3>1, <3>2 DEF Pending, GatewayMetaKey
  <2>2. CASE \E h \in Handlers : StatsAt(h, "flush") /\ k = hnd[h].key
    BY <1>9, <2>2 DEF Pending, StatsAt
  <2> QED
    BY <1>1, <2>1, <2>2 DEF Pending
<1>10. CASE DeleteGatewayEnds(c)
  <2>1. hnd' = hnd /\ api' = [api EXCEPT ![c] = Idle] /\ cache' = Flush({GatewayMetaKey(api[c].id)})
    BY <1>10 DEF DeleteGatewayEnds, Done, FlushGatewayMetaCache
  <2>2. k = GatewayMetaKey(api[c].id) => Clean(k)'
    BY <2>1 DEF Flush, Clean
  <2> QED
    BY <1>9, <2>1, <2>2
<1>11. CASE BreakOff(c)
  <2>1. hnd' = hnd /\ api' = [api EXCEPT ![c] = Idle]
        /\ cache'[k] = IF cache[k] # None /\ api[c].op = "deleteGateway" /\ k = GatewayMetaKey(api[c].id)
                       THEN [cache[k] EXCEPT !.excused = TRUE] ELSE cache[k]
    BY <1>11 DEF BreakOff, Done
  <2>2. cache[k] # None => [cache[k] EXCEPT !.excused = TRUE].excused = TRUE
    BY DEF IInv, CacheTyped, CopyOK
  <2>3. k = GatewayMetaKey(api[c].id) /\ api[c].op = "deleteGateway" => Clean(k)'
    BY <2>1, <2>2 DEF Clean
  <2> QED
    BY <1>9, <2>1, <2>3
<1> QED
  BY <1>4, <1>5, <1>6, <1>7, <1>8, <1>10, <1>11 DEF ApiStep

\* Views depend on three tables.
LEMMA ViewsKept ==
    ASSUME NEW k \in Keys, UNCHANGED <<serviceProfile, deviceProfile, gateway>>
    PROVE  View(k)' = View(k)
<1>1. CASE k[1] = "gwm"
  <2>1. GetGatewayMeta(k[2])' = GetGatewayMeta(k[2])
    BY ZenonT(30) DEF GetGatewayMeta
  <2> QED
    BY <1>1, <2>1, Views, ViewsPrimed
<1>2. CASE k[1] # "gwm"
  BY <1>2, KeysOK, Views, ViewsPrimed
<1> QED
  BY <1>1, <1>2

\* The view of a gateway stays while its row and its service-profile do.
LEMMA MetaKept ==
    ASSUME NEW g \in Gateways, gateway'[g] = gateway[g],
           gateway[g] # None /\ gateway[g].serviceProfileID # None =>
               serviceProfile'[gateway[g].serviceProfileID] = serviceProfile[gateway[g].serviceProfileID]
    PROVE  View(GatewayMetaKey(g))' = View(GatewayMetaKey(g))
<1>1. View(GatewayMetaKey(g)) = GetGatewayMeta(g) /\ View(GatewayMetaKey(g))' = GetGatewayMeta(g)'
  BY KeyParts, Views, ViewsPrimed DEF GatewayMetaKey
<1> DEFINE private == /\ gateway[g].serviceProfileID # None
                      /\ serviceProfile[gateway[g].serviceProfileID].gwsPrivate
<1>2. ASSUME gateway[g] # None PROVE private' <=> private
  BY <1>2
<1>3. ASSUME gateway[g] # None
      PROVE  GetGatewayMeta(g)' = GetGatewayMeta(g)
  <2>1. private' = private
    BY <1>2, <1>3
  <2>2. GetGatewayMeta(g) = [location |-> gateway[g].location,
          serviceProfileID |-> gateway[g].serviceProfileID,
          gatewayProfileID |-> gateway[g].gatewayProfileID,
          routingProfileID |-> gateway[g].routingProfileID, isPrivate |-> private]
    BY <1>3, Zenon DEF GetGatewayMeta
  <2>3. GetGatewayMeta(g)' = [location |-> gateway[g].location,
          serviceProfileID |-> gateway[g].serviceProfileID,
          gatewayProfileID |-> gateway[g].gatewayProfileID,
          routingProfileID |-> gateway[g].routingProfileID, isPrivate |-> private']
    BY <1>3, Zenon DEF GetGatewayMeta
  <2> HIDE DEF private
  <2> QED
    BY <2>1, <2>2, <2>3, Zenon
<1>4. ASSUME gateway[g] = None PROVE GetGatewayMeta(g)' = GetGatewayMeta(g)
  BY <1>4 DEF GetGatewayMeta
<1> QED
  BY <1>1, <1>3, <1>4

\* Steps that change no view: what remains is the call itself.
LEMMA SameViews ==
    ASSUME IInv, NEW c \in Clients, ApiStep(c), UNCHANGED <<serviceProfile, deviceProfile, gateway>>,
           \A e \in Clients : e # c => api'[e] = api[e],
           \/ api'[c] = api[c] \/ CallCovered(c)'
           \/ api'[c].op \notin ServiceProfileCalls \cup DeviceProfileCalls,
           \A g \in Gateways : lock'[g] = None \/ lock'[g] = lock[g] \/ Clean(GatewayMetaKey(g))'
    PROVE  Respects
<1>1. \A k \in Keys : CopyKept(k)
  BY ApiPending
<1>2. \A k \in Keys : View(k)' = View(k)
  BY ViewsKept
<1> QED
  BY <1>1, <1>2 DEF Respects

\* A call that is to write a service-profile has flushed the copy of the
\* profile and selected the gateways whose copies are next.
LEMMA FlushedRespects ==
    ASSUME IInv, NEW c \in Clients, ServiceProfileFlushed(c) \/ DeviceProfileFlushed(c)
    PROVE  Respects
<1>0. api = [e \in Clients |-> api[e]]
  BY DEF IInv, ProgressTyped
<1>1. UNCHANGED <<serviceProfile, deviceProfile, gateway, lock>>
  BY DEF ServiceProfileFlushed, DeviceProfileFlushed, rows
<1>2. ASSUME NEW op \in ServiceProfileCalls, NEW s \in ServiceProfiles, NEW row,
             FlushServiceProfileCache(c, op, s, row)
      PROVE  CallCovered(c)' /\ \A e \in Clients : e # c => api'[e] = api[e]
  <2> DEFINE todo == FlushGatewayMetaCacheForServiceProfile(s)
             x == Call(op, s, row, todo)
  <2>1. api' = [api EXCEPT ![c] = x] /\ cache' = Flush({ServiceProfileKey(s)})
    BY <1>2 DEF FlushServiceProfileCache, Begin
  <2>2. x.op = op /\ x.id = s /\ x.todo = todo
    BY DEF Call
  <2> HIDE DEF x
  <2>3. api'[c].op = op /\ api'[c].id = s /\ api'[c].todo = todo
    BY <1>0, <2>1, <2>2
  <2>4. cache'[ServiceProfileKey(s)] = None
    BY <2>1, KeysOK DEF Flush
  <2>5. Clean(ServiceProfileKey(api[c].id))'
    BY <2>3, <2>4 DEF Clean
  <2>6. \A g \in Gateways : Refers(gateway'[g], "serviceProfileID", s) => g \in todo
    BY <1>1 DEF FlushGatewayMetaCacheForServiceProfile
  <2>7. op \notin DeviceProfileCalls
    BY DEF ServiceProfileCalls, DeviceProfileCalls
  <2> HIDE DEF todo
  <2> QED
    BY <1>0, <2>1, <2>3, <2>5, <2>6, <2>7 DEF CallCovered
<1>3. ASSUME NEW op \in DeviceProfileCalls, NEW d \in DeviceProfiles, NEW row,
             FlushDeviceProfileCache(d), Begin(c, Call(op, d, row, {}))
      PROVE  CallCovered(c)' /\ \A e \in Clients : e # c => api'[e] = api[e]
  <2> DEFINE x == Call(op, d, row, {})
  <2>1. api' = [api EXCEPT ![c] = x] /\ cache' = Flush({DeviceProfileKey(d)})
    BY <1>3 DEF FlushDeviceProfileCache, Begin
  <2>2. x.op = op /\ x.id = d
    BY DEF Call
  <2> HIDE DEF x
  <2>3. api'[c].op = op /\ api'[c].id = d
    BY <1>0, <2>1, <2>2
  <2>4. cache'[DeviceProfileKey(d)] = None
    BY <2>1, KeysOK DEF Flush
  <2>5. Clean(DeviceProfileKey(api[c].id))'
    BY <2>3, <2>4 DEF Clean
  <2>6. op \notin ServiceProfileCalls
    BY DEF ServiceProfileCalls, DeviceProfileCalls
  <2> QED
    BY <1>0, <2>1, <2>3, <2>5, <2>6 DEF CallCovered
<1>4. CallCovered(c)' /\ \A e \in Clients : e # c => api'[e] = api[e]
  BY <1>2, <1>3 DEF ServiceProfileFlushed, DeviceProfileFlushed
<1> QED
  BY <1>1, <1>4, SameViews DEF ApiStep

\* The gateways of the profile are flushed one by one.
LEMMA FlushNextRespects ==
    ASSUME IInv, NEW c \in Clients, FlushNextGatewayMeta(c)
    PROVE  Respects
<1>0. api = [e \in Clients |-> api[e]] /\ CallOK(api[c]) /\ CallCovered(c)
  BY DEF IInv, ProgressTyped, FreshInv
<1>1. PICK f \in api[c].todo : FlushGatewayMetaCache(f) /\ api' = [api EXCEPT ![c].todo = api[c].todo \ {f}]
  BY DEF FlushNextGatewayMeta
<1>2. UNCHANGED <<serviceProfile, deviceProfile, gateway, lock>> /\ api[c] \in CallRecord
  BY <1>0 DEF FlushNextGatewayMeta, rows, CallOK
<1>3. api'[c].op = api[c].op /\ api'[c].id = api[c].id /\ api'[c].todo = api[c].todo \ {f}
  BY <1>0, <1>1, <1>2 DEF CallRecord
<1>4. f \in Gateways
  BY <1>1, <1>2 DEF CallRecord
<1>5. \A k \in Keys : CopyKept(k)
  BY ApiPending DEF ApiStep
<1>6. cache'[GatewayMetaKey(f)] = None
  BY <1>1, <1>4, KeysOK DEF FlushGatewayMetaCache, Flush
<1>7. ASSUME api[c].op \in ServiceProfileCalls
      PROVE  /\ Clean(ServiceProfileKey(api[c].id))'
             /\ \A g \in Gateways : Refers(gateway[g], "serviceProfileID", api[c].id) =>
                    g \in api[c].todo \ {f} \/ Clean(GatewayMetaKey(g))' \/ Pending(GatewayMetaKey(g))'
  <2>1. ServiceProfileKey(api[c].id) \in Keys
    BY <1>0, <1>7, KeysOK DEF CallOK, Idle, ServiceProfileCalls
  <2>2. cache'[ServiceProfileKey(api[c].id)] = None \/ cache'[ServiceProfileKey(api[c].id)].excused
    BY <1>0, <1>5, <1>7, <2>1 DEF CallCovered, CopyKept, Clean
  <2>3. Clean(ServiceProfileKey(api[c].id))'
    BY <1>3, <2>2 DEF Clean
  <2>4. Clean(GatewayMetaKey(f))'
    BY <1>6 DEF Clean
  <2>5. ASSUME NEW g \in Gateways, Refers(gateway[g], "serviceProfileID", api[c].id), g # f
        PROVE  g \in api[c].todo \ {f} \/ Clean(GatewayMetaKey(g))' \/ Pending(GatewayMetaKey(g))'
    BY <1>0, <1>5, <1>7, <2>5, KeysOK DEF CallCovered, CopyKept
  <2> QED
    BY <2>3, <2>4, <2>5
<1>8. ASSUME api[c].op \in DeviceProfileCalls
      PROVE  Clean(DeviceProfileKey(api[c].id))'
  <2>1. DeviceProfileKey(api[c].id) \in Keys
    BY <1>0, <1>8, KeysOK DEF CallOK, Idle, DeviceProfileCalls
  <2>2. cache'[DeviceProfileKey(api[c].id)] = None \/ cache'[DeviceProfileKey(api[c].id)].excused
    BY <1>0, <1>5, <1>8, <2>1 DEF CallCovered, CopyKept, Clean
  <2> QED
    BY <1>3, <2>2 DEF Clean
<1>9. CallCovered(c)'
  BY <1>2, <1>3, <1>7, <1>8 DEF CallCovered
<1>10. \A e \in Clients : e # c => api'[e] = api[e]
  BY <1>0, <1>1
<1> QED
  BY <1>2, <1>9, <1>10, SameViews DEF ApiStep

\* Calls that neither change a view nor are to
LEMMA OtherRespects ==
    ASSUME IInv, NEW c \in Clients,
           \/ CreateRoutingProfile(c) \/ WriteGatewayProfile(c) \/ CallBegins(c) \/ LocksGateway(c)
           \/ DeleteGatewayEnds(c) \/ BreakOff(c) \/ (UpdateEnds(c) /\ UpdateRoutingProfileEnds(c))
    PROVE  Respects
<1>0. /\ api = [e \in Clients |-> api[e]] /\ CallOK(api[c])
      /\ lock \in [Gateways -> Clients \cup {None}]
  BY DEF IInv, ProgressTyped
<1>1. ApiStep(c)
  BY DEF ApiStep, CreateProfile
<1>2. ASSUME NEW x, api' = [api EXCEPT ![c] = x]
      PROVE  (\A e \in Clients : e # c => api'[e] = api[e]) /\ api'[c] = x
  BY <1>0, <1>2
<1>3. Idle.op \notin ServiceProfileCalls \cup DeviceProfileCalls
  BY DEF Idle, ServiceProfileCalls, DeviceProfileCalls
<1>4. CASE CreateRoutingProfile(c) \/ WriteGatewayProfile(c)
  <2>1. UNCHANGED <<serviceProfile, deviceProfile, gateway, lock, api>>
    BY <1>4 DEF CreateRoutingProfile, WriteGatewayProfile, CreateGatewayProfile, UpdateGatewayProfile,
       DeleteGatewayProfile, AtOnce
  <2> QED
    BY <1>1, <2>1, SameViews
<1>5. CASE CallBegins(c)
  <2>1. UNCHANGED <<serviceProfile, deviceProfile, gateway, lock>>
    BY <1>5 DEF CallBegins, rows
  <2>2. PICK op \in GatewayCalls \cup {"updateRoutingProfile"} :
            \E id, row : api' = [api EXCEPT ![c] = Call(op, id, row, {})]
    BY <1>5 DEF CallBegins, Begin
  <2>3. PICK id, row : api' = [api EXCEPT ![c] = Call(op, id, row, {})]
    BY <2>2
  <2>4. Call(op, id, row, {}).op \notin ServiceProfileCalls \cup DeviceProfileCalls
    BY DEF Call, GatewayCalls, ServiceProfileCalls, DeviceProfileCalls
  <2> QED
    BY <1>1, <1>2, <2>1, <2>3, <2>4, SameViews
<1>6. CASE LocksGateway(c)
  <2>1. UNCHANGED <<serviceProfile, deviceProfile, gateway>>
    BY <1>6 DEF LocksGateway, rows
  <2>2. CASE api' = [api EXCEPT ![c] = Idle] /\ lock' = lock
    BY <1>1, <1>2, <1>3, <2>1, <2>2, SameViews
  <2>3. CASE api' = api /\ lock' = [lock EXCEPT ![api[c].id] = c] /\ cache' = Flush({GatewayMetaKey(api[c].id)})
    <3>1. api[c].id \in Gateways
      BY <1>0, <1>6 DEF LocksGateway, CallOK, Idle, GatewayCalls
    <3>2. Clean(GatewayMetaKey(api[c].id))'
      BY <2>3, <3>1, KeysOK DEF Clean, Flush, GatewayMetaKey
    <3>3. \A g \in Gateways : lock'[g] = lock[g] \/ g = api[c].id
      BY <1>0, <2>3
    <3>4. \A g \in Gateways : g = api[c].id => Clean(GatewayMetaKey(g))'
      BY <2>3, <3>2 DEF Clean, GatewayMetaKey
    <3> QED
      BY <1>1, <2>1, <2>3, <3>3, <3>4, SameViews
  <2> QED
    BY <1>6, <2>2, <2>3 DEF LocksGateway, UpdateGatewayRow, Done, FlushGatewayMetaCache
<1>7. CASE DeleteGatewayEnds(c) \/ BreakOff(c)
  <2>1. /\ UNCHANGED <<serviceProfile, deviceProfile, gateway>>
        /\ api' = [api EXCEPT ![c] = Idle]
        /\ \A g \in Gateways : lock'[g] = None \/ lock'[g] = lock[g]
    BY <1>7 DEF DeleteGatewayEnds, BreakOff, rows, Done
  <2> QED
    BY <1>1, <1>2, <1>3, <2>1, SameViews
<1>8. CASE UpdateEnds(c) /\ UpdateRoutingProfileEnds(c)
  <2>1. /\ UNCHANGED <<serviceProfile, deviceProfile, gateway, lock>>
        /\ api' = [api EXCEPT ![c] = Idle]
    BY <1>8 DEF UpdateEnds, UpdateRoutingProfileEnds, Done
  <2> QED
    BY <1>1, <1>2, <1>3, <2>1, SameViews
<1> QED
  BY <1>4, <1>5, <1>6, <1>7, <1>8

\* New rows have no copies: nobody found a row to copy.
LEMMA CreateRespects ==
    ASSUME IInv, NEW c \in Clients, CreateServiceProfile(c) \/ CreateDeviceProfile(c) \/ CreateGateway(c)
    PROVE  Respects
<1>0. RowsTyped /\ RefInv
  BY DEF IInv
<1>1. ApiStep(c)
  BY DEF ApiStep, CreateProfile
<1>2. \A k \in Keys : CopyKept(k)
  BY <1>1, ApiPending
<1>3. UNCHANGED <<api, lock>>
  BY DEF CreateServiceProfile, CreateDeviceProfile, CreateGateway, AtOnce
<1>4. ASSUME NEW k \in Keys PROVE View(k)' = View(k) \/ View(k) = None
  <2>1. CASE CreateServiceProfile(c)
    <3>1. PICK s \in ServiceProfiles, row \in ServiceProfileRow :
              serviceProfile[s] = None /\ serviceProfile' = [serviceProfile EXCEPT ![s] = row]
      BY <2>1 DEF CreateServiceProfile, InsertServiceProfile, Put
    <3>2. UNCHANGED <<deviceProfile, gateway>>
      BY <2>1 DEF CreateServiceProfile
    <3>3. CASE k[1] # "gwm"
      BY <1>0, <3>1, <3>2, <3>3, KeysOK, Views, ViewsPrimed DEF RowsTyped
    <3>4. ASSUME NEW g \in Gateways, k = GatewayMetaKey(g) PROVE View(GatewayMetaKey(g))' = View(GatewayMetaKey(g))
      <4>1. gateway[g] # None /\ gateway[g].serviceProfileID # None =>
                /\ serviceProfile[gateway[g].serviceProfileID] # None
                /\ gateway[g].serviceProfileID \in ServiceProfiles
        BY <1>0 DEF RowsTyped, RefInv, ForeignKeys, GatewayRow
      <4>2. \A t \in ServiceProfiles : serviceProfile[t] # None => serviceProfile'[t] = serviceProfile[t]
        BY <1>0, <3>1 DEF RowsTyped
      <4> QED
        BY <3>2, <4>1, <4>2, MetaKept
    <3> QED
      BY <3>3, <3>4, KeysOK
  <2>2. CASE CreateDeviceProfile(c)
    <3>1. PICK d \in DeviceProfiles, row \in DeviceProfileRow :
              deviceProfile[d] = None /\ deviceProfile' = [deviceProfile EXCEPT ![d] = row]
      BY <2>2 DEF CreateDeviceProfile, InsertDeviceProfile, Put
    <3>2. UNCHANGED <<serviceProfile, gateway>>
      BY <2>2 DEF CreateDeviceProfile
    <3>3. CASE k[1] # "gwm"
      BY <1>0, <3>1, <3>2, <3>3, KeysOK, Views, ViewsPrimed DEF RowsTyped
    <3>4. ASSUME NEW g \in Gateways, k = GatewayMetaKey(g) PROVE View(GatewayMetaKey(g))' = View(GatewayMetaKey(g))
      BY <3>2, MetaKept
    <3> QED
      BY <3>3, <3>4, KeysOK
  <2>3. CASE CreateGateway(c)
    <3>1. PICK g \in Gateways, request \in Requests :
              gateway[g] = None /\ gateway' = [gateway EXCEPT ![g] = NewGateway(request)]
      BY <2>3 DEF CreateGateway, InsertGateway, Put
    <3>2. UNCHANGED <<serviceProfile, deviceProfile>>
      BY <2>3 DEF CreateGateway
    <3>3. CASE k[1] # "gwm"
      BY <3>2, <3>3, KeysOK, Views, ViewsPrimed
    <3>4. ASSUME NEW f \in Gateways, k = GatewayMetaKey(f), f # g
          PROVE  View(GatewayMetaKey(f))' = View(GatewayMetaKey(f))
      BY <1>0, <3>1, <3>2, <3>4, MetaKept DEF RowsTyped
    <3>5. View(GatewayMetaKey(g)) = None
      BY <3>1, Views, KeyParts DEF GetGatewayMeta
    <3> QED
      BY <3>3, <3>4, <3>5, KeysOK
  <2> QED
    BY <2>1, <2>2, <2>3
<1>5. ASSUME NEW g \in Gateways
      PROVE  \/ gateway'[g] = gateway[g]
             \/ gateway[g] = None
  BY <1>0 DEF CreateServiceProfile, CreateDeviceProfile, CreateGateway, InsertGateway, Put, RowsTyped
<1>6. ASSUME NEW g \in Gateways, gateway[g] = None
      PROVE  Clean(GatewayMetaKey(g))' \/ Pending(GatewayMetaKey(g))'
  <2> DEFINE k == GatewayMetaKey(g)
  <2>1. k \in Keys /\ View(k) = None
    BY <1>6, Views, KeyParts, KeysOK DEF GetGatewayMeta
  <2> HIDE DEF k
  <2>2. Clean(k) \/ Pending(k)
    BY <2>1, RowSetOK DEF IInv, FreshInv, CopyAgrees, CacheTyped, CopyOK, Clean
  <2>3. Clean(k)' \/ Pending(k)'
    BY <1>2, <2>1, <2>2 DEF CopyKept
  <2> QED
    BY <2>3 DEF k
<1> QED
  BY <1>2, <1>3, <1>4, <1>5, <1>6 DEF Respects

\* The copies of the gateways that go with a routing-profile are excused.
LEMMA DeleteRoutingRespects ==
    ASSUME IInv, NEW c \in Clients, DeleteRoutingProfile(c)
    PROVE  Respects
<1>0. RowsTyped /\ \A k \in Keys : CopyOK(k, cache[k])
  BY DEF IInv, CacheTyped
<1>1. PICK r \in RoutingProfiles :
          /\ gateway' = [g \in Gateways |-> IF Refers(gateway[g], "routingProfileID", r) THEN None ELSE gateway[g]]
          /\ cache' = [k \in Keys |->
                IF /\ k[1] = "gwm" /\ cache[k] # None
                   /\ Refers(gateway[k[2]], "routingProfileID", r)
                THEN [cache[k] EXCEPT !.excused = TRUE] ELSE cache[k]]
          /\ UNCHANGED <<serviceProfile, deviceProfile, api, lock>>
  BY DEF DeleteRoutingProfile, DeleteRoutingProfileRow, Cascade, AtOnce
<1>2. \A k \in Keys : CopyKept(k)
  BY ApiPending DEF ApiStep
<1>3. ASSUME NEW g \in Gateways, Refers(gateway[g], "routingProfileID", r)
      PROVE  Clean(GatewayMetaKey(g))'
  <2> DEFINE k == GatewayMetaKey(g)
  <2>1. k \in Keys /\ k[1] = "gwm" /\ k[2] = g
    BY KeysOK, KeyParts
  <2> HIDE DEF k
  <2>2. cache[k] # None => cache'[k] = [cache[k] EXCEPT !.excused = TRUE]
    BY <1>1, <1>3, <2>1
  <2>3. cache[k] = None => cache'[k] = None
    BY <1>1, <2>1
  <2>4. cache[k] # None => [cache[k] EXCEPT !.excused = TRUE].excused = TRUE
    BY <1>0, <2>1 DEF CopyOK
  <2>5. Clean(k)'
    BY <2>2, <2>3, <2>4 DEF Clean
  <2> QED
    BY <2>5 DEF k
<1>4. ASSUME NEW g \in Gateways, ~Refers(gateway[g], "routingProfileID", r)
      PROVE  gateway'[g] = gateway[g] /\ View(GatewayMetaKey(g))' = View(GatewayMetaKey(g))
  BY <1>1, <1>4, MetaKept
<1>5. ASSUME NEW k \in Keys PROVE View(k)' = View(k) \/ Clean(k)'
  <2>1. CASE k[1] # "gwm"
    BY <1>1, <2>1, KeysOK, Views, ViewsPrimed
  <2>2. CASE k[1] = "gwm" /\ k[2] \in Gateways /\ k = GatewayMetaKey(k[2])
    BY <1>3, <1>4, <2>2
  <2> QED
    BY <2>1, <2>2, KeysOK
<1> QED
  BY <1>1, <1>2, <1>3, <1>4, <1>5 DEF Respects

\* The write of a profile: the copies that depend on it are gone.
LEMMA WriteRespects ==
    ASSUME IInv, NEW c \in Clients, UpdateEnds(c), ~UpdateRoutingProfileEnds(c)
    PROVE  Respects
<1>0. /\ RowsTyped /\ RefInv /\ CallOK(api[c]) /\ CallCovered(c)
      /\ api = [e \in Clients |-> api[e]]
  BY DEF IInv, ProgressTyped, FreshInv
<1>1. \A k \in Keys : CopyKept(k)
  BY ApiPending DEF ApiStep
<1>2. lock' = lock /\ api' = [api EXCEPT ![c] = Idle]
  BY DEF UpdateEnds, Done
<1>3. \A e \in Clients : api'[e] = api[e] \/ api'[e].op \notin ServiceProfileCalls \cup DeviceProfileCalls
  BY <1>0, <1>2 DEF Idle, ServiceProfileCalls, DeviceProfileCalls
<1>4. CASE DeviceProfileEnds(c)
  <2> DEFINE d == api[c].id
  <2>1. d \in DeviceProfiles
    BY <1>0, <1>4 DEF DeviceProfileEnds, CallOK, Idle, DeviceProfileCalls
  <2>2. UNCHANGED <<serviceProfile, gateway>> /\ \A i \in DeviceProfiles : i # d => deviceProfile'[i] = deviceProfile[i]
    BY <1>0, <1>4 DEF DeviceProfileEnds, Put, RowsTyped
  <2>3. Clean(DeviceProfileKey(d))
    BY <1>0, <1>4 DEF CallCovered, DeviceProfileEnds
  <2> HIDE DEF d
  <2>4. ASSUME NEW k \in Keys PROVE View(k)' = View(k) \/ Clean(k)'
    <3>1. CASE k[1] = "sp"
      BY <2>2, <3>1, Views, ViewsPrimed
    <3>2. CASE k[1] = "gwm" /\ k[2] \in Gateways /\ k = GatewayMetaKey(k[2])
      BY <2>2, <3>2, MetaKept
    <3>3. CASE k[1] = "dp" /\ k[2] \in DeviceProfiles /\ k[2] # d
      BY <2>2, <3>3, Views, ViewsPrimed
    <3>4. CASE k = DeviceProfileKey(d)
      BY <1>1, <2>3, <3>4 DEF CopyKept
    <3> QED
      BY <3>1, <3>2, <3>3, <3>4, KeysOK
  <2> QED
    BY <1>1, <1>2, <1>3, <2>2, <2>4 DEF Respects
<1>5. CASE UpdateServiceProfileEnds(c) \/ DeleteServiceProfileEnds(c)
  <2> DEFINE s == api[c].id
  <2>1. s \in ServiceProfiles /\ api[c].op \in ServiceProfileCalls /\ api[c].todo = {}
    BY <1>0, <1>5 DEF UpdateServiceProfileEnds, DeleteServiceProfileEnds, CallOK, Idle, ServiceProfileCalls
  <2>2. deviceProfile' = deviceProfile /\ \A t \in ServiceProfiles : t # s => serviceProfile'[t] = serviceProfile[t]
    BY <1>0, <1>5 DEF UpdateServiceProfileEnds, UpdateServiceProfileRow, DeleteServiceProfileEnds,
       DeleteServiceProfileRow, Put, RowsTyped
  <2>3. \A g \in Gateways : \/ gateway'[g] = gateway[g]
                            \/ gateway'[g] = None /\ Refers(gateway[g], "serviceProfileID", s)
    BY <1>5 DEF UpdateServiceProfileEnds, DeleteServiceProfileEnds, DeleteServiceProfileRow, Cascade
  <2>4. Clean(ServiceProfileKey(s))
    BY <1>0, <2>1 DEF CallCovered
  <2>5. ASSUME NEW g \in Gateways, Refers(gateway[g], "serviceProfileID", s)
        PROVE  Clean(GatewayMetaKey(g))' \/ Pending(GatewayMetaKey(g))'
    <3>1. Clean(GatewayMetaKey(g)) \/ Pending(GatewayMetaKey(g))
      BY <1>0, <2>1, <2>5 DEF CallCovered
    <3> QED
      BY <1>1, <3>1, KeysOK DEF CopyKept
  <2> HIDE DEF s
  <2>6. ASSUME NEW g \in Gateways, ~Refers(gateway[g], "serviceProfileID", s)
        PROVE  View(GatewayMetaKey(g))' = View(GatewayMetaKey(g))
    <3>1. gateway'[g] = gateway[g]
      BY <2>3, <2>6
    <3>2. gateway[g] # None /\ gateway[g].serviceProfileID # None =>
              gateway[g].serviceProfileID \in ServiceProfiles /\ gateway[g].serviceProfileID # s
      BY <1>0, <2>6 DEF RowsTyped, GatewayRow, Refers
    <3> QED
      BY <2>2, <3>1, <3>2, MetaKept
  <2>7. ASSUME NEW k \in Keys PROVE View(k)' = View(k) \/ Clean(k)' \/ Pending(k)'
    <3>1. CASE k[1] = "dp"
      BY <2>2, <3>1, Views, ViewsPrimed
    <3>2. CASE k[1] = "gwm" /\ k[2] \in Gateways /\ k = GatewayMetaKey(k[2])
      BY <2>5, <2>6, <3>2
    <3>3. CASE k[1] = "sp" /\ k[2] \in ServiceProfiles /\ k[2] # s
      BY <2>2, <3>3, Views, ViewsPrimed
    <3>4. CASE k = ServiceProfileKey(s)
      BY <1>1, <2>4, <3>4 DEF CopyKept
    <3> QED
      BY <3>1, <3>2, <3>3, <3>4, KeysOK
  <2> QED
    BY <1>1, <1>2, <1>3, <2>3, <2>7 DEF Respects
<1> QED
  BY <1>4, <1>5 DEF UpdateEnds

\* The commit of a gateway: its copy was flushed in the transaction, and what
\* was read since is excused.  The delete of a gateway: its flush is to come.
LEMMA GatewayRespects ==
    ASSUME IInv, NEW c \in Clients, CommitGateway(c) \/ DeleteGatewayBegins(c)
    PROVE  Respects
<1>0. /\ RowsTyped /\ CallOK(api[c]) /\ api = [e \in Clients |-> api[e]]
      /\ lock \in [Gateways -> Clients \cup {None}]
  BY DEF IInv, ProgressTyped
<1>1. \A k \in Keys : CopyKept(k)
  BY ApiPending DEF ApiStep
<1>2. ASSUME NEW g \in Gateways, Clean(GatewayMetaKey(g))' \/ Pending(GatewayMetaKey(g))',
             \A f \in Gateways : f # g => gateway'[f] = gateway[f],
             UNCHANGED <<serviceProfile, deviceProfile>>,
             api'[c].op \notin ServiceProfileCalls \cup DeviceProfileCalls,
             \A e \in Clients : e # c => api'[e] = api[e],
             \A f \in Gateways : lock'[f] = None \/ lock'[f] = lock[f]
      PROVE  Respects
  <2>1. ASSUME NEW k \in Keys PROVE View(k)' = View(k) \/ Clean(k)' \/ Pending(k)'
    <3>1. CASE k[1] # "gwm"
      BY <1>2, <3>1, KeysOK, Views, ViewsPrimed
    <3>2. CASE k[1] = "gwm" /\ k[2] \in Gateways /\ k = GatewayMetaKey(k[2]) /\ k[2] # g
      BY <1>2, <3>2, MetaKept
    <3>3. CASE k = GatewayMetaKey(g)
      BY <1>2, <3>3
    <3> QED
      BY <3>1, <3>2, <3>3, KeysOK
  <2> QED
    BY <1>1, <1>2, <2>1 DEF Respects
<1>3. CASE CommitGateway(c)
  <2>0. PICK g : g = api[c].id
    OBVIOUS
  <2>1. /\ gateway' = [gateway EXCEPT ![g] = api[c].row] /\ lock' = [lock EXCEPT ![g] = None]
        /\ api' = [api EXCEPT ![c] = Idle] /\ lock[g] = c /\ api[c].op \in GatewayCalls
        /\ UNCHANGED <<serviceProfile, deviceProfile>>
    BY <1>3, <2>0 DEF CommitGateway, Put, Done, GatewayCalls
  <2>2. g \in Gateways
    BY <1>0, <2>0, <2>1 DEF CallOK, Idle, GatewayCalls
  <2>3. Clean(GatewayMetaKey(g))
    BY <2>1, <2>2, Constants DEF IInv, FreshInv
  <2>4. Clean(GatewayMetaKey(g))'
    BY <1>1, <2>2, <2>3, KeysOK DEF CopyKept
  <2>5. api'[c].op \notin ServiceProfileCalls \cup DeviceProfileCalls /\ \A e \in Clients : e # c => api'[e] = api[e]
    BY <1>0, <2>1 DEF Idle, ServiceProfileCalls, DeviceProfileCalls
  <2>6. /\ \A f \in Gateways : f # g => gateway'[f] = gateway[f]
        /\ \A f \in Gateways : lock'[f] = None \/ lock'[f] = lock[f]
    BY <1>0, <2>1 DEF RowsTyped
  <2> QED
    BY <1>2, <2>1, <2>2, <2>4, <2>5, <2>6
<1>4. CASE DeleteGatewayBegins(c)
  <2>1. PICK g \in Gateways : /\ gateway' = [gateway EXCEPT ![g] = None]
                              /\ api' = [api EXCEPT ![c] = Call("deleteGateway", g, None, {})]
    BY <1>4 DEF DeleteGatewayBegins, DeleteGatewayRow, Put, Begin
  <2>2. UNCHANGED <<serviceProfile, deviceProfile, lock>>
    BY <1>4 DEF DeleteGatewayBegins
  <2>3. api'[c].op = "deleteGateway" /\ api'[c].id = g /\ \A e \in Clients : e # c => api'[e] = api[e]
    BY <1>0, <2>1 DEF Call
  <2>4. Pending(GatewayMetaKey(g))'
    BY <2>3 DEF Pending, GatewayMetaKey
  <2>5. \A f \in Gateways : f # g => gateway'[f] = gateway[f]
    BY <1>0, <2>1 DEF RowsTyped
  <2>6. "deleteGateway" \notin ServiceProfileCalls \cup DeviceProfileCalls
    BY DEF ServiceProfileCalls, DeviceProfileCalls
  <2> QED
    BY <1>2, <2>2, <2>3, <2>4, <2>5, <2>6
<1> QED
  BY <1>3, <1>4

\* API calls leave fresh copies.
LEMMA ApiFresh ==
    ASSUME IInv, NEW c \in Clients, ApiStep(c), ProgressTyped'
    PROVE  FreshInv'
<1>1. ASSUME CreateProfile(c) \/ CreateGateway(c) \/ DeleteRoutingProfile(c) PROVE Respects
  BY <1>1, CreateRespects, OtherRespects, DeleteRoutingRespects DEF CreateProfile
<1>2. ASSUME ServiceProfileFlushed(c) \/ DeviceProfileFlushed(c) \/ FlushNextGatewayMeta(c) PROVE Respects
  BY <1>2, FlushedRespects, FlushNextRespects
<1>3. ASSUME WriteGatewayProfile(c) \/ CallBegins(c) \/ LocksGateway(c) \/ DeleteGatewayEnds(c) \/ BreakOff(c) PROVE Respects
  BY <1>3, OtherRespects
<1>4. ASSUME UpdateEnds(c) PROVE Respects
  BY <1>4, OtherRespects, WriteRespects
<1>5. ASSUME CommitGateway(c) \/ DeleteGatewayBegins(c) PROVE Respects
  BY <1>5, GatewayRespects
<1>6. Respects
  BY <1>1, <1>2, <1>3, <1>4, <1>5 DEF ApiStep
<1> QED
  BY <1>6, RespectsOK, ApiReaders DEF FreshInv

\* A step of a handler leaves the others alone, but for the excuse; only the
\* one that has to flush does so.
LEMMA HandlerFrame ==
    ASSUME IInv, NEW h \in Handlers, HandlerStep(h)
    PROVE  /\ UNCHANGED <<api, lock>>
           /\ \A i \in Handlers : i # h => hnd'[i] = hnd[i] \/ (HandleStats(h) /\ hnd'[i] = Excuse(hnd)[i])
           /\ HandleStats(h) \/ UNCHANGED rows
           /\ StatsAt(h, "flush") => FlushGatewayState(h) \/ StatsBreakOff(h)
           /\ \/ HandleStats(h) \/ hnd'[h] = Idle \/ hnd'[h].at \notin {"set", "flush"}
              \/ \E k \in Keys : /\ hnd'[h].at = "set" /\ hnd'[h].key = k /\ hnd'[h].val = View(k)
                                 /\ hnd'[h].excused = Writing
<1>0. hnd = [i \in Handlers |-> hnd[i]] /\ HandlerOK(hnd[h])
  BY DEF IInv, ProgressTyped
<1>1. UNCHANGED <<api, lock>>
  BY DEF HandlerStep, Caches, GetAndCache, HandleStats, FlushGatewayState, SelectGatewayProfile,
     HandleGatewayConfigurationUpdate, ForwardGatewayStats, StatsBreakOff
<1>2. HandleStats(h) \/ UNCHANGED rows
  BY DEF HandlerStep, Caches, GetAndCache, FlushGatewayState, SelectGatewayProfile,
     HandleGatewayConfigurationUpdate, ForwardGatewayStats, StatsBreakOff
<1>3. StatsAt(h, "flush") => FlushGatewayState(h) \/ StatsBreakOff(h)
  BY DEF HandlerStep, Caches, GetAndCache, HandleStats, SelectGatewayProfile,
     HandleGatewayConfigurationUpdate, ForwardGatewayStats, StatsAt
<1>4. CASE Caches(h)
  BY <1>1, <1>2, <1>3, <1>4, CachesOK
<1>5. CASE \E k \in Keys : GetAndCache(h, k)
  BY <1>1, <1>2, <1>3, <1>5, GetAndCacheOK
<1>6. CASE HandleStats(h)
  BY <1>1, <1>3, <1>6, StatsOK
<1>7. CASE FlushGatewayState(h)
  BY <1>1, <1>2, <1>3, <1>7, MovesOK DEF FlushGatewayState, StatsAt
<1>8. CASE SelectGatewayProfile(h)
  BY <1>1, <1>2, <1>3, <1>8, SelectOK
<1>9. CASE HandleGatewayConfigurationUpdate(h)
  BY <1>1, <1>2, <1>3, <1>9, MovesOK DEF HandleGatewayConfigurationUpdate, StatsAt
<1>10. CASE ForwardGatewayStats(h) \/ StatsBreakOff(h)
  <2>1. hnd' = [hnd EXCEPT ![h] = Idle]
    BY <1>10 DEF ForwardGatewayStats, StatsBreakOff
  <2> QED
    BY <1>0, <1>1, <1>2, <1>3, <2>1
<1> QED
  BY <1>4, <1>5, <1>6, <1>7, <1>8, <1>9, <1>10 DEF HandlerStep

\* The flush that a handler has to do is done, or it breaks off and the copy
\* is excused.
LEMMA HandlerPending ==
    ASSUME IInv, NEW h \in Handlers, HandlerStep(h), NEW k \in Keys, Pending(k)
    PROVE  Pending(k)' \/ Clean(k)'
<1>0. cache = [i \in Keys |-> cache[i]] /\ \A i \in Keys : CopyOK(i, cache[i])
  BY DEF IInv, CacheTyped
<1>1. CASE \E e \in Clients : api[e].op = "deleteGateway" /\ k = GatewayMetaKey(api[e].id)
  BY <1>1, HandlerFrame DEF Pending, GatewayMetaKey
<1>2. ASSUME NEW i \in Handlers, i # h, StatsAt(i, "flush"), k = hnd[i].key PROVE Pending(k)'
  <2>1. hnd'[i] = hnd[i]
    BY <1>2, HandlerFrame, ExcuseOK DEF StatsAt
  <2> QED
    BY <1>2, <2>1 DEF Pending, StatsAt
<1>3. ASSUME StatsAt(h, "flush"), k = hnd[h].key PROVE Clean(k)'
  <2>1. k = GatewayMetaKey(GatewayOf(h))
    <3>1. k[1] = "gwm"
      BY <1>3 DEF StatsAt, IInv, ProgressTyped, HandlerOK
    <3> QED
      BY <1>3, <3>1, KeysOK DEF GatewayOf
  <2>2. CASE FlushGatewayState(h)
    BY <2>1, <2>2 DEF FlushGatewayState, FlushGatewayMetaCache, Flush, Clean
  <2>3. CASE StatsBreakOff(h)
    <3>1. cache' = [cache EXCEPT ![k] = IF cache[k] = None THEN None ELSE [cache[k] EXCEPT !.excused = TRUE]]
      BY <1>0, <1>3, <2>3 DEF StatsBreakOff
    <3>2. cache[k] # None => [cache[k] EXCEPT !.excused = TRUE].excused = TRUE
      BY <1>0 DEF CopyOK
    <3> QED
      BY <1>0, <3>1, <3>2 DEF Clean
  <2> QED
    BY <1>3, <2>2, <2>3, HandlerFrame
<1> QED
  BY <1>1, <1>2, <1>3 DEF Pending

\* A handler starts to write only with a report.
LEMMA HandlerWriting ==
    ASSUME IInv, NEW h \in Handlers, HandlerStep(h), ~HandleStats(h), ~Writing
    PROVE  ~Writing'
<1>1. api' = api
  BY HandlerFrame
<1>2. ASSUME NEW i \in Handlers PROVE hnd'[i] = Idle \/ hnd'[i].at # "flush"
  <2>1. hnd[i] = Idle \/ hnd[i].at # "flush"
    BY DEF Writing
  <2>2. CASE i # h
    BY <2>1, <2>2, HandlerFrame
  <2>3. CASE i = h
    BY <2>3, HandlerFrame
  <2> QED
    BY <2>2, <2>3
<1> QED
  BY <1>1, <1>2 DEF Writing

\* What handlers hold is fresh, or excused.
LEMMA HandlerReaders ==
    ASSUME IInv, NEW h \in Handlers, HandlerStep(h), NEW i \in Handlers
    PROVE  ReaderFresh(i)'
<1>1. CASE HandleStats(h)
  <2>1. CASE i # h
    BY <1>1, <2>1, StatsOK, ExcuseOK DEF ReaderFresh
  <2>2. CASE i = h
    BY <1>1, <2>2, StatsOK DEF ReaderFresh, StatsAt
  <2> QED
    BY <2>1, <2>2
<1>2. CASE ~HandleStats(h)
  <2>1. UNCHANGED <<serviceProfile, deviceProfile, gateway>>
    BY <1>2, HandlerFrame DEF rows
  <2>2. \A k \in Keys : View(k)' = View(k)
    BY <2>1, ViewsKept
  <2>3. SUFFICES ASSUME hnd'[i] # Idle, hnd'[i].at = "set", ~hnd'[i].excused
                 PROVE  ~Writing' /\ hnd'[i].val = View(hnd[i].key)'
    BY DEF ReaderFresh
  <2>4. CASE i # h
    <3>1. hnd'[i] = hnd[i]
      BY <1>2, <2>4, HandlerFrame
    <3>2. ~Writing /\ hnd[i].val = View(hnd[i].key) /\ hnd[i].key \in Keys
      BY <2>3, <3>1 DEF IInv, FreshInv, ReaderFresh, ProgressTyped, HandlerOK, HandlerRecord
    <3>3. PICK k \in Keys : k = hnd[i].key
      BY <3>2
    <3>4. View(k)' = View(k) /\ hnd[i].val = View(k)
      BY <2>2, <3>2, <3>3
    <3>5. View(hnd[i].key)' = View(k)'
      BY <3>1, <3>3 DEF View, SelectServiceProfile, SelectDeviceProfile, GetGatewayMeta
    <3> QED
      BY <1>2, <3>1, <3>2, <3>4, <3>5, HandlerWriting
  <2>5. CASE i = h
    <3>1. PICK k \in Keys : hnd'[h].key = k /\ hnd'[h].val = View(k) /\ hnd'[h].excused = Writing
      BY <1>2, <2>3, <2>5, HandlerFrame
    <3>2. ~Writing
      BY <2>3, <2>5, <3>1
    <3>3. View(hnd[i].key)' = View(k)'
      BY <2>5, <3>1 DEF View, SelectServiceProfile, SelectDeviceProfile, GetGatewayMeta
    <3> QED
      BY <1>2, <2>2, <2>5, <3>1, <3>2, <3>3, HandlerWriting
  <2> QED
    BY <2>4, <2>5
<1> QED
  BY <1>1, <1>2

\* The copy of a row that was read while no call was in progress is the row:
\* no call has begun since.
LEMMA CachesFresh ==
    ASSUME IInv, NEW h \in Handlers, Caches(h), ProgressTyped'
    PROVE  FreshInv'
<1> DEFINE k == hnd[h].key
           x == Copy(hnd[h].val, hnd[h].stale, hnd[h].excused)
<1>0. hnd[h] # Idle /\ hnd[h].at = "set" /\ HandlerStep(h)
  BY DEF Caches, HandlerStep
<1>1. k \in Keys /\ CopyOK(k, x) /\ x.val = hnd[h].val /\ x.excused = hnd[h].excused
  BY <1>0, SetOK
<1>2. cache = [i \in Keys |-> cache[i]] /\ (cache' = cache \/ cache' = [cache EXCEPT ![k] = x])
  BY DEF IInv, CacheTyped, Caches, Set
<1>3. UNCHANGED <<serviceProfile, deviceProfile, gateway, api, lock>>
  BY DEF Caches, rows
<1>4. \A i \in Keys : View(i)' = View(i)
  BY <1>3, ViewsKept
<1>5. \A i \in Keys : Pending(i) => Pending(i)' \/ Clean(i)'
  BY <1>0, HandlerPending
<1>6. \A i \in Handlers : ReaderFresh(i)'
  BY <1>0, HandlerReaders
<1> HIDE DEF x
<1>7. CASE cache' = cache \/ x.excused
  <2>1. ASSUME NEW i \in Keys
        PROVE  (Clean(i) => Clean(i)') /\ (~Clean(i)' => cache'[i].val = cache[i].val)
    BY <1>1, <1>2, <1>7 DEF Clean
  <2>2. Respects
    BY <1>3, <1>4, <1>5, <2>1 DEF Respects, CopyKept
  <2> QED
    BY <1>6, <2>2, RespectsOK DEF FreshInv
<1>8. CASE ~x.excused /\ cache' = [cache EXCEPT ![k] = x]
  <2>1. ~Writing /\ x.val = View(k)
    BY <1>0, <1>1, <1>8 DEF IInv, FreshInv, ReaderFresh
  <2>2. \A e \in Clients : api[e] = Idle
    BY <2>1 DEF Writing
  <2>3. \A e \in Clients : CallCovered(e)'
    BY <1>3, <2>2 DEF CallCovered, Idle, ServiceProfileCalls, DeviceProfileCalls
  <2>4. \A g \in Gateways : lock'[g] = None
    BY <1>3, <2>2, LockHeld
  <2>5. ASSUME NEW i \in Keys PROVE CopyAgrees(i)'
    <3>1. CASE i = k
      <4>1. cache'[i] = x /\ View(i)' = View(i)
        BY <1>1, <1>2, <1>4, <1>8, <3>1
      <4> QED
        BY <2>1, <3>1, <4>1 DEF CopyAgrees
    <3>2. CASE i # k
      <4>1. cache'[i] = cache[i] /\ View(i)' = View(i)
        BY <1>2, <1>4, <1>8, <3>2
      <4>2. CopyAgrees(i)
        BY DEF IInv, FreshInv
      <4>3. (Clean(i) => Clean(i)') /\ cache'[i].val = cache[i].val
        BY <4>1 DEF Clean
      <4> QED
        BY <1>5, <4>1, <4>2, <4>3 DEF CopyAgrees
    <3> QED
      BY <3>1, <3>2
  <2> QED
    BY <1>6, <2>3, <2>4, <2>5 DEF FreshInv
<1> QED
  BY <1>2, <1>7, <1>8

\* The report of a gateway changes its row; the flush is to come.
LEMMA StatsRespects ==
    ASSUME IInv, NEW h \in Handlers, HandleStats(h)
    PROVE  Respects
<1>0. HandlerStep(h) /\ UNCHANGED <<serviceProfile, deviceProfile, api, lock>> /\ ~Caches(h)
  BY DEF HandlerStep, HandleStats, Caches
<1>1. \A k \in Keys : CopyKept(k)
  BY <1>0, HandlerFades, FadesOK, HandlerPending DEF CopyKept
<1>2. PICK g \in Gateways :
          /\ StatsAt(h, "flush")' /\ hnd'[h].key = GatewayMetaKey(g) /\ gateway[g] # None
          /\ \A f \in Gateways : f # g => gateway'[f] = gateway[f]
          /\ gateway'[g].serviceProfileID = gateway[g].serviceProfileID
  BY StatsOK
<1>3. Pending(GatewayMetaKey(g))'
  BY <1>2 DEF Pending, GatewayMetaKey
<1>4. ASSUME NEW k \in Keys PROVE View(k)' = View(k) \/ Pending(k)'
  <2>1. CASE k[1] # "gwm"
    BY <1>0, <2>1, KeysOK, Views, ViewsPrimed
  <2>2. CASE k[1] = "gwm" /\ k[2] \in Gateways /\ k = GatewayMetaKey(k[2]) /\ k[2] # g
    BY <1>0, <1>2, <2>2, MetaKept
  <2>3. CASE k = GatewayMetaKey(g)
    BY <1>3, <2>3
  <2> QED
    BY <2>1, <2>2, <2>3, KeysOK
<1>5. \A f \in Gateways :
          gateway'[f] = None \/ (gateway[f] # None /\ gateway'[f].serviceProfileID = gateway[f].serviceProfileID)
  BY <1>2
<1> QED
  BY <1>0, <1>1, <1>4, <1>5 DEF Respects

\* Handlers leave fresh copies.
LEMMA HandlerFresh ==
    ASSUME IInv, NEW h \in Handlers, HandlerStep(h), ProgressTyped'
    PROVE  FreshInv'
<1>1. \A i \in Handlers : ReaderFresh(i)'
  BY HandlerReaders
<1>2. CASE HandleStats(h)
  BY <1>1, <1>2, StatsRespects, RespectsOK DEF FreshInv
<1>3. CASE Caches(h)
  BY <1>3, CachesFresh
<1>4. CASE ~HandleStats(h) /\ ~Caches(h)
  <2>1. UNCHANGED <<serviceProfile, deviceProfile, gateway, api, lock>>
    BY <1>4, HandlerFrame DEF rows
  <2>2. \A k \in Keys : CopyKept(k) /\ View(k)' = View(k)
    BY <1>4, <2>1, HandlerFades, FadesOK, HandlerPending, ViewsKept DEF CopyKept
  <2>3. Respects
    BY <2>1, <2>2 DEF Respects
  <2> QED
    BY <1>1, <2>3, RespectsOK DEF FreshInv
<1> QED
  BY <1>2, <1>3, <1>4

\* Copies age, and expire.
LEMMA TickFresh ==
    ASSUME IInv, Tick, ProgressTyped'
    PROVE  FreshInv'
<1>1. /\ UNCHANGED <<serviceProfile, deviceProfile, gateway, api, lock>>
      /\ cache' = [k \in Keys |-> Age(k)]
  BY DEF Tick, rows
<1>2. \A k \in Keys : View(k)' = View(k)
  BY <1>1, ViewsKept
<1>3. \A h \in Handlers : StatsAt(h, "flush") => StatsAt(h, "flush")' /\ hnd'[h].key = hnd[h].key
  BY TickHandlersOK DEF StatsAt
<1>4. ASSUME NEW k \in Keys PROVE CopyKept(k)
  <2>1. cache'[k] # None => cache[k] # None /\ cache'[k].val = cache[k].val /\ cache'[k].excused = cache[k].excused
    BY <1>1, AgeOK
  <2>2. Pending(k) => Pending(k)'
    BY <1>1, <1>3 DEF Pending, GatewayMetaKey
  <2> QED
    BY <2>1, <2>2 DEF CopyKept, Clean
<1>5. Respects
  BY <1>1, <1>2, <1>4 DEF Respects
<1>6. ASSUME NEW h \in Handlers PROVE ReaderFresh(h)'
  <2>1. SUFFICES ASSUME hnd'[h] # Idle, hnd'[h].at = "set", ~hnd'[h].excused
                 PROVE  ~Writing' /\ hnd'[h].val = View(hnd[h].key)'
    BY DEF ReaderFresh
  <2>2. /\ hnd[h] # Idle /\ hnd[h].at = "set" /\ ~hnd[h].excused
        /\ hnd'[h].key = hnd[h].key /\ hnd'[h].val = hnd[h].val
    BY <2>1, TickHandlersOK
  <2>3. ~Writing /\ hnd[h].val = View(hnd[h].key) /\ hnd[h].key \in Keys
    BY <2>2 DEF IInv, FreshInv, ReaderFresh, ProgressTyped, HandlerOK, HandlerRecord
  <2>4. \A i \in Handlers : hnd'[i] # Idle /\ hnd'[i].at = "flush" => hnd[i] # Idle /\ hnd[i].at = "flush"
    BY TickHandlersOK
  <2>5. ~Writing'
    BY <1>1, <2>3, <2>4 DEF Writing
  <2>6. PICK k \in Keys : k = hnd[h].key
    BY <2>3
  <2>7. View(hnd[h].key)' = View(k)'
    BY <2>2, <2>6 DEF View, SelectServiceProfile, SelectDeviceProfile, GetGatewayMeta
  <2> QED
    BY <1>2, <2>2, <2>3, <2>5, <2>6, <2>7
<1> QED
  BY <1>5, <1>6, RespectsOK DEF FreshInv

-----------------------------------------------------------------------------
(* Theorems *)

\* Every step preserves the invariant.
LEMMA NextIInv == IInv /\ [Next]_vars => IInv'
<1> SUFFICES ASSUME IInv, [Next]_vars PROVE IInv'
  OBVIOUS
<1>1. CASE Next
  <2>1. RowsTyped' /\ ProgressTyped' /\ CacheTyped' /\ RefInv' /\ VersionInv'
    BY <1>1, RowsTypedStep, ProgressStep, CacheStep, RefStep, VersionStep
  <2>2. FreshInv'
    BY <1>1, <2>1, StepsOK, ApiFresh, HandlerFresh, TickFresh
  <2> QED
    BY <2>1, <2>2 DEF IInv
<1>2. CASE UNCHANGED vars
  <2> USE <1>2 DEF vars, rows, ghosts
  <2>1. RowsTyped' /\ ProgressTyped'
    BY DEF IInv, RowsTyped, ProgressTyped, CallOK, HandlerOK
  <2>2. CacheTyped' /\ RefInv'
    BY DEF IInv, CacheTyped, CopyOK, RowSet, RefInv, ForeignKeys
  <2>3. VersionInv'
    BY DEF IInv, VersionInv, ConfOK, Written, StatsAt
  <2>4. FreshInv'
    <3>1. \A k \in Keys : View(k)' = View(k)
      BY ViewsKept
    <3>2. \A k \in Keys : Clean(k)' = Clean(k) /\ Pending(k)' = Pending(k)
      BY DEF Clean, Pending, StatsAt, GatewayMetaKey
    <3>3. ASSUME NEW h \in Handlers PROVE ReaderFresh(h)'
      <4>1. ReaderFresh(h)
        BY DEF IInv, FreshInv
      <4>2. View(hnd[h].key)' = View(hnd[h].key)
        BY DEF View, SelectServiceProfile, SelectDeviceProfile, GetGatewayMeta
      <4>3. Writing' = Writing
        BY DEF Writing
      <4> QED
        BY <4>1, <4>2, <4>3 DEF ReaderFresh
    <3>4. \A k \in Keys : CopyKept(k)
      BY <3>2 DEF CopyKept
    <3>5. Respects
      BY <3>1, <3>4 DEF Respects
    <3> QED
      BY <2>1, <3>3, <3>5, RespectsOK DEF FreshInv
  <2> QED
    BY <2>1, <2>2, <2>3, <2>4 DEF IInv
<1> QED
  BY <1>1, <1>2

\* The invariant holds in every reachable state.
THEOREM Invariance == Spec => []IInv
BY InitIInv, NextIInv, PTL DEF Spec

\* Rows, locks and bounds have their types, and no gateway refers to a profile
\* that is gone, whatever calls delete and however they interleave.
THEOREM TypeCorrect == Spec => []TypeOK
<1>1. IInv => TypeOK
  <2> SUFFICES ASSUME IInv PROVE TypeOK
    OBVIOUS
  <2>1. ASSUME NEW p \in GatewayProfiles, gatewayProfile[p] # None
        PROVE  /\ gatewayProfile[p].channels \in Values /\ gatewayProfile[p].extraChannels \in Values
               /\ gatewayProfile[p].updatedAt \in 0 .. second
    <3>1. gatewayProfile[p] \in GatewayProfileRow /\ Written(p, gatewayProfile[p].updatedAt) /\ second \in Nat
      BY <2>1 DEF IInv, RowsTyped, VersionInv, ProgressTyped
    <3> QED
      BY <3>1 DEF GatewayProfileRow, Written
  <2>2. \A g \in Gateways : gateway[g] # None => gateway[g] \in GatewayRow /\ ForeignKeys(gateway[g])
    BY DEF IInv, RowsTyped, RefInv
  <2> QED
    BY <2>1, <2>2 DEF IInv, RowsTyped, ProgressTyped, TypeOK
<1> QED
  BY <1>1, Invariance, PTL

\* Copies that no call raced with agree with the database whenever no call is
\* in progress: no order of updates, deletes, reports, reads and break-offs
\* leaves a copy behind that its flush has missed.
THEOREM CopiesAgree == Spec => []CopiesFresh
<1>1. IInv => CopiesFresh
  <2> SUFFICES ASSUME IInv, ~Writing, NEW k \in Keys, cache[k] # None, ~cache[k].excused
               PROVE  cache[k].val = View(k)
    BY DEF CopiesFresh
  <2>1. ~Clean(k) /\ CopyAgrees(k)
    BY DEF Clean, IInv, FreshInv
  <2>2. ~Pending(k)
    BY DEF Pending, Writing, StatsAt, Idle
  <2> QED
    BY <2>1, <2>2 DEF CopyAgrees
<1> QED
  BY <1>1, Invariance, PTL

\* A copy is never older than its time to live and the time its row was held,
\* also where flushes were missed.
THEOREM StalenessBound == Spec => []StalenessBounded
<1>1. IInv => StalenessBounded
  <2> SUFFICES ASSUME IInv, NEW k \in Keys, cache[k] # None
               PROVE  cache[k].stale < TTL + Hold
    BY DEF StalenessBounded
  <2>1. /\ cache[k] \in [val : Contents, ttl : 1 .. TTL, stale : Nat, excused : BOOLEAN]
        /\ cache[k].stale + cache[k].ttl <= TTL + Hold
    BY DEF IInv, CacheTyped, CopyOK
  <2>2. cache[k].ttl \in 1 .. TTL /\ cache[k].stale \in Nat /\ TTL \in Nat /\ Hold \in Nat
    BY <2>1, Constants
  <2> QED
    BY <2>1, <2>2
<1> QED
  BY <1>1, Invariance, PTL

\* A gateway that applies the current version of a profile applies its
\* channels: the version tells all states of a profile apart, for any number
\* of updates between the two reads of a configuration.
THEOREM VersionMeansConfig == Spec => []VersionIdentifiesConfig
<1>1. IInv => VersionIdentifiesConfig
  <2> SUFFICES ASSUME IInv, ~clash, NEW g \in Gateways, NEW p \in GatewayProfiles,
                      conf[g] # None, gatewayProfile[p] # None,
                      conf[g].version = GetVersion(p, gatewayProfile[p])
               PROVE  /\ conf[g].channels = gatewayProfile[p].channels
                      /\ conf[g].extraChannels = gatewayProfile[p].extraChannels
    BY DEF VersionIdentifiesConfig
  <2>1. conf[g].version[1] = p /\ conf[g].version[2] = gatewayProfile[p].updatedAt
    BY DEF GetVersion
  <2>2. ConfOK(conf[g])
    BY DEF IInv, VersionInv
  <2> QED
    BY <2>1, <2>2 DEF ConfOK
<1> QED
  BY <1>1, Invariance, PTL
=============================================================================
