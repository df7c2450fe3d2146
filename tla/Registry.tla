------------------------------ MODULE Registry ------------------------------
(***************************************************************************)
(* Profiles, gateways and their caches: internal/storage/*_profile.go,     *)
(* internal/storage/gateway.go, the profile and gateway methods of         *)
(* internal/api/ns/network_server.go, internal/gateway/stats/stats.go and  *)
(* internal/gateway/rx_info.go.                                            *)
(*                                                                         *)
(* PostgreSQL holds the rows; Redis holds copies of the service-profiles,  *)
(* of the device-profiles and of the gateways' meta-data (a join of the    *)
(* gateway with its service-profile).  A copy is made by the first reader  *)
(* that misses it, is removed around an update of the row, and expires.    *)
(* API clients, uplink handlers and gateway-stats handlers interleave      *)
(* between the statements they send to PostgreSQL and Redis.               *)
(***************************************************************************)
EXTENDS Naturals, FiniteSets

CONSTANTS
    None,               \* nil, NULL or a missing row or key
    ServiceProfiles, DeviceProfiles, RoutingProfiles, GatewayProfiles,
    Gateways,
    Concentratord,      \* the gateways that support configuration updates
    Values,             \* contents of a row, as far as they are told apart
    Initial,            \* the one the profiles start with
    Requests,           \* what API clients set of a gateway
    Locations,          \* what gateways report as their location, or None
    Clients,            \* API calls that are handled concurrently
    Handlers,           \* uplink and gateway-stats handlers
    TTL,                \* the lifetime of a copy (deviceSessionTTL), in ticks
    Hold,               \* bound: ticks between the read of a row and its caching
    MaxCopies,          \* bound: copies at a time (no step uses two)
    MaxChanges,         \* bound: API calls
    MaxFaults           \* bound: calls that break off, lost configurations

ASSUME RegistryAssumption ==
    /\ Concentratord \subseteq Gateways /\ Locations \subseteq Values \cup {None}
    /\ Initial \in Values
    /\ Requests \subseteq [serviceProfileID : ServiceProfiles \cup {None},
                           gatewayProfileID : GatewayProfiles \cup {None},
                           routingProfileID : RoutingProfiles, location : Values]
    /\ TTL \in Nat \ {0} /\ Hold \in Nat /\ MaxCopies \in Nat
    /\ MaxChanges \in Nat /\ MaxFaults \in Nat

VARIABLES
    serviceProfile,     \* the rows, None when there is none
    deviceProfile,
    routingProfile,
    gatewayProfile,
    gateway,
    cache,              \* Redis: the copies
    lock,               \* lock[g]: the transaction that has written the row of g
    api,                \* api[c]: the API call in progress
    hnd,                \* hnd[h]: the handler's progress
    conf,               \* conf[g]: the configuration the gateway applies
    second,             \* the second of the clock that updated_at is taken from
    used,               \* the gateway-profiles written in this second
    clash,              \* a gateway-profile was written twice in one second
    changes, faults

rows == <<serviceProfile, deviceProfile, routingProfile, gatewayProfile, gateway>>
ghosts == <<used, clash>>
vars == <<rows, cache, lock, api, hnd, conf, second, ghosts, changes, faults>>

-----------------------------------------------------------------------------
(* Rows *)

\* The columns of gateway that some step depends on: the profiles, the
\* location, whether first_seen_at is set and whether tls_cert is
GatewayRow ==
    [serviceProfileID : ServiceProfiles \cup {None},
     gatewayProfileID : GatewayProfiles \cup {None},
     routingProfileID : RoutingProfiles, location : Values,
     seen : BOOLEAN, tlsCert : BOOLEAN]

ServiceProfileRow == [gwsPrivate : BOOLEAN]
DeviceProfileRow == [settings : Values]
RoutingProfileRow == [tlsKey : BOOLEAN]
GatewayProfileRow == [channels : Values, extraChannels : Values, updatedAt : Nat]

\* What handlers need of a gateway and of its service-profile
GatewayMeta ==
    [location : Values,
     serviceProfileID : ServiceProfiles \cup {None},
     gatewayProfileID : GatewayProfiles \cup {None},
     routingProfileID : RoutingProfiles, isPrivate : BOOLEAN]

ASSUME NoneAssumption ==
    /\ None \notin ServiceProfiles \cup GatewayProfiles \cup Clients
    /\ None \notin ServiceProfileRow \cup DeviceProfileRow \cup RoutingProfileRow
    /\ None \notin GatewayProfileRow \cup GatewayRow \cup GatewayMeta

\* The keys of the copies
ServiceProfileKey(s) == <<"sp", s>>
DeviceProfileKey(d) == <<"dp", d>>
GatewayMetaKey(g) == <<"gwm", g>>
Keys == {ServiceProfileKey(s) : s \in ServiceProfiles}
            \cup {DeviceProfileKey(d) : d \in DeviceProfiles}
            \cup {GatewayMetaKey(g) : g \in Gateways}

\* select * from service_profile, device_profile
SelectServiceProfile(s) == serviceProfile[s]
SelectDeviceProfile(d) == deviceProfile[d]
SelectRoutingProfile(r) == routingProfile[r]

\* The gateway joined with its service-profile: without one, the gateway is
\* not private
GetGatewayMeta(g) ==
    IF gateway[g] = None THEN None
    ELSE [location |-> gateway[g].location,
          serviceProfileID |-> gateway[g].serviceProfileID,
          gatewayProfileID |-> gateway[g].gatewayProfileID,
          routingProfileID |-> gateway[g].routingProfileID,
          isPrivate |-> /\ gateway[g].serviceProfileID # None
                        /\ serviceProfile[gateway[g].serviceProfileID].gwsPrivate]

\* What a reader finds in the database for a key
View(k) ==
    CASE k[1] = "sp" -> SelectServiceProfile(k[2])
      [] k[1] = "dp" -> SelectDeviceProfile(k[2])
      [] k[1] = "gwm" -> GetGatewayMeta(k[2])

-----------------------------------------------------------------------------
(* Progress of API calls and handlers *)

Idle == [op |-> "idle", at |-> "idle"]
Call(op, id, row, todo) == [op |-> op, id |-> id, row |-> row, todo |-> todo]

\* A read through the cache, by an uplink handler (rx) or for the stats of a
\* gateway; val is the row that was read, stale the ticks since the database
\* last agreed with it, held the ticks since it was read
Read(task, at, k, val, version, excused) ==
    [op |-> task, at |-> at, key |-> k, val |-> val, version |-> version,
     stale |-> 0, held |-> 0, excused |-> excused]

\* A call is between its first and its last statement
Writing ==
    \/ \E c \in Clients : api[c] # Idle
    \/ \E h \in Handlers : hnd[h] # Idle /\ hnd[h].at = "flush"

\* Readers that hold a row while a call writes are excused for what they cache
Excuse(hs) ==
    [h \in Handlers |-> IF hs[h] # Idle /\ hs[h].at = "set"
                        THEN [hs[h] EXCEPT !.excused = TRUE] ELSE hs[h]]

\* A new call of client c, bounded
Starts(c) ==
    /\ changes < MaxChanges
    /\ changes' = changes + 1
    /\ api[c] = Idle
    /\ hnd' = Excuse(hnd)

Begin(c, call) == Starts(c) /\ api' = [api EXCEPT ![c] = call]

\* The last statement of a call
Done(c) == api' = [api EXCEPT ![c] = Idle]

\* Transactions that have written a gateway row keep others from writing or
\* deleting the row, and the profiles that it refers to, until they end
Unlocked(g) == lock[g] = None
Refers(row, field, id) == row # None /\ row[field] = id
Deletable(field, id) ==
    \A g \in Gateways : lock[g] # None =>
        ~Refers(gateway[g], field, id) /\ ~Refers(api[lock[g]].row, field, id)

\* gateway rows are deleted with the service- and the routing-profile they
\* refer to (on delete cascade)
Cascade(field, id) ==
    gateway' = [g \in Gateways |->
                  IF Refers(gateway[g], field, id) THEN None ELSE gateway[g]]

\* The foreign keys of a gateway row
ForeignKeys(row) ==
    /\ row.serviceProfileID # None => serviceProfile[row.serviceProfileID] # None
    /\ row.gatewayProfileID # None => gatewayProfile[row.gatewayProfileID] # None
    /\ routingProfile[row.routingProfileID] # None

-----------------------------------------------------------------------------
(* The caches *)

Copy(val, stale, excused) ==
    [val |-> val, ttl |-> TTL, stale |-> stale, excused |-> excused]

Copies == Cardinality({k \in Keys : cache[k] # None})

Flush(ks) == [k \in Keys |-> IF k \in ks THEN None ELSE cache[k]]

FlushDeviceProfileCache(d) == cache' = Flush({DeviceProfileKey(d)})
FlushGatewayMetaCache(g) == cache' = Flush({GatewayMetaKey(g)})
\* Only the copy of the profile itself is removed
FlushNoGatewayMeta(s) == {}

\* The gateways whose meta-data is flushed with a service-profile, as they are
\* in the database at the moment of the flush
FlushGatewayMetaCacheForServiceProfile(s) ==
    {g \in Gateways : Refers(gateway[g], "serviceProfileID", s)}

\* The first step of FlushServiceProfileCache: the copy of the profile is
\* removed; the gateways that remain to be flushed are selected
FlushServiceProfileCache(c, op, s, row) ==
    /\ cache' = Flush({ServiceProfileKey(s)})
    /\ Begin(c, Call(op, s, row, FlushGatewayMetaCacheForServiceProfile(s)))

\* ... and its loop over these gateways
FlushNextGatewayMeta(c) ==
    /\ api[c] # Idle
    /\ \E g \in api[c].todo :
          /\ FlushGatewayMetaCache(g)
          /\ api' = [api EXCEPT ![c].todo = @ \ {g}]
    /\ UNCHANGED <<rows, lock, hnd, conf, second, ghosts, changes, faults>>

\* Get: a copy in the cache
GetGatewayMetaCache(g) == cache[GatewayMetaKey(g)]
GetServiceProfileCache(s) == cache[ServiceProfileKey(s)]
GetDeviceProfileCache(d) == cache[DeviceProfileKey(d)]
Get(k) ==
    CASE k[1] = "sp" -> GetServiceProfileCache(k[2])
      [] k[1] = "dp" -> GetDeviceProfileCache(k[2])
      [] k[1] = "gwm" -> GetGatewayMetaCache(k[2])

\* Set: the copy of a row that handler h has read
Set(h) == [cache EXCEPT ![hnd[h].key] = Copy(hnd[h].val, hnd[h].stale, hnd[h].excused)]
CreateDeviceProfileCache(h) == hnd[h].key[1] = "dp" /\ cache' = Set(h)
CreateServiceProfileCache(h) == hnd[h].key[1] = "sp" /\ cache' = Set(h)
CreateGatewayMetaCache(h) == hnd[h].key[1] = "gwm" /\ cache' = Set(h)

\* An uplink handler is done once it has the row; the stats handler goes on
Proceed(h, val) ==
    hnd' = [hnd EXCEPT ![h] = IF hnd[h] # Idle /\ @.op = "stats"
                              THEN [@ EXCEPT !.at = "config", !.val = val, !.stale = 0,
                                             !.held = 0, !.excused = FALSE]
                              ELSE Idle]
\* A copy that is read lives on
HitRefreshes(h, k) ==
    /\ Get(k) # None
    /\ Proceed(h, Get(k).val)
    /\ cache' = [cache EXCEPT ![k].ttl = TTL]

\* A copy is found: it is used as it is
Hit(h, k) ==
    /\ Get(k) # None
    /\ Proceed(h, Get(k).val)
    /\ UNCHANGED cache

\* There is no copy, or Redis does not answer: the row is read
Miss(h, k) ==
    /\ View(k) # None
    /\ hnd' = [hnd EXCEPT ![h] = IF @ = Idle
                                 THEN Read("rx", "set", k, View(k), None, Writing)
                                 ELSE Read("stats", "set", k, View(k), @.version, Writing)]
    /\ UNCHANGED cache

\* There is neither a copy nor a row: the handler returns the error
Unknown(h, k) ==
    /\ Get(k) = None /\ View(k) = None
    /\ hnd' = [hnd EXCEPT ![h] = Idle]
    /\ UNCHANGED cache

GetAndCache(h, k) ==
    /\ hnd[h] = Idle \/ (hnd[h].at = "get" /\ hnd[h].key = k)
    /\ Hit(h, k) \/ Miss(h, k) \/ Unknown(h, k)
    /\ UNCHANGED <<rows, lock, api, conf, second, ghosts, changes, faults>>

\* The row that was read is cached; an error of Redis is logged only
CacheRow(h, kind, Create(_)) ==
    /\ hnd[h] # Idle /\ hnd[h].at = "set" /\ hnd[h].key[1] = kind
    /\ (Create(h) /\ Copies' <= MaxCopies) \/ UNCHANGED cache
    /\ Proceed(h, hnd[h].val)
    /\ UNCHANGED <<rows, lock, api, conf, second, ghosts, changes, faults>>

\* For an uplink: the profiles of the device that sent it, and the meta-data
\* of a gateway that received it (the reception is dropped when the gateway is
\* not known)
GetAndCacheDeviceProfile(h) ==
    \/ \E d \in DeviceProfiles : GetAndCache(h, DeviceProfileKey(d))
    \/ CacheRow(h, "dp", CreateDeviceProfileCache)
GetAndCacheServiceProfile(h) ==
    \/ \E s \in ServiceProfiles : GetAndCache(h, ServiceProfileKey(s))
    \/ CacheRow(h, "sp", CreateServiceProfileCache)
GetAndCacheGatewayMeta(h, g) ==
    \/ GetAndCache(h, GatewayMetaKey(g))
    \/ CacheRow(h, "gwm", CreateGatewayMetaCache)
UpdateMetaDataInRXPacket(h) ==
    \E g \in Gateways : /\ hnd[h] = Idle \/ hnd[h].op = "rx"
                        /\ GetAndCacheGatewayMeta(h, g)

-----------------------------------------------------------------------------
(* Statements on the profiles.  API methods of one statement are one step;  *)
(* the calls of the others hold what they still have to do in api[c].       *)

Put(table, id, row) == [table EXCEPT ![id] = row]

InsertServiceProfile(s, row) ==
    serviceProfile[s] = None /\ serviceProfile' = Put(serviceProfile, s, row)
UpdateServiceProfileRow(s, row) ==
    serviceProfile' = IF serviceProfile[s] = None THEN serviceProfile
                      ELSE Put(serviceProfile, s, row)
\* Without the cascade to gateway
DeleteServiceProfileOnly(s) ==
    serviceProfile' = Put(serviceProfile, s, None) /\ UNCHANGED gateway
DeleteServiceProfileRow(s) ==
    /\ Deletable("serviceProfileID", s)
    /\ serviceProfile' = Put(serviceProfile, s, None)
    /\ Cascade("serviceProfileID", s)

InsertDeviceProfile(d, row) ==
    deviceProfile[d] = None /\ deviceProfile' = Put(deviceProfile, d, row)
UpdateDeviceProfileRow(d, row) ==
    deviceProfile' = IF deviceProfile[d] = None THEN deviceProfile
                     ELSE Put(deviceProfile, d, row)
DeleteDeviceProfileRow(d) == deviceProfile' = Put(deviceProfile, d, None)

InsertRoutingProfile(r, row) ==
    routingProfile[r] = None /\ routingProfile' = Put(routingProfile, r, row)
UpdateRoutingProfileRow(r, row) ==
    routingProfile' = IF routingProfile[r] = None THEN routingProfile
                      ELSE Put(routingProfile, r, row)
DeleteRoutingProfileRow(r) ==
    /\ Deletable("routingProfileID", r)
    /\ routingProfile' = Put(routingProfile, r, None)
    /\ Cascade("routingProfileID", r)

\* The version of a gateway-profile is the second of its updated_at
GetVersion(p, row) == <<p, row.updatedAt>>
Stamp(p) == used' = used \cup {p} /\ clash' = (clash \/ p \in used)
InsertGatewayProfile(p, v) ==
    /\ gatewayProfile[p] = None
    /\ gatewayProfile' = Put(gatewayProfile, p,
                             [channels |-> v, extraChannels |-> v, updatedAt |-> second])
    /\ Stamp(p)
UpdateGatewayProfileRow(p, v) ==
    /\ gatewayProfile[p] # None
    /\ gatewayProfile' = Put(gatewayProfile, p,
                             [channels |-> v, extraChannels |-> v, updatedAt |-> second])
    /\ Stamp(p)

\* Refused (no cascade) while a gateway refers to it
DeleteGatewayProfileRow(p) ==
    /\ gatewayProfile[p] # None
    /\ Deletable("gatewayProfileID", p)
    /\ ~\E g \in Gateways : Refers(gateway[g], "gatewayProfileID", p)
    /\ gatewayProfile' = Put(gatewayProfile, p, None)

-----------------------------------------------------------------------------
(* Service-profiles *)

\* An API method that is one statement, or one transaction nothing waits for
AtOnce(c) == Starts(c) /\ UNCHANGED <<api, lock, conf, second, faults>>

CreateServiceProfile(c) ==
    /\ AtOnce(c)
    /\ \E s \in ServiceProfiles, row \in ServiceProfileRow : InsertServiceProfile(s, row)
    /\ UNCHANGED <<deviceProfile, routingProfile, gatewayProfile, gateway, cache, ghosts>>

\* The caches are flushed before the row is written
UpdateServiceProfile(c) ==
    \/ /\ \E s \in ServiceProfiles, row \in ServiceProfileRow :
             /\ serviceProfile[s] # None
             /\ FlushServiceProfileCache(c, "updateServiceProfile", s, row)
       /\ UNCHANGED <<rows, lock, conf, second, ghosts, faults>>
    \/ /\ api[c].op = "updateServiceProfile" /\ api[c].todo = {}
       /\ UpdateServiceProfileRow(api[c].id, api[c].row)
       /\ Done(c)
       /\ UNCHANGED <<deviceProfile, routingProfile, gatewayProfile, gateway, cache,
                      lock, hnd, conf, second, ghosts, changes, faults>>

DeleteServiceProfile(c) ==
    \/ /\ \E s \in ServiceProfiles :
             FlushServiceProfileCache(c, "deleteServiceProfile", s, None)
       /\ UNCHANGED <<rows, lock, conf, second, ghosts, faults>>
    \/ /\ api[c].op = "deleteServiceProfile" /\ api[c].todo = {}
       /\ DeleteServiceProfileRow(api[c].id)
       /\ Done(c)
       /\ UNCHANGED <<deviceProfile, routingProfile, gatewayProfile, cache,
                      lock, hnd, conf, second, ghosts, changes, faults>>

-----------------------------------------------------------------------------
(* Device-profiles *)

CreateDeviceProfile(c) ==
    /\ AtOnce(c)
    /\ \E d \in DeviceProfiles, row \in DeviceProfileRow : InsertDeviceProfile(d, row)
    /\ UNCHANGED <<serviceProfile, routingProfile, gatewayProfile, gateway, cache, ghosts>>

UpdateDeviceProfile(c) ==
    \/ /\ \E d \in DeviceProfiles, row \in DeviceProfileRow :
             /\ deviceProfile[d] # None
             /\ FlushDeviceProfileCache(d)
             /\ Begin(c, Call("updateDeviceProfile", d, row, {}))
       /\ UNCHANGED <<rows, lock, conf, second, ghosts, faults>>
    \/ /\ api[c].op = "updateDeviceProfile"
       /\ UpdateDeviceProfileRow(api[c].id, api[c].row)
       /\ Done(c)
       /\ UNCHANGED <<serviceProfile, routingProfile, gatewayProfile, gateway, cache,
                      lock, hnd, conf, second, ghosts, changes, faults>>

DeleteDeviceProfile(c) ==
    \/ /\ \E d \in DeviceProfiles :
             /\ FlushDeviceProfileCache(d)
             /\ Begin(c, Call("deleteDeviceProfile", d, None, {}))
       /\ UNCHANGED <<rows, lock, conf, second, ghosts, faults>>
    \/ /\ api[c].op = "deleteDeviceProfile"
       /\ DeleteDeviceProfileRow(api[c].id)
       /\ Done(c)
       /\ UNCHANGED <<serviceProfile, routingProfile, gatewayProfile, gateway, cache,
                      lock, hnd, conf, second, ghosts, changes, faults>>

-----------------------------------------------------------------------------
(* Routing-profiles: not cached *)

CreateRoutingProfile(c) ==
    /\ AtOnce(c)
    /\ \E r \in RoutingProfiles, row \in RoutingProfileRow : InsertRoutingProfile(r, row)
    /\ UNCHANGED <<serviceProfile, deviceProfile, gatewayProfile, gateway, cache, ghosts>>

\* The key is kept when the request has none, and dropped with the certificate
RoutingProfileUpdate(row, cert, key) ==
    [tlsKey |-> cert /\ (key \/ row.tlsKey)]

UpdateRoutingProfile(c) ==
    \/ /\ \E r \in RoutingProfiles, cert, key \in BOOLEAN :
             /\ SelectRoutingProfile(r) # None
             /\ Begin(c, Call("updateRoutingProfile", r,
                              RoutingProfileUpdate(SelectRoutingProfile(r), cert, key), {}))
       /\ UNCHANGED <<rows, cache, lock, conf, second, ghosts, faults>>
    \/ /\ api[c].op = "updateRoutingProfile"
       /\ UpdateRoutingProfileRow(api[c].id, api[c].row)
       /\ Done(c)
       /\ UNCHANGED <<serviceProfile, deviceProfile, gatewayProfile, gateway, cache,
                      lock, hnd, conf, second, ghosts, changes, faults>>

\* The gateways of the profile go with it; their copies stay
DeleteRoutingProfile(c) ==
    \E r \in RoutingProfiles :
        /\ routingProfile[r] # None
        /\ AtOnce(c)
        /\ DeleteRoutingProfileRow(r)
        /\ cache' = [k \in Keys |->
              IF /\ k[1] = "gwm" /\ cache[k] # None
                 /\ Refers(gateway[k[2]], "routingProfileID", r)
              THEN [cache[k] EXCEPT !.excused = TRUE] ELSE cache[k]]
        /\ UNCHANGED <<serviceProfile, deviceProfile, gatewayProfile, ghosts>>

-----------------------------------------------------------------------------
(* Gateway-profiles: not cached *)

CreateGatewayProfile(c) ==
    /\ AtOnce(c)
    /\ \E p \in GatewayProfiles, v \in Values : InsertGatewayProfile(p, v)
    /\ UNCHANGED <<serviceProfile, deviceProfile, routingProfile, gateway, cache>>

\* The row and its extra channels, replaced in one transaction
UpdateGatewayProfile(c) ==
    /\ AtOnce(c)
    /\ \E p \in GatewayProfiles, v \in Values : UpdateGatewayProfileRow(p, v)
    /\ UNCHANGED <<serviceProfile, deviceProfile, routingProfile, gateway, cache>>

DeleteGatewayProfile(c) ==
    /\ AtOnce(c)
    /\ \E p \in GatewayProfiles : DeleteGatewayProfileRow(p)
    /\ UNCHANGED <<serviceProfile, deviceProfile, routingProfile, gateway, cache, ghosts>>

-----------------------------------------------------------------------------
(* Gateways *)

\* A gateway that was not seen yet and has no certificate
NewGateway(request) ==
    [serviceProfileID |-> request.serviceProfileID,
     gatewayProfileID |-> request.gatewayProfileID,
     routingProfileID |-> request.routingProfileID,
     location |-> request.location, seen |-> FALSE, tlsCert |-> FALSE]

InsertGateway(g, row) ==
    /\ gateway[g] = None /\ ForeignKeys(row)
    /\ gateway' = Put(gateway, g, row)

CreateGateway(c) ==
    /\ AtOnce(c)
    /\ \E g \in Gateways, request \in Requests : InsertGateway(g, NewGateway(request))
    /\ UNCHANGED <<serviceProfile, deviceProfile, routingProfile, gatewayProfile,
                   cache, ghosts>>

\* update gateway, with all columns of the row the call has read; the meta-data
\* is flushed in the transaction, before its commit.  Without the row or a
\* profile the statement fails and the call ends.
UpdateGatewayRow(c) ==
    LET g == api[c].id IN
    /\ Unlocked(g)
    /\ IF gateway[g] # None /\ ForeignKeys(api[c].row)
       THEN /\ lock' = [lock EXCEPT ![g] = c]
            /\ FlushGatewayMetaCache(g)
            /\ UNCHANGED api
       ELSE Done(c) /\ UNCHANGED <<lock, cache>>

CommitGateway(c) ==
    /\ api[c].op \in {"updateGateway", "generateCertificate"}
    /\ lock[api[c].id] = c
    /\ gateway' = Put(gateway, api[c].id, api[c].row)
    /\ lock' = [lock EXCEPT ![api[c].id] = None]
    /\ Done(c)
    /\ UNCHANGED <<serviceProfile, deviceProfile, routingProfile, gatewayProfile, cache,
                   hnd, conf, second, ghosts, changes, faults>>

\* The read of the row (outside of the transaction) and the fields of the
\* request; the others keep what was read
SelectGateway(g) == gateway[g]
GatewayUpdate(row, request) ==
    [NewGateway(request) EXCEPT !.seen = row.seen, !.tlsCert = row.tlsCert]

UpdateGateway(c) ==
    \/ /\ \E g \in Gateways, request \in Requests :
             /\ SelectGateway(g) # None
             /\ Begin(c, Call("updateGateway", g,
                              GatewayUpdate(SelectGateway(g), request), {}))
       /\ UNCHANGED <<rows, cache, lock, conf, second, ghosts, faults>>
    \/ /\ api[c].op = "updateGateway"
       /\ UpdateGatewayRow(c)
       /\ UNCHANGED <<rows, hnd, conf, second, ghosts, changes, faults>>

GenerateGatewayClientCertificate(c) ==
    \/ /\ \E g \in Gateways :
             /\ SelectGateway(g) # None
             /\ Begin(c, Call("generateCertificate", g,
                              [SelectGateway(g) EXCEPT !.tlsCert = TRUE], {}))
       /\ UNCHANGED <<rows, cache, lock, conf, second, ghosts, faults>>
    \/ /\ api[c].op = "generateCertificate"
       /\ UpdateGatewayRow(c)
       /\ UNCHANGED <<rows, hnd, conf, second, ghosts, changes, faults>>

\* delete from gateway, then the flush
DeleteGatewayRow(g) ==
    Unlocked(g) /\ gateway[g] # None /\ gateway' = Put(gateway, g, None)

DeleteGateway(c) ==
    \/ /\ \E g \in Gateways :
             DeleteGatewayRow(g) /\ Begin(c, Call("deleteGateway", g, None, {}))
       /\ UNCHANGED <<serviceProfile, deviceProfile, routingProfile, gatewayProfile, cache,
                      lock, conf, second, ghosts, faults>>
    \/ /\ api[c].op = "deleteGateway"
       /\ FlushGatewayMetaCache(api[c].id)
       /\ Done(c)
       /\ UNCHANGED <<rows, lock, hnd, conf, second, ghosts, changes, faults>>

-----------------------------------------------------------------------------
(* Gateway statistics *)

Reported(g) == IF conf[g] = None THEN None ELSE conf[g].version
StatsAt(h, at) == hnd[h] # Idle /\ hnd[h].op = "stats" /\ hnd[h].at = at
GatewayOf(h) == hnd[h].key[2]

\* One statement: first_seen_at when it is not set, the location when the
\* gateway reports one
UpdateGatewayState(h, g, location) ==
    /\ gateway[g] # None /\ Unlocked(g)
    /\ gateway' = [gateway EXCEPT
                     ![g].seen = TRUE,
                     ![g].location = IF location = None THEN @ ELSE location]

\* The flush that follows it
FlushGatewayState(h) ==
    /\ StatsAt(h, "flush")
    /\ FlushGatewayMetaCache(GatewayOf(h))
    /\ hnd' = [hnd EXCEPT ![h].at = "get"]
    /\ UNCHANGED <<rows, lock, api, conf, second, ghosts, changes, faults>>

\* The gateway reports statistics and the version of its configuration
HandleStats(h) ==
    /\ hnd[h] = Idle
    /\ \E g \in Gateways, location \in Locations :
          /\ UpdateGatewayState(h, g, location)
          /\ hnd' = [Excuse(hnd) EXCEPT
                       ![h] = Read("stats", "flush", GatewayMetaKey(g), None,
                                   Reported(g), FALSE)]
    /\ UNCHANGED <<serviceProfile, deviceProfile, routingProfile, gatewayProfile, cache,
                   lock, api, conf, second, ghosts, changes, faults>>

GetStatsGatewayMeta(h) ==
    /\ hnd[h] # Idle /\ hnd[h].op = "stats"
    /\ GetAndCacheGatewayMeta(h, GatewayOf(h))

\* select from gateway_profile, then from gateway_profile_extra_channel: two
\* statements outside of a transaction
SelectGatewayProfile(h) ==
    /\ StatsAt(h, "config")
    /\ LET p == hnd[h].val.gatewayProfileID IN
       hnd' = [hnd EXCEPT ![h] =
                 IF p = None \/ GatewayOf(h) \notin Concentratord
                 THEN [@ EXCEPT !.at = "forward"]
                 ELSE IF gatewayProfile[p] = None THEN Idle
                 ELSE [@ EXCEPT !.at = "extra",
                                !.val = [id |-> p, row |-> gatewayProfile[p],
                                         routingProfileID |-> hnd[h].val.routingProfileID]]]
    /\ UNCHANGED <<rows, cache, lock, api, conf, second, ghosts, changes, faults>>

\* The extra channels as they are now; none when the profile is gone
ExtraChannels(p) ==
    IF gatewayProfile[p] = None THEN None ELSE gatewayProfile[p].extraChannels

\* The extra channels of the first statement, the row of the second
RowLast(val) ==
    LET row == IF gatewayProfile[val.id] = None THEN val.row ELSE gatewayProfile[val.id] IN
    [version |-> GetVersion(val.id, row), channels |-> row.channels,
     extraChannels |-> val.row.extraChannels]

\* The configuration made of both reads
Configuration(val) ==
    [version |-> GetVersion(val.id, val.row), channels |-> val.row.channels,
     extraChannels |-> ExtraChannels(val.id)]

\* Nothing is sent when the gateway reported this version; what is sent can
\* get lost on its way to the gateway
HandleGatewayConfigurationUpdate(h) ==
    /\ StatsAt(h, "extra")
    /\ hnd' = [hnd EXCEPT ![h].at = "forward"]
    /\ IF GetVersion(hnd[h].val.id, hnd[h].val.row) = hnd[h].version
       THEN UNCHANGED <<conf, faults>>
       ELSE \/ /\ conf' = [conf EXCEPT ![GatewayOf(h)] = Configuration(hnd[h].val)]
               /\ UNCHANGED faults
            \/ /\ faults < MaxFaults
               /\ faults' = faults + 1
               /\ UNCHANGED conf
    /\ UNCHANGED <<rows, cache, lock, api, second, ghosts, changes>>

\* The statistics go to the application-server of the routing-profile; without
\* the profile the handler returns an error
ForwardGatewayStats(h) ==
    /\ StatsAt(h, "forward")
    /\ hnd' = [hnd EXCEPT ![h] = Idle]
    /\ UNCHANGED <<rows, cache, lock, api, conf, second, ghosts, changes, faults>>

-----------------------------------------------------------------------------
(* Time and faults *)

Age(k) ==
    IF cache[k] = None \/ cache[k].ttl = 1 THEN None
    ELSE [cache[k] EXCEPT !.ttl = @ - 1,
                          !.stale = IF cache[k].val = View(k) THEN 0 ELSE @ + 1]

\* A tick: copies expire.  A handler does not hold a row for more than Hold
\* ticks before it caches it.  The second moves on once it was used.
Tick ==
    /\ \A h \in Handlers : hnd[h] # Idle /\ hnd[h].at = "set" => hnd[h].held < Hold
    /\ cache' = [k \in Keys |-> Age(k)]
    /\ hnd' = [h \in Handlers |->
          IF hnd[h] = Idle \/ hnd[h].at # "set" THEN hnd[h]
          ELSE [hnd[h] EXCEPT !.held = @ + 1,
                              !.stale = IF hnd[h].val = View(hnd[h].key) THEN 0 ELSE @ + 1]]
    /\ second' = IF used = {} THEN second ELSE second + 1
    /\ used' = {}
    /\ UNCHANGED <<rows, lock, api, conf, clash, changes, faults>>

\* A call breaks off (the process stops, or PostgreSQL or Redis fails): its
\* transaction is rolled back; a flush it still had to do is not done
BreakOff(c) ==
    /\ faults < MaxFaults /\ api[c] # Idle
    /\ faults' = faults + 1
    /\ lock' = [g \in Gateways |-> IF lock[g] = c THEN None ELSE lock[g]]
    /\ cache' = [k \in Keys |->
          IF cache[k] # None /\ api[c].op = "deleteGateway" /\ k = GatewayMetaKey(api[c].id)
          THEN [cache[k] EXCEPT !.excused = TRUE] ELSE cache[k]]
    /\ Done(c)
    /\ UNCHANGED <<rows, hnd, conf, second, ghosts, changes>>

\* The same for the handler of statistics, after its update
StatsBreakOff(h) ==
    /\ faults < MaxFaults /\ StatsAt(h, "flush")
    /\ faults' = faults + 1
    /\ cache' = [cache EXCEPT ![hnd[h].key] = IF @ = None THEN None
                                              ELSE [@ EXCEPT !.excused = TRUE]]
    /\ hnd' = [hnd EXCEPT ![h] = Idle]
    /\ UNCHANGED <<rows, lock, api, conf, second, ghosts, changes>>

-----------------------------------------------------------------------------
\* The profiles exist; a gateway may
Init ==
    /\ serviceProfile = [s \in ServiceProfiles |-> [gwsPrivate |-> FALSE]]
    /\ deviceProfile = [d \in DeviceProfiles |-> [settings |-> Initial]]
    /\ routingProfile = [r \in RoutingProfiles |-> [tlsKey |-> FALSE]]
    /\ gatewayProfile = [p \in GatewayProfiles |->
                           [channels |-> Initial, extraChannels |-> Initial, updatedAt |-> 0]]
    /\ gateway \in [Gateways -> {NewGateway(request) : request \in Requests} \cup {None}]
    /\ cache = [k \in Keys |-> None]
    /\ lock = [g \in Gateways |-> None]
    /\ api = [c \in Clients |-> Idle]
    /\ hnd = [h \in Handlers |-> Idle]
    /\ conf = [g \in Gateways |-> None]
    /\ second = 1 /\ used = {} /\ clash = FALSE
    /\ changes = 0 /\ faults = 0

ServiceProfileAPI(c) ==
    CreateServiceProfile(c) \/ UpdateServiceProfile(c) \/ DeleteServiceProfile(c)
        \/ FlushNextGatewayMeta(c)
DeviceProfileAPI(c) ==
    CreateDeviceProfile(c) \/ UpdateDeviceProfile(c) \/ DeleteDeviceProfile(c)
RoutingProfileAPI(c) ==
    CreateRoutingProfile(c) \/ UpdateRoutingProfile(c) \/ DeleteRoutingProfile(c)
GatewayProfileAPI(c) ==
    CreateGatewayProfile(c) \/ UpdateGatewayProfile(c) \/ DeleteGatewayProfile(c)
GatewayAPI(c) ==
    \/ CreateGateway(c) \/ UpdateGateway(c) \/ DeleteGateway(c)
    \/ GenerateGatewayClientCertificate(c) \/ CommitGateway(c)

Uplink(h) ==
    \/ UpdateMetaDataInRXPacket(h)
    \/ GetAndCacheDeviceProfile(h)
    \/ GetAndCacheServiceProfile(h)
Stats(h) ==
    \/ HandleStats(h) \/ FlushGatewayState(h) \/ GetStatsGatewayMeta(h)
    \/ SelectGatewayProfile(h) \/ HandleGatewayConfigurationUpdate(h)
    \/ ForwardGatewayStats(h) \/ StatsBreakOff(h)

Next ==
    \/ \E c \in Clients :
          \/ ServiceProfileAPI(c) \/ DeviceProfileAPI(c) \/ RoutingProfileAPI(c)
          \/ GatewayProfileAPI(c) \/ GatewayAPI(c) \/ BreakOff(c)
    \/ \E h \in Handlers : Uplink(h) \/ Stats(h)
    \/ Tick

Spec == Init /\ [][Next]_vars

-----------------------------------------------------------------------------
\* Types, and the references between the rows: deletes cascade or are refused,
\* so that a gateway never refers to a profile that is gone
TypeOK ==
    /\ serviceProfile \in [ServiceProfiles -> ServiceProfileRow \cup {None}]
    /\ deviceProfile \in [DeviceProfiles -> DeviceProfileRow \cup {None}]
    /\ routingProfile \in [RoutingProfiles -> RoutingProfileRow \cup {None}]
    /\ \A p \in GatewayProfiles :
          gatewayProfile[p] # None => /\ gatewayProfile[p].channels \in Values
                                      /\ gatewayProfile[p].extraChannels \in Values
                                      /\ gatewayProfile[p].updatedAt \in 0..second
    /\ \A g \in Gateways : gateway[g] # None => gateway[g] \in GatewayRow
                                                /\ ForeignKeys(gateway[g])
    /\ lock \in [Gateways -> Clients \cup {None}]
    /\ used \subseteq GatewayProfiles /\ clash \in BOOLEAN
    /\ changes \in 0..MaxChanges /\ faults \in 0..MaxFaults

\* A copy that no call raced with (the copy was not read while a call was in
\* progress, and its row did not go by the cascade of a routing-profile or by a
\* call that broke off before its flush) is the row of the database whenever no
\* call is in progress.  For the meta-data of a gateway this holds through
\* changes of the gateway, of its service-profile and of its statistics.
CopiesFresh ==
    ~Writing =>
        \A k \in Keys : cache[k] # None /\ ~cache[k].excused => cache[k].val = View(k)

\* Whatever races, breaks off or cascades: what a reader gets from the cache
\* was the row of the database at most TTL + Hold ticks ago.  Copies are not
\* kept alive by being read.
StalenessBounded ==
    \A k \in Keys : cache[k] # None => cache[k].stale < TTL + Hold

\* A gateway that applies the version of the profile as it is in the database
\* applies the channels and the extra channels of the profile, although these
\* are read by separate statements.  (Not when the profile was written twice
\* in a second: both have the same version.)
VersionIdentifiesConfig ==
    ~clash =>
        \A g \in Gateways, p \in GatewayProfiles :
            /\ conf[g] # None /\ gatewayProfile[p] # None
            /\ conf[g].version = GetVersion(p, gatewayProfile[p])
            => /\ conf[g].channels = gatewayProfile[p].channels
               /\ conf[g].extraChannels = gatewayProfile[p].extraChannels
=============================================================================
