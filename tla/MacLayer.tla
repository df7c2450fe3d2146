------------------------------ MODULE MacLayer ------------------------------
(***************************************************************************)
(* The mac-layer of one Class-A device: internal/maccommand, the handling  *)
(* of mac-commands in internal/uplink/data/data.go, their composition in   *)
(* internal/downlink/data/data.go, internal/channels and the pending and   *)
(* queued commands of internal/storage/mac_command.go.                     *)
(*                                                                         *)
(* The server keeps in the session what it believes the device's settings  *)
(* are, asks for changes until they are the configured ones, and reads an  *)
(* answer with the help of the request it remembers as pending: an answer  *)
(* carries status bits only.  Uplinks and downlinks get lost; the server   *)
(* is restarted with another configuration; the device resets.             *)
(*                                                                         *)
(* A parameter (the settings one pair of commands carries) is a value.  A  *)
(* block of commands is [cid, ext, req, mask], an answer [cid, of, ok,     *)
(* bits], where `of` (the request it answers) is not on the air.           *)
(***************************************************************************)
EXTENDS Adr

CONSTANTS
    Params,         \* the parameters with a configured value, of SetupCids
    Values,         \* values of parameters
    Boot,           \* the value a device boots with
    Configured,     \* the configured values the server is started with
    StandardChannels,       \* of the band
    CustomChannelIndices,   \* the configured channels, in order
    OldChannels,    \* custom channels of an earlier configuration
    Algorithm,      \* ADRAlgorithmID of the device-profile
    BandMaxPower,   \* the highest index of the band's power table
    Devices,        \* a device's ADR bit, and the SNR of its frames at the gateways
                    \* when they are sent at full power
    SupportsJoin,   \* OTAA (device-profile)
    DisableMACCommands,
    MaxErrors,      \* max_mac_command_error_count
    Room,           \* how many blocks fit in a downlink
    DevStatus,      \* whether the service-profile asks for the device's status
    Asks,           \* requests of the device: LinkCheckReq, ...
    RefusedParams, RefusedChannels,     \* what the device does not accept
    DevMaxPower,    \* the highest power index the device supports
    ExtCids, ExtValues,     \* what an external controller enqueues
    MaxMissed,      \* bound: frames missed between two that are handled
    MaxChanges      \* bound: reconfigurations, resets, back-offs, requests of the
                    \* device and of its status, commands of the controller

\* In the order setMACCommandsSet asks for them.
SetupCids == <<"RejoinParamSetup", "PingSlotChannel", "RXParamSetup",
               "RXTimingSetup", "TXParamSetup">>

\* The answers the device repeats until it receives a downlink.
Sticky == {"RXParamSetup", "RXTimingSetup"}

\* The requests of a device.
AskCids == {"LinkCheckReq", "DeviceTimeReq", "PingSlotInfoReq", "DeviceModeInd", "RekeyInd"}

\* Both kinds of channels are enabled in the band.
CustomChannels == ToSet(CustomChannelIndices)

\* The controller enqueues proprietary commands.
ASSUME MacAssumption ==
    /\ Params \subseteq ToSet(SetupCids) /\ Boot \in Values
    /\ Configured \in [Params -> Values]
    /\ Asks \subseteq AskCids
    /\ ExtCids \cap (ToSet(SetupCids) \cup AskCids \cup
                     {"LinkADR", "NewChannel", "DevStatusReq", "ResetInd", "none"}) = {}
    /\ CustomChannelIndices \in Seq(Nat)
    /\ RefusedParams \subseteq Params \cap {"RXParamSetup", "PingSlotChannel"}
    /\ RefusedChannels \subseteq CustomChannels
    /\ Devices \subseteq [adr : BOOLEAN, snr : Int]
    /\ BandMaxPower \in Nat \ {0} /\ DevMaxPower \in 0..BandMaxPower
    /\ SupportsJoin \in BOOLEAN /\ DisableMACCommands \in BOOLEAN /\ DevStatus \in BOOLEAN
    /\ MaxErrors \in Nat /\ Room \in Nat /\ MaxMissed \in Nat /\ MaxChanges \in Nat

Cids == Params \cup Asks \cup ExtCids
            \cup {"LinkADR", "NewChannel", "DevStatusReq", "ResetInd"}

NoBlock == [cid |-> "none", ext |-> FALSE, req |-> <<>>, mask |-> {}]
Block(cid, req) == [NoBlock EXCEPT !.cid = cid, !.req = req]
Answer(block, ok, bits) ==
    [cid |-> block.cid, of |-> block.req, ok |-> ok, bits |-> bits]

\* The elements of s at the positions I, in their order.
Pick(s, I) ==
    LET upTo[n \in 0..Len(s)] ==
            IF n = 0 THEN <<>>
            ELSE IF n \in I THEN Append(upTo[n - 1], s[n]) ELSE upTo[n - 1]
    IN  upTo[Len(s)]

CidsOf(s) == {s[i].cid : i \in DOMAIN s}

VARIABLES
    ds,         \* the device-session
    mode,       \* the device row's class
    pending,    \* Redis: the pending block of each CID
    queue,      \* Redis: the blocks of the external controller
    conf,       \* the configuration of the server that runs
    dev,        \* the device
    round,      \* where the exchange of an uplink and its response is
    blind,      \* pairs of a CID and why the session may be wrong about it for good
    refused,    \* power indices the device has refused
    changes,
    calm        \* from now on no frame is lost and nothing fails

vars == <<ds, mode, pending, queue, conf, dev, round, blind, refused, changes, calm>>

Idle == [at |-> "idle", cmds |-> <<>>, must |-> FALSE, blocks |-> <<>>]
FullPower == [dr |-> 0, power |-> 0, nb |-> 1]

Init == \E d \in Devices :
    /\ ds = [val |-> [p \in Params |-> Boot], extra |-> OldChannels,
             enabled |-> StandardChannels \cup OldChannels, link |-> FullPower,
             maxPower |-> 0, pingSlotNb |-> 0, adr |-> TRUE,
             errors |-> [c \in Cids |-> 0], history |-> <<>>]
    /\ mode = "A" /\ queue = <<>> /\ conf = Configured
    /\ pending = [c \in Cids |-> NoBlock]
    /\ dev = [val |-> ds.val, extra |-> OldChannels, enabled |-> ds.enabled,
              link |-> FullPower, answers |-> <<>>, reset |-> FALSE,
              adr |-> d.adr, snr |-> d.snr, missed |-> 0]
    /\ round = Idle /\ blind = {} /\ refused = {} /\ changes = 0 /\ calm = FALSE

(***************************************************************************)
(* Answers of the device to requests of the server, internal/maccommand.   *)
(* `ans` is the group of answers with one CID, `pend` the pending block.   *)
(* An answer without a pending request, or with an unexpected number of    *)
(* commands, is an error that is logged.                                   *)
(***************************************************************************)
CountError(s, cid) == [s EXCEPT !.errors[cid] = @ + 1]
ResetErrors(s, cid) == [s EXCEPT !.errors[cid] = 0]
SetParam(s, cid, pend) == [s EXCEPT !.val[cid] = pend.req[1]]

handleRXParamSetupAns(s, ans, pend) ==
    IF Len(ans) # 1 \/ pend = NoBlock THEN s
    ELSE IF ~ans[1].ok THEN CountError(s, "RXParamSetup")
    ELSE SetParam(ResetErrors(s, "RXParamSetup"), "RXParamSetup", pend)

\* A plausible slip: the status bits are not looked at.
PingSlotChannelAnsUnread(s, ans, pend) ==
    IF Len(ans) # 1 \/ pend = NoBlock THEN s
    ELSE SetParam(ResetErrors(s, "PingSlotChannel"), "PingSlotChannel", pend)

handlePingSlotChannelAns(s, ans, pend) ==
    IF Len(ans) # 1 \/ pend = NoBlock THEN s
    ELSE IF ~ans[1].ok THEN CountError(s, "PingSlotChannel")
    ELSE SetParam(ResetErrors(s, "PingSlotChannel"), "PingSlotChannel", pend)

\* The answer has no status; the number of commands is not looked at.
handleRXTimingSetupAns(s, pend) ==
    IF pend = NoBlock THEN s ELSE SetParam(s, "RXTimingSetup", pend)

handleTXParamSetupAns(s, pend) ==
    IF pend = NoBlock THEN s ELSE SetParam(s, "TXParamSetup", pend)

\* Whether the device keeps the time, TimeOK, is logged only.
handleRejoinParamSetupAns(s, ans, pend) ==
    IF Len(ans) # 1 \/ pend = NoBlock THEN s
    ELSE SetParam(s, "RejoinParamSetup", pend)

\* Channel by channel: an accepted one resets what a refused one has counted.
handleNewChannelAns(s, ans, pend) ==
    LET one(t, i) ==
            LET c == pend.req[i]
            IN  IF ans[i].ok
                THEN [ResetErrors(t, "NewChannel") EXCEPT !.extra = @ \cup {c},
                                                          !.enabled = @ \cup {c}]
                ELSE CountError(t, "NewChannel")
        after[n \in 0..Len(ans)] == IF n = 0 THEN s ELSE one(after[n - 1], n)
    IN  IF pend = NoBlock \/ Len(ans) # Len(pend.req) THEN s ELSE after[Len(ans)]

\* A plausible slip: the refused index itself is taken for the highest one.
LinkADRAnsKeepsRefused(s, ans, pend) ==
    LET bits == ans[1].bits
        power == pend.req[2]
    IN  IF pend = NoBlock THEN s
        ELSE IF bits = {"mask", "dr", "power"}
        THEN [ResetErrors(s, "LinkADR") EXCEPT
                 !.link = [dr |-> pend.req[1], power |-> power, nb |-> pend.req[3]],
                 !.enabled = pend.mask]
        ELSE [CountError(s, "LinkADR") EXCEPT
                 !.maxPower = IF "power" \notin bits THEN power ELSE @]

\* pend.req is <<data-rate, power, number of transmissions>>, pend.mask the
\* channels.  A maxPower of 0 stands for "not known".
handleLinkADRAns(s, ans, pend) ==
    LET bits == ans[1].bits
        power == pend.req[2]
    IN  IF pend = NoBlock THEN s
        ELSE IF bits = {"mask", "dr", "power"}
        THEN [ResetErrors(s, "LinkADR") EXCEPT
                 !.link = [dr |-> pend.req[1], power |-> power, nb |-> pend.req[3]],
                 !.enabled = pend.mask]
        ELSE IF ~s.adr /\ "mask" \in bits
        THEN [ResetErrors(s, "LinkADR") EXCEPT
                 !.enabled = pend.mask,
                 !.link = [dr |-> IF "dr" \in bits THEN pend.req[1] ELSE @.dr,
                           power |-> IF "power" \in bits THEN power ELSE @.power,
                           nb |-> pend.req[3]]]
        ELSE [CountError(s, "LinkADR") EXCEPT
                 !.link.power = IF "power" \notin bits /\ power = 0 THEN 1 ELSE @,
                 !.maxPower = IF "power" \notin bits /\ power > 0 THEN power - 1 ELSE @]

(***************************************************************************)
(* Requests of the device.                                                 *)
(***************************************************************************)
\* ResetToBootParameters, for devices that do not join.  The transmission and
\* rejoin parameters, the errors and the pending commands are left as they are.
BootParams == {"RXParamSetup", "RXTimingSetup", "PingSlotChannel"}

ResetToBootParameters(s) ==
    IF SupportsJoin THEN s
    ELSE [s EXCEPT !.val = [p \in Params |-> IF p \in BootParams THEN Boot ELSE @[p]],
                   !.extra = {}, !.enabled = StandardChannels,
                   !.link.power = 0, !.link.nb = 1, !.maxPower = 0]

handleResetInd(s) == ResetToBootParameters(s)

\* The number of ping slots that goes with the periodicity of the request.
handlePingSlotInfoReq(s) == [s EXCEPT !.pingSlotNb = 1]

\* The responses.  The margin of a LinkCheckAns is only defined for LoRa.
Response(cid) == <<Block(cid, <<>>)>>
ResetConf == Response("ResetInd")
handleRekeyInd == Response("RekeyInd")
handleLinkCheckReq(dr) == IF IsLoRa(dr) THEN Response("LinkCheckReq") ELSE <<>>
handleDeviceTimeReq == Response("DeviceTimeReq")
PingSlotInfoAns == Response("PingSlotInfoReq")
DeviceModeConf == Response("DeviceModeInd")

\* The class goes to the device's row: bits holds it.
handleDeviceModeInd(m, cmds) ==
    IF \E i \in DOMAIN cmds : cmds[i].cid = "DeviceModeInd"
    THEN CHOOSE c \in {"A", "C"} : \E i \in DOMAIN cmds :
             cmds[i].cid = "DeviceModeInd" /\ cmds[i].bits = {c}
    ELSE m

\* A report to the application-server, the session is not changed.
handleDevStatusAns(s) == s

(***************************************************************************)
(* maccommand.Handle and handleUplinkMACCommands.                          *)
(***************************************************************************)
Handle(s, cid, ans, pend) ==
    CASE cid = "LinkADR" -> handleLinkADRAns(s, ans, pend)
      [] cid = "NewChannel" -> handleNewChannelAns(s, ans, pend)
      [] cid = "RXParamSetup" -> handleRXParamSetupAns(s, ans, pend)
      [] cid = "RXTimingSetup" -> handleRXTimingSetupAns(s, pend)
      [] cid = "TXParamSetup" -> handleTXParamSetupAns(s, pend)
      [] cid = "PingSlotChannel" -> handlePingSlotChannelAns(s, ans, pend)
      [] cid = "RejoinParamSetup" -> handleRejoinParamSetupAns(s, ans, pend)
      [] cid = "ResetInd" -> handleResetInd(s)
      [] cid = "PingSlotInfoReq" -> handlePingSlotInfoReq(s)
      [] OTHER -> handleDevStatusAns(s)

Responses(cid, dr) ==
    CASE cid = "ResetInd" -> ResetConf
      [] cid = "RekeyInd" -> handleRekeyInd
      [] cid = "LinkCheckReq" -> handleLinkCheckReq(dr)
      [] cid = "DeviceTimeReq" -> handleDeviceTimeReq
      [] cid = "PingSlotInfoReq" -> PingSlotInfoAns
      [] cid = "DeviceModeInd" -> DeviceModeConf
      [] OTHER -> <<>>

Group(cmds, cid) == Pick(cmds, {i \in DOMAIN cmds : cmds[i].cid = cid})

\* The commands of an uplink are handled by CID, in the order the CIDs come.
IsFirst(cmds, i) == \A j \in 1..(i - 1) : cmds[j].cid # cmds[i].cid

handleUplinkMACCommands(s, pend, cmds) ==
    LET one(t, i) == IF ~IsFirst(cmds, i) THEN t
                     ELSE Handle(t, cmds[i].cid, Group(cmds, cmds[i].cid), pend[cmds[i].cid])
        after[n \in 0..Len(cmds)] == IF n = 0 THEN s ELSE one(after[n - 1], n)
    IN  IF DisableMACCommands THEN s ELSE after[Len(cmds)]

DeletePendingMACCommand(pend, cmds) ==
    [c \in Cids |-> IF ~DisableMACCommands /\ c \in CidsOf(cmds) THEN NoBlock ELSE pend[c]]

MACCommandResponses(cmds, dr) ==
    LET one(out, i) == IF IsFirst(cmds, i) THEN out \o Responses(cmds[i].cid, dr) ELSE out
        upTo[n \in 0..Len(cmds)] == IF n = 0 THEN <<>> ELSE one(upTo[n - 1], n)
    IN  IF DisableMACCommands THEN <<>> ELSE upTo[Len(cmds)]

mustRespondWithDownlink(cmds) == \E i \in DOMAIN cmds : cmds[i].cid \in Sticky

\* A plausible slip: done for every uplink.
AlwaysResetPower(s, dr) == [s EXCEPT !.link.dr = dr, !.link.power = 0]

\* The device changed its data-rate by itself: the power is assumed to be reset.
setUplinkDataRate(s, dr) ==
    IF s.link.dr = dr THEN s
    ELSE [s EXCEPT !.link.dr = dr, !.link.power = 0, !.history = <<>>]

\* The RSSI is not recorded: the ADR algorithms see 0.
appendMetaDataToUplinkHistory(s, gap, snr) ==
    LET item == [gap |-> gap, snr |-> snr, rssi |-> 0, power |-> s.link.power]
        kept == IF Len(s.history) = RequiredHistory THEN Tail(s.history) ELSE s.history
    IN  [s EXCEPT !.history = Append(kept, item)]

(***************************************************************************)
(* The mac-commands of a response, internal/downlink/data/data.go.         *)
(***************************************************************************)
MaxNewChannels == 3

\* Channels that are configured no more are forgotten; the mask disables them.
CleanChannels(s) == [s EXCEPT !.extra = @ \cap CustomChannels]

RequestNewChannels(current) ==
    LET wanted == Pick(CustomChannelIndices,
                       {i \in DOMAIN CustomChannelIndices : CustomChannelIndices[i] \notin current})
        out == SubSeq(wanted, 1, Min({MaxNewChannels, Len(wanted)}))
    IN  IF out = <<>> THEN <<>> ELSE <<Block("NewChannel", out)>>

requestCustomChannelReconfiguration(s) == RequestNewChannels(CleanChannels(s).extra)

LinkADRReq(link, mask) ==
    [Block("LinkADR", <<link.dr, link.power, link.nb>>) EXCEPT !.mask = mask]

\* GetLinkADRReqPayloadsForEnabledUplinkChannelIndices of the band asks for a
\* new mask when the device uses a channel that is not enabled.
HandleChannelReconfigure(s) ==
    LET enabled == StandardChannels \cup CustomChannels
    IN  IF s.enabled \subseteq enabled THEN <<>>
        ELSE <<LinkADRReq(s.link, s.enabled \cap enabled)>>

requestChannelMaskReconfiguration(s) == HandleChannelReconfigure(s)

MaxTxPowerIndex(s) == IF s.maxPower # 0 THEN s.maxPower ELSE BandMaxPower

\* The set of block sequences the algorithm's choices lead to: the mask
\* request, if there is one, is made to carry the new link.
requestADRChange(s, blocks) ==
    LET req == [adr |-> s.adr, link |-> s.link, maxPower |-> MaxTxPowerIndex(s),
                history |-> s.history]
        merge(link) ==
            IF link = s.link THEN blocks
            ELSE IF \E i \in DOMAIN blocks : blocks[i].cid = "LinkADR"
            THEN [i \in DOMAIN blocks |->
                     IF blocks[i].cid = "LinkADR"
                     THEN LinkADRReq(link, blocks[i].mask) ELSE blocks[i]]
            ELSE Append(blocks, LinkADRReq(link, s.enabled))
    IN  {merge(link) : link \in GetHandler(Algorithm, req)}

\* requestRejoinParamSetup, setPingSlotParameters, setRXParameters and
\* setTXParameters: what differs from the configuration is asked for.
RequestRejoinParamSetup == Block("RejoinParamSetup", <<conf["RejoinParamSetup"]>>)
RequestPingSlotChannel == Block("PingSlotChannel", <<conf["PingSlotChannel"]>>)
RequestRXParamSetup == Block("RXParamSetup", <<conf["RXParamSetup"]>>)
RequestRXTimingSetup == Block("RXTimingSetup", <<conf["RXTimingSetup"]>>)
RequestTXParamSetup == Block("TXParamSetup", <<conf["TXParamSetup"]>>)

Unset(s, p) == p \in Params /\ s.val[p] # conf[p]

requestRejoinParamSetup(s) ==
    IF Unset(s, "RejoinParamSetup") THEN <<RequestRejoinParamSetup>> ELSE <<>>

setPingSlotParameters(s) ==
    IF Unset(s, "PingSlotChannel") THEN <<RequestPingSlotChannel>> ELSE <<>>

setRXParameters(s) ==
    (IF Unset(s, "RXParamSetup") THEN <<RequestRXParamSetup>> ELSE <<>>)
        \o (IF Unset(s, "RXTimingSetup") THEN <<RequestRXTimingSetup>> ELSE <<>>)

setTXParameters(s) ==
    IF Unset(s, "TXParamSetup") THEN <<RequestTXParamSetup>> ELSE <<>>

\* Due or not: the interval since the last request has passed.
RequestDevStatus == Block("DevStatusReq", <<>>)
requestDevStatus(due) == IF due THEN <<RequestDevStatus>> ELSE <<>>

getMACCommandsFromQueue == queue

\* Own commands are dropped when they are disabled in the configuration.
OnlyExternal(blocks) ==
    IF DisableMACCommands THEN Pick(blocks, {i \in DOMAIN blocks : blocks[i].ext}) ELSE blocks

\* A plausible slip: refusals are not counted against a command.
FilterNothing(s, blocks) == blocks

FilterErrors(s, blocks) ==
    Pick(blocks, {i \in DOMAIN blocks : s.errors[blocks[i].cid] <= MaxErrors})

\* A plausible slip: both are looked for before either is removed.
BothExcluded(blocks) ==
    LET has(cid) == \E i \in DOMAIN blocks : blocks[i].cid = cid
    IN  SelectSeq(blocks, LAMBDA b : ~\/ has("NewChannel") /\ b.cid = "LinkADR"
                                      \/ has("LinkADR") /\ b.cid = "NewChannel")

\* NewChannelReq and LinkADRReq exclude each other, the former goes first.
filterIncompatibleMACCommands(blocks) ==
    IF \E i \in DOMAIN blocks : blocks[i].cid = "NewChannel"
    THEN Pick(blocks, {i \in DOMAIN blocks : blocks[i].cid # "LinkADR"}) ELSE blocks

\* The collected blocks of a response, for each choice of the algorithm.
Collected(s, responses, due) ==
    LET channels == {responses \o requestCustomChannelReconfiguration(s)
                               \o requestChannelMaskReconfiguration(s)}
        rest == requestDevStatus(due) \o requestRejoinParamSetup(s)
                    \o setPingSlotParameters(s) \o setRXParameters(s)
                    \o setTXParameters(s) \o getMACCommandsFromQueue
        all == {adr \o rest : adr \in UNION {requestADRChange(s, c) : c \in channels}}
        allowed == {FilterErrors(s, OnlyExternal(blocks)) : blocks \in all}
    IN  {filterIncompatibleMACCommands(blocks) : blocks \in allowed}

(***************************************************************************)
(* What the device does with a downlink.  It is not part of the server.    *)
(***************************************************************************)
SendAnswer(d, b, ok, bits) == [d EXCEPT !.answers = Append(@, Answer(b, ok, bits))]

ObeyParam(d, b) ==
    IF b.cid \in RefusedParams THEN SendAnswer(d, b, FALSE, {})
    ELSE [SendAnswer(d, b, TRUE, {}) EXCEPT !.val[b.cid] = b.req[1]]

ObeyNewChannel(d, b) ==
    LET new == ToSet(b.req) \ RefusedChannels
    IN  [d EXCEPT !.extra = @ \cup new, !.enabled = @ \cup new,
                  !.answers = @ \o [i \in DOMAIN b.req |->
                      Answer(b, b.req[i] \notin RefusedChannels, {})]]

ObeyLinkADR(d, b) ==
    LET known == b.mask # {} /\ b.mask \subseteq StandardChannels \cup d.extra
        bits == (IF known THEN {"mask"} ELSE {})
                    \cup (IF d.adr THEN {"dr"} ELSE {})
                    \cup (IF d.adr /\ b.req[2] <= DevMaxPower THEN {"power"} ELSE {})
    IN  IF bits = {"mask", "dr", "power"}
        THEN [SendAnswer(d, b, TRUE, bits) EXCEPT !.enabled = b.mask,
                 !.link = [dr |-> b.req[1], power |-> b.req[2], nb |-> b.req[3]]]
        ELSE IF ~d.adr /\ known
        THEN [SendAnswer(d, b, TRUE, bits) EXCEPT !.enabled = b.mask, !.link.nb = b.req[3]]
        ELSE SendAnswer(d, b, FALSE, bits)

Obey(d, b) ==
    CASE b.cid \in Params -> ObeyParam(d, b)
      [] b.cid = "NewChannel" -> ObeyNewChannel(d, b)
      [] b.cid = "LinkADR" -> ObeyLinkADR(d, b)
      [] b.cid = "ResetInd" -> [d EXCEPT !.reset = FALSE]
      [] b.cid \in Asks -> d
      [] OTHER -> SendAnswer(d, b, TRUE, {})

ObeyAll(d, blocks) ==
    LET after[n \in 0..Len(blocks)] == IF n = 0 THEN d ELSE Obey(after[n - 1], blocks[n])
    IN  after[Len(blocks)]

(***************************************************************************)
(* The exchange of an uplink and its response.                             *)
(***************************************************************************)
\* The uplink carries the answers, and a request of the device if it has one.
\* Answers that are not repeated are gone with it.
SendUplink ==
    /\ round.at = "idle"
    /\ \E ask \in Asks \cup {"none"}, class \in {"A", "C"} :
         /\ class = "C" => ask = "DeviceModeInd"
         /\ ask # "none" => changes < MaxChanges
         /\ changes' = changes + (IF ask = "none" THEN 0 ELSE 1)
         /\ LET own == IF dev.reset THEN <<Answer(Block("ResetInd", <<>>), TRUE, {})>>
                       ELSE IF ask = "none" THEN <<>>
                       ELSE <<Answer(Block(ask, <<>>), TRUE, {class})>>
            IN  round' = [Idle EXCEPT !.at = "uplink", !.cmds = dev.answers \o own]
    /\ dev' = [dev EXCEPT !.answers = Pick(@, {i \in DOMAIN @ : @[i].cid \in Sticky})]
    /\ UNCHANGED <<ds, mode, pending, queue, conf, blind, refused, calm>>

\* The counter of a frame the session does not know of is missed.
Missed == dev' = [dev EXCEPT !.missed = Min({MaxMissed, @ + 1})]

Lost ==
    /\ round.at \in {"uplink", "downlink"} /\ ~calm
    /\ IF round.at = "uplink" THEN Missed ELSE UNCHANGED dev
    /\ round' = Idle
    /\ UNCHANGED <<ds, mode, pending, queue, conf, blind, refused, changes, calm>>

\* The parameters whose answer is read with its own request, or with another.
Read(cmds, same) ==
    {p \in Params : LET ans == Group(cmds, p)
                    IN  /\ Len(ans) = 1 /\ ans[1].ok /\ pending[p] # NoBlock
                        /\ (pending[p].req = ans[1].of) = same}

\* What a reset device has lost and the server takes for done or for refused.
Kept(s) == {p \in Params \ BootParams : s.val[p] # Boot}
              \cup {c \in {"NewChannel"} : s.errors[c] > MaxErrors}

\* What the commands of an uplink settle and unsettle.
BlindAfter(cmds) ==
    {x \in blind : x[1] \notin Read(cmds, TRUE)}
        \cup (Read(cmds, FALSE) \X {"repeated"})
        \cup (IF "ResetInd" \in CidsOf(cmds) THEN Kept(ds) \X {"reset"} ELSE {})

\* The session as the task list of an uplink saves it.
Handled ==
    LET s == setUplinkDataRate([ds EXCEPT !.adr = dev.adr], dev.link.dr)
    IN  appendMetaDataToUplinkHistory(
            handleUplinkMACCommands(s, pending, round.cmds),
            dev.missed, dev.snr - 4 * dev.link.power)

\* The task list of an uplink, and the task list of its response up to the read
\* of the queue.
HandleUplink ==
    /\ round.at = "uplink"
    /\ \E due \in {FALSE, DevStatus /\ changes < MaxChanges}, s \in {Handled} :
         LET cmds == round.cmds
             adr == Group(cmds, "LinkADR")
         IN  /\ ds' = s
             /\ changes' = changes + (IF due THEN 1 ELSE 0)
             /\ pending' = DeletePendingMACCommand(pending, cmds)
             /\ mode' = handleDeviceModeInd(mode, cmds)
             /\ \E blocks \in Collected(s, MACCommandResponses(cmds, dev.link.dr), due) :
                   round' = [round EXCEPT !.at = "commit", !.cmds = <<>>,
                                !.must = mustRespondWithDownlink(cmds), !.blocks = blocks]
             /\ blind' = BlindAfter(cmds)
             /\ refused' = IF "ResetInd" \in CidsOf(cmds) THEN {}
                           ELSE IF adr # <<>> /\ dev.adr /\ "power" \notin adr[1].bits
                           THEN refused \cup {adr[1].of[2]} ELSE refused
    /\ dev' = [dev EXCEPT !.missed = 0]
    /\ UNCHANGED <<queue, conf, calm>>

\* The process dies or Redis fails before the session is saved: the requests of the
\* first answers are no longer pending and what the answers said is lost.
HandleUplinkFails ==
    /\ round.at = "uplink" /\ ~calm
    /\ \E n \in DOMAIN round.cmds :
         LET cmds == SubSeq(round.cmds, 1, n)
         IN  /\ pending' = DeletePendingMACCommand(pending, cmds)
             /\ mode' = handleDeviceModeInd(mode, cmds)
    /\ round' = Idle /\ Missed
    /\ UNCHANGED <<ds, queue, conf, blind, refused, changes, calm>>

\* A plausible slip: a request that is pending already is left there.
SetPendingOnce(n) ==
    pending' = [c \in Cids |->
        LET own == {i \in 1..n : round.blocks[i].cid = c}
        IN  IF own = {} \/ pending[c] # NoBlock THEN pending[c] ELSE round.blocks[Max(own)]]

\* SetPendingMACCommand and, for the commands from the queue,
\* DeleteMACCommandQueueItem of the first n blocks.
SetPendingMACCommand(n) ==
    pending' = [c \in Cids |->
        LET own == {i \in 1..n : round.blocks[i].cid = c}
        IN  IF own = {} THEN pending[c] ELSE round.blocks[Max(own)]]

\* LREM with count 0: every block that is equal.
DeleteMACCommandQueueItem(n) ==
    queue' = Pick(queue, {i \in DOMAIN queue : \A j \in 1..n : queue[i] # round.blocks[j]})

\* The blocks whose deletion finds nothing: an equal one came before.
Gone == {k \in DOMAIN round.blocks :
            /\ round.blocks[k].ext
            /\ \/ round.blocks[k] \notin ToSet(queue)
               \/ \E j \in 1..(k - 1) : round.blocks[j] = round.blocks[k]}

\* The response is sent with the blocks that fit, or there is none to send.
setMACCommands ==
    /\ round.at = "commit" /\ Gone = {}
    /\ SetPendingMACCommand(Len(round.blocks))
    /\ DeleteMACCommandQueueItem(Len(round.blocks))
    /\ \E confirmed \in BOOLEAN :
         IF round.blocks = <<>> /\ ~round.must /\ ~confirmed
         THEN round' = Idle /\ UNCHANGED ds
         ELSE /\ round' = [round EXCEPT !.at = "downlink",
                              !.blocks = SubSeq(@, 1, Min({Room, Len(@)}))]
              /\ ds' = CleanChannels(ds)
    /\ UNCHANGED <<mode, conf, dev, blind, refused, changes, calm>>

\* Redis fails, the process dies, or a deletion finds nothing: no response.
setMACCommandsFails ==
    /\ round.at = "commit" /\ (calm => Gone # {})
    /\ \E n \in DOMAIN round.blocks :
         /\ Gone # {} => n <= Min(Gone)
         /\ calm => n = Min(Gone)
         /\ SetPendingMACCommand(n)
         /\ DeleteMACCommandQueueItem(n - 1)
    /\ round' = Idle
    /\ UNCHANGED <<ds, mode, conf, dev, blind, refused, changes, calm>>

ReceiveDownlink ==
    /\ round.at = "downlink"
    /\ dev' = ObeyAll([dev EXCEPT !.answers = <<>>], round.blocks)
    /\ round' = Idle
    /\ UNCHANGED <<ds, mode, pending, queue, conf, blind, refused, changes, calm>>

(***************************************************************************)
(* The external controller, the operator and the device.                   *)
(***************************************************************************)
CreateMACCommandQueueItem ==
    /\ changes < MaxChanges /\ changes' = changes + 1
    /\ \E cid \in ExtCids, v \in ExtValues :
         queue' = Append(queue, [Block(cid, <<v>>) EXCEPT !.ext = TRUE])
    /\ UNCHANGED <<ds, mode, pending, conf, dev, round, blind, refused, calm>>

\* The server is restarted with another configuration.  When a request whose
\* answer is outstanding is withdrawn, nobody asks what became of it.
Reconfigure ==
    /\ changes < MaxChanges /\ round.at = "idle"
    /\ \E p \in Params, v \in Values :
         /\ v # conf[p] /\ conf' = [conf EXCEPT ![p] = v]
         /\ blind' = IF v = ds.val[p] /\ (pending[p] # NoBlock \/ dev.val[p] # v)
                     THEN blind \cup {<<p, "withdrawn">>} ELSE blind
    /\ changes' = changes + 1
    /\ UNCHANGED <<ds, mode, pending, queue, dev, round, refused, calm>>

\* A device that does not join boots, and says so until it is confirmed.
DeviceResets ==
    /\ changes < MaxChanges /\ round.at = "idle" /\ ~SupportsJoin
    /\ dev' = [dev EXCEPT !.val = [p \in Params |-> Boot], !.extra = {},
                !.enabled = StandardChannels, !.link.power = 0, !.link.nb = 1,
                !.answers = <<>>, !.reset = TRUE]
    /\ changes' = changes + 1
    /\ UNCHANGED <<ds, mode, pending, queue, conf, round, blind, refused, calm>>

\* Without an answer to its ADRACKReq the device goes to full power and a lower
\* data-rate.
DeviceBacksOff ==
    /\ changes < MaxChanges /\ round.at = "idle" /\ dev.link.dr > 0
    /\ dev' = [dev EXCEPT !.link.power = 0, !.link.dr = @ - 1]
    /\ changes' = changes + 1
    /\ UNCHANGED <<ds, mode, pending, queue, conf, round, blind, refused, calm>>

\* The radio and Redis work from now on.
CalmsDown ==
    /\ ~calm /\ calm' = TRUE
    /\ UNCHANGED <<ds, mode, pending, queue, conf, dev, round, blind, refused, changes>>

\* A step of the exchange: from an uplink to the next one.
Exchange ==
    \/ SendUplink \/ Lost \/ HandleUplinkFails \/ HandleUplink
    \/ setMACCommandsFails \/ setMACCommands \/ ReceiveDownlink

Next ==
    \/ Exchange \/ CreateMACCommandQueueItem \/ Reconfigure
    \/ DeviceResets \/ DeviceBacksOff \/ CalmsDown

Spec == Init /\ [][Next]_vars

\* The device goes on sending, every frame is lost or handled, and after any number
\* of losses and failures there are no more of them.
Fairness == WF_vars(Exchange) /\ WF_vars(CalmsDown)

FairSpec == Spec /\ Fairness

-----------------------------------------------------------------------------
\* The types of the variables; the errors counted against a command stop at the
\* limit, or past it by the channels of one NewChannelReq.
TypeOK ==
    /\ ds.val \in [Params -> Values] /\ dev.val \in [Params -> Values]
    /\ \A c \in Cids : ds.errors[c] \in 0..(MaxErrors + MaxNewChannels)
    /\ ds.link.dr \in DOMAIN DataRates /\ ds.link.nb \in 1..3
    /\ ds.link.power \in 0..BandMaxPower /\ ds.maxPower \in 0..BandMaxPower
    /\ Len(ds.history) <= RequiredHistory /\ ds.extra \subseteq ds.enabled \cup OldChannels
    /\ Len(queue) <= MaxChanges /\ changes \in 0..MaxChanges
    /\ blind \subseteq Cids \X {"repeated", "reset", "withdrawn"} /\ mode \in {"A", "C"}
    /\ \A c \in Cids : pending[c] = NoBlock \/ pending[c].cid = c

Blind(cid) == \E x \in blind : x[1] = cid

ParametersKnown ==
    \A p \in Params : ~Unset(ds, p) => dev.val[p] = conf[p] \/ dev.reset \/ Blind(p)

ChannelsKnown ==
    (requestCustomChannelReconfiguration(ds) \o HandleChannelReconfigure(ds) = <<>>)
        => (ds.enabled = dev.enabled \/ dev.reset)

\* When the server has nothing more to ask for it is right: a parameter that the
\* session says is set as configured is so on the device, and channels that need no
\* request are those of the device.  Lost frames and failures between two writes to
\* Redis, before or after the session is saved, never make it believe otherwise.
\* Excepted are a device that has reset and could not say so yet, and the reasons
\* in blind.
Agreement == ParametersKnown /\ ChannelsKnown

\* An answer has no identity: it is read with the request that is pending.  Only
\* an answer that the device repeats, RXParamSetupAns or RXTimingSetupAns, can be
\* read with another request than its own, whatever is lost, repeated and
\* reconfigured.
OnlyRepeatedMisread == \A x \in blind : x[2] = "repeated" => x[1] \in Sticky

\* A power index that the device has refused is not asked for again, nor a higher
\* one (MaxSupportedTXPowerIndex, link_adr.go).  A device that refuses index 1 is
\* excepted: the limit becomes 0, which requestADRChange takes for "not known".
RefusedPowerAvoided ==
    (1 \notin refused /\ pending["LinkADR"] # NoBlock)
        => \A k \in refused : k > 0 => pending["LinkADR"].req[2] < k

Asked(cid) == \E i \in DOMAIN round.blocks : round.blocks[i].cid = cid

Converged ==
    /\ \A p \in Params \ RefusedParams : dev.val[p] = conf[p] \/ Blind(p)
    /\ \A p \in RefusedParams : ~Asked(p)
    /\ \/ dev.enabled = StandardChannels \cup (CustomChannels \ RefusedChannels)
       \/ dev.enabled = StandardChannels /\ Blind("NewChannel")

\* Every parameter the device accepts gets its configured value, a parameter it
\* refuses is asked for no more (max_mac_command_error_count), the channels of the
\* configuration are set up and the old ones switched off, although requests
\* share frames that are too small, get lost, and exclude each other.
Converges == <>[]Converged

\* On a channel of constant loss the ADR loop comes to rest: no LinkADRReq is
\* sent any more, although the history mixes powers, the device backs off and the
\* power the session takes for the device's is reset whenever the data-rate changes.
LinkSettles == <>[](~Asked("LinkADR"))
=============================================================================
