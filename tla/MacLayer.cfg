CONSTANTS
    DataRates <- MCDataRates
    EnabledDataRates = {0, 1, 2, 3}
    MaxDR = 3
    InstallationMargin = 0
    RequiredHistory = 2
    Params = {"RXParamSetup", "PingSlotChannel", "RejoinParamSetup"}
    Values = {0, 1, 2}
    Boot = 0
    Configured <- MCConfigured
    StandardChannels = {0}
    CustomChannelIndices <- MCCustomChannelIndices
    OldChannels = {3}
    Algorithm = "lora_lr_fhss"
    BandMaxPower = 3
    Devices <- MCDevices
    SupportsJoin = FALSE
    DisableMACCommands = FALSE
    MaxErrors = 1
    Room = 3
    DevStatus = TRUE
    Asks = {"LinkCheckReq", "PingSlotInfoReq", "DeviceModeInd"}
    RefusedParams = {"PingSlotChannel"}
    RefusedChannels = {2}
    DevMaxPower = 2
    ExtValues = {0}
    ExtCids = {"Proprietary"}
    MaxMissed = 1
    MaxChanges = 1
SPECIFICATION FairSpec
INVARIANTS TypeOK Agreement  RefusedPowerAvoided
PROPERTIES Converges LinkSettles
