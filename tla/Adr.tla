-------------------------------- MODULE Adr ---------------------------------
(***************************************************************************)
(* The adaptive data-rate algorithms of internal/adr: which data-rate,     *)
(* transmission power and number of transmissions a device is asked for,   *)
(* given its present ones and the history of its uplinks.                  *)
(*                                                                         *)
(* Signal levels are integers: an SNR is in half dB (the required SNRs of  *)
(* config.go are multiples of 2.5 dB), an RSSI in dBm.  An element of the  *)
(* history has the number of frames missed before it in place of its frame *)
(* counter, since only the differences of the counters are used.           *)
(***************************************************************************)
EXTENDS Integers, Sequences, SequencesExt, FiniteSetsExt

CONSTANTS
    DataRates,          \* the data-rates of the band: mod, sf (LoRa), cr (LR-FHSS)
    EnabledDataRates,   \* those of the enabled uplink channels
    MaxDR,              \* DRMax of the service-profile
    InstallationMargin, \* in half dB
    RequiredHistory     \* the length of a full history (20)

ASSUME AdrAssumption ==
    /\ DOMAIN DataRates \subseteq Nat /\ 0 \in DOMAIN DataRates
    /\ \A i \in DOMAIN DataRates : 0..i \subseteq DOMAIN DataRates
    /\ EnabledDataRates \subseteq DOMAIN DataRates /\ IsFiniteSet(EnabledDataRates)
    /\ InstallationMargin \in Int
    /\ MaxDR \in Nat /\ RequiredHistory \in Nat \ {0}

(***************************************************************************)
(* The default algorithm, default.go.                                      *)
(***************************************************************************)
SpreadFactorToRequiredSNR(sf) == IF sf \in 6..12 THEN 20 - 5 * sf ELSE 0

pktLossRateTable == <<<<1, 1, 2>>, <<1, 2, 3>>, <<2, 3, 3>>, <<3, 3, 3>>>>

getNbTrans(nb, loss) ==
    LET current == IF nb < 1 THEN 1 ELSE IF nb > 3 THEN 3 ELSE nb
        class == IF loss < 5 THEN 1 ELSE IF loss < 10 THEN 2
                 ELSE IF loss < 30 THEN 3 ELSE 4
    IN  pktLossRateTable[class][current]

\* The frames missed before the first element are not counted.
getPacketLossPercentage(history) ==
    IF Len(history) < RequiredHistory THEN 0
    ELSE (FoldLeft(LAMBDA lost, h : lost + h.gap, 0, Tail(history)) * 100)
            \div Len(history)

getMaxSNR(history) == Max({-1998} \cup {history[i].snr : i \in DOMAIN history})

getHistoryCount(history, power) ==
    Len(SelectSeq(history, LAMBDA h : h.power = power))

\* Go's conversion of a float to int: towards zero.
TowardsZero(a, b) == IF a >= 0 THEN a \div b ELSE -((-a) \div b)

StepUp(x, maxPower, maxDR) ==
    IF x.dr < maxDR THEN [x EXCEPT !.dr = @ + 1]
    ELSE IF x.power < maxPower THEN [x EXCEPT !.power = @ + 1] ELSE x

StepDown(x) == IF x.power > 0 THEN [x EXCEPT !.power = @ - 1] ELSE x

\* |nStep| steps: up through the data-rates and then the powers, or down.
getIdealTxPowerIndexAndDR(nStep, start, maxPower, maxDR) ==
    LET steps == IF nStep < 0 THEN -nStep ELSE nStep
        ideal[n \in 0..steps] == [x \in [dr : Nat, power : Nat, nb : Nat] |->
            IF n = 0 THEN x
            ELSE ideal[n - 1][IF nStep > 0 THEN StepUp(x, maxPower, maxDR) ELSE StepDown(x)]]
    IN  ideal[steps][start]

IsLoRa(dr) == DataRates[dr].mod = "LORA"

\* The highest LoRa data-rate that is enabled and allowed.
HighestDR == Min({MaxDR, Max({0} \cup {i \in EnabledDataRates : IsLoRa(i)})})

\* req has the fields adr, link (dr, power, nb), maxPower and history.
DefaultHandle(req) ==
    LET resp == [dr |-> Min({req.link.dr, HighestDR}),
                 power |-> req.link.power,
                 nb |-> getNbTrans(req.link.nb, getPacketLossPercentage(req.history))]
        margin == getMaxSNR(req.history)
                    - SpreadFactorToRequiredSNR(DataRates[req.link.dr].sf)
                    - InstallationMargin
        nStep == TowardsZero(margin, 6)
    IN  IF ~req.adr THEN req.link
        ELSE IF nStep < 0 /\ getHistoryCount(req.history, req.link.power) # RequiredHistory
        THEN resp
        ELSE getIdealTxPowerIndexAndDR(nStep, resp, req.maxPower, HighestDR)

(***************************************************************************)
(* LR-FHSS, lr_fhss.go.  The data-rate is taken at random from the         *)
(* suitable ones: the result is the set of possible responses.             *)
(***************************************************************************)
getMedian(history) ==
    LET rssi == SortSeq([i \in DOMAIN history |-> history[i].rssi], <)
        m == Len(rssi) \div 2
    IN  IF Len(rssi) = 0 THEN 0
        ELSE IF Len(rssi) % 2 # 0 THEN rssi[m + 1]
        ELSE TowardsZero(rssi[m] + rssi[m + 1], 2)

LRFHSSWith(rates, cr) == {i \in rates : DataRates[i].cr = cr}

LRFHSSHandle(req) ==
    LET current == DataRates[req.link.dr]
        med == getMedian(req.history)
        rates == {i \in EnabledDataRates : i <= MaxDR /\ DataRates[i].mod = "LR_FHSS"}
        fast == IF med >= -130 /\ Len(req.history) = RequiredHistory
                THEN LRFHSSWith(rates, "4/6") ELSE {}
        drs == IF fast = {} THEN LRFHSSWith(rates, "1/3") ELSE fast
    IN  IF \/ ~req.adr
           \/ current.mod = "LR_FHSS" /\ current.cr = "4/6"
           \/ med < -130 /\ current.mod = "LR_FHSS" /\ current.cr = "1/3"
           \/ drs = {}
        THEN {req.link}
        ELSE {[dr |-> dr, power |-> 0, nb |-> 1] : dr \in drs}

(***************************************************************************)
(* LoRa and LR-FHSS, lora_lr_fhss.go, and the choice of the algorithm by   *)
(* the device-profile, adr.go.                                             *)
(***************************************************************************)
LoRaLRFHSSHandle(req) ==
    LET loRa == DefaultHandle(req)
    IN  IF DataRates[loRa.dr].sf < 10 THEN {loRa} ELSE LRFHSSHandle(req)

GetHandler(id, req) ==
    CASE id = "lr_fhss" -> LRFHSSHandle(req)
      [] id = "lora_lr_fhss" -> LoRaLRFHSSHandle(req)
      [] OTHER -> {DefaultHandle(req)}
=============================================================================
