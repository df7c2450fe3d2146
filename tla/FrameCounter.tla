---------------------------- MODULE FrameCounter ----------------------------
(***************************************************************************)
(* The uplink frame-counter of one device-session (internal/storage/       *)
(* device_session.go): how the 32-bit counter is rebuilt from the 16 bits  *)
(* of a frame, which frames the session accepts, and the uplink history    *)
(* the packet-loss is computed from.                                       *)
(*                                                                         *)
(* The device numbers its frames; the network loses, delays, reorders and  *)
(* repeats them, and so may anybody who has recorded them.  A frame is     *)
(* named by the 32-bit counter its MIC was computed with: the MIC is valid *)
(* for that counter and for no other.  A frame is handled completely       *)
(* before the next one; what concurrent handlers do to the session is the  *)
(* subject of DeviceDownlink.                                              *)
(***************************************************************************)
EXTENDS Integers, Sequences, FiniteSets

CONSTANTS
    Width,        \* 1 << 16: a frame carries the counter modulo Width
    Top,          \* 1 << 32: counters are computed modulo Top
    HistorySize   \* UplinkHistorySize

ASSUME CounterWidths ==
    /\ Width \in Nat \ {0, 1}
    /\ Top \in Nat
    /\ Width < Top
    /\ HistorySize \in Nat \ {0}

Counters == 0 .. (Top - 1)

VARIABLES
    skip,      \* DeviceSession.SkipFCntValidation, fixed when the session is created
    sent,      \* device: the counter of its next frame
    fCntUp,    \* DeviceSession.FCntUp, the next expected counter
    history,   \* DeviceSession.UplinkHistory, the counters
    accepted,  \* history variable: counters of the frames given to the AS
    repeated,  \* history variable: those given to the AS more than once
    verdict    \* history variable: the last frame and what became of it

vars == <<skip, sent, fCntUp, history, accepted, repeated, verdict>>

Results == {"none", "accepted", "retransmission", "reset", "invalidMIC"}

Verdicts == [cnt : Counters, expected : Counters, result : Results]

TypeOK ==
    /\ skip \in BOOLEAN
    /\ sent \in Counters
    /\ fCntUp \in Counters
    /\ history \in Seq(Counters)
    /\ Len(history) <= HistorySize
    /\ accepted \in SUBSET Counters
    /\ repeated \in SUBSET Counters
    /\ verdict \in Verdicts

\* A new session: zero after a join, any value after ActivateDevice
Init ==
    /\ skip \in BOOLEAN
    /\ sent \in Counters
    /\ fCntUp = sent
    /\ history = <<>>
    /\ accepted = {}
    /\ repeated = {}
    /\ verdict = [cnt |-> 0, expected |-> 0, result |-> "none"]

-----------------------------------------------------------------------------
\* Mutant: the difference is not truncated to 16 bits.
FullFCntWithoutRollover(next, truncated) ==
    IF truncated = ((next % Width) - 1) % Width
    THEN (next - 1) % Top
    ELSE (next + (truncated - (next % Width))) % Top

\* next is uint32, the two differences are uint16
GetFullFCntUp(next, truncated) ==
    IF truncated = ((next % Width) - 1) % Width
    THEN (next - 1) % Top
    ELSE (next + ((truncated - (next % Width)) % Width)) % Top

\* The counters the MIC is tried with
Candidates(cnt) == {GetFullFCntUp(fCntUp, cnt % Width), cnt % Width}

\* Mutant: the counter of the last frame is accepted once more.
JudgeAcceptsLast(cnt) ==
    IF cnt \notin Candidates(cnt) THEN "invalidMIC"
    ELSE IF cnt + 1 >= fCntUp \/ skip THEN "accepted"
    ELSE "reset"

\* GetDeviceSessionForPHYPayload, for a frame with the keys of this session
Judge(cnt) ==
    IF cnt \notin Candidates(cnt) THEN "invalidMIC"
    ELSE IF cnt >= fCntUp \/ skip THEN "accepted"
    ELSE IF cnt = (fCntUp - 1) % Top THEN "retransmission"
    ELSE "reset"

\* Mutant: a frame-counter reset leaves the history alone.
KeepAfterReset(cnt) == history

\* The history as GetDeviceSessionForPHYPayload returns it
HistoryFor(cnt) == IF cnt < fCntUp THEN <<>> ELSE history

\* Mutant: the oldest record is not removed.
AppendOnly(h, cnt) == Append(h, cnt)

\* AppendUplinkHistory
AppendUplinkHistory(h, cnt) ==
    IF h # <<>> /\ h[Len(h)] = cnt THEN h
    ELSE IF Len(h) < HistorySize THEN Append(h, cnt)
    ELSE Append(Tail(h), cnt)

\* The device uses a counter.  It re-joins before the counter is used up.
Send ==
    /\ sent < Top - 2
    /\ sent' = sent + 1
    /\ UNCHANGED <<skip, fCntUp, history, accepted, repeated, verdict>>

\* A frame is received; the history starts anew when the data-rate has changed
\* (setUplinkDataRate), and the counter is set by syncUplinkFCnt.
Receive(cnt, sameDR) ==
    /\ cnt < sent
    /\ verdict' = [cnt |-> cnt, expected |-> fCntUp, result |-> Judge(cnt)]
    /\ IF Judge(cnt) = "accepted"
       THEN /\ history' = AppendUplinkHistory(IF sameDR THEN HistoryFor(cnt) ELSE <<>>, cnt)
            /\ fCntUp' = (cnt + 1) % Top
            /\ accepted' = accepted \cup {cnt}
            /\ repeated' = repeated \cup ({cnt} \cap accepted)
       ELSE UNCHANGED <<fCntUp, history, accepted, repeated>>
    /\ UNCHANGED <<skip, sent>>

Next ==
    \/ Send
    \/ \E cnt \in Counters, sameDR \in BOOLEAN : Receive(cnt, sameDR)

Spec == Init /\ [][Next]_vars

\* Mutant: the expected difference of 1 between two frames is counted as a loss.
LostPacketsOffByOne(h) ==
    LET lost[i \in 1 .. Len(h)] ==
          IF i = 1 THEN 0 ELSE (lost[i - 1] + (h[i] - h[i - 1])) % Top
    IN IF Len(h) < HistorySize THEN 0 ELSE lost[Len(h)]

\* GetPacketLossPercentage, the number of lost packets
LostPackets(h) ==
    LET lost[i \in 1 .. Len(h)] ==
          IF i = 1 THEN 0 ELSE (lost[i - 1] + (h[i] - h[i - 1] - 1)) % Top
    IN IF Len(h) < HistorySize THEN 0 ELSE lost[Len(h)]

-----------------------------------------------------------------------------
(* Properties *)

\* No frame is given to the AS twice, however often and in whatever order it is
\* delivered, unless the check is disabled (GetDeviceSessionForPHYPayload).
AcceptedOnce == ~skip => repeated = {}

\* A frame that is new and not further ahead than 16 bits can tell is accepted, the
\* last one is recognised as a retransmission when it is repeated, and no older one
\* is accepted (device_session.go:299, "returns the full 32bit frame-counter").
VerdictExact ==
    LET c == verdict.cnt
        e == verdict.expected
    IN verdict.result # "none" =>
         /\ e <= c /\ c <= e + Width - 2 => verdict.result = "accepted"
         /\ c = e - 1 /\ ~skip => verdict.result = "retransmission"
         /\ c < e /\ ~skip => verdict.result # "accepted"

\* The history holds different frames in the order of their counters, the last of
\* which is the one before the next expected counter: what the ADR engine and
\* GetPacketLossPercentage take for granted.
HistoryIncreasing ==
    /\ \A i \in 1 .. Len(history) - 1 : history[i] < history[i + 1]
    /\ history # <<>> => history[Len(history)] + 1 = fCntUp

\* The packet-loss is the number of counters the device has used and the history
\* does not hold, between its first and its last record.
LossExact ==
    Len(history) = HistorySize =>
        LostPackets(history) =
            Cardinality({c \in history[1] .. history[HistorySize] :
                           \A i \in 1 .. HistorySize : history[i] # c})
=============================================================================
