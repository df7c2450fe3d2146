------------------------ MODULE FrameCounterProofs ------------------------
(***************************************************************************)
(* Proofs about FrameCounter, for every width of the two counters, every   *)
(* size of the history, with and without SkipFCntValidation.               *)
(*                                                                         *)
(* TLAPS knows of % and \div no more than the division theorem, so the     *)
(* first part derives from it what the 16-bit difference of two counters   *)
(* is.  AcceptedOnce follows from Below: everything accepted is below the  *)
(* next expected counter.  The history is ordered because its last record  *)
(* is the counter before the expected one, or it has been emptied.  The    *)
(* packet-loss is exact because the gaps of an increasing history add up   *)
(* to the distance of its ends less its records.                           *)
(***************************************************************************)
EXTENDS FrameCounter, FiniteSetTheorems, FunctionTheorems, WellFoundedInduction, TLAPS

-----------------------------------------------------------------------------
(* Arithmetic *)

\* The division theorem, which the definitions of % and \div amount to
LEMMA Division ==
  ASSUME NEW w \in Nat \ {0}, NEW n \in Int
  PROVE  n % w \in 0 .. (w - 1) /\ n \div w \in Int /\ n = w * (n \div w) + (n % w)
  BY Z3

\* The quotient of a division is unique.
LEMMA QuotientUnique ==
  ASSUME NEW w \in Nat \ {0}, NEW q \in Int, NEW p \in Int,
         NEW r \in 0 .. (w - 1), NEW s \in 0 .. (w - 1), w * q + r = w * p + s
  PROVE  q = p
<1>1. w * (q - p) = s - r
  BY Z3
<1>2. CASE q > p
  <2>1. w * (q - p) >= w
    BY <1>2, Z3
  <2> QED
    BY <1>1, <2>1, Z3
<1>3. CASE q < p
  <2>1. w * (q - p) <= -w
    BY <1>3, Z3
  <2> QED
    BY <1>1, <2>1, Z3
<1> QED
  BY <1>2, <1>3, Z3

\* A number below w is the remainder of what it is added to a multiple of w.
LEMMA Remainder ==
  ASSUME NEW w \in Nat \ {0}, NEW q \in Int, NEW r \in 0 .. (w - 1)
  PROVE  (w * q + r) % w = r
<1> DEFINE n == w * q + r
<1>1. n \in Int
  BY Z3
<1>2. n % w \in 0 .. (w - 1) /\ n \div w \in Int /\ n = w * (n \div w) + (n % w)
  BY <1>1, Division
<1>3. q = n \div w
  BY <1>2, QuotientUnique
<1> QED
  BY <1>2, <1>3, Z3

\* A number below w is its own remainder.
LEMMA SmallRemainder ==
  ASSUME NEW w \in Nat \ {0}, NEW r \in 0 .. (w - 1) PROVE r % w = r
<1>1. (w * 0 + r) % w = r
  BY Remainder
<1> QED
  BY <1>1, Z3

\* Two numbers less than w apart: their remainders are as far apart, modulo w.
LEMMA RemainderDifference ==
  ASSUME NEW w \in Nat \ {0}, NEW n \in Int, NEW d \in Int, n <= d, d < n + w
  PROVE  ((d % w) - (n % w)) % w = d - n
<1>1. ASSUME NEW k \in Int, NEW l \in Int, NEW a \in Int, NEW b \in Int,
             d = w * k + a, n = w * l + b
      PROVE  a - b = w * (l - k) + (d - n)
  BY <1>1, Z3
<1>2. d % w \in Int /\ d \div w \in Int /\ d = w * (d \div w) + (d % w)
  BY Division
<1>3. n % w \in Int /\ n \div w \in Int /\ n = w * (n \div w) + (n % w)
  BY Division
<1>4. (d % w) - (n % w) = w * ((n \div w) - (d \div w)) + (d - n)
  BY <1>1, <1>2, <1>3
<1>5. (w * ((n \div w) - (d \div w)) + (d - n)) % w = d - n
  <2>1. d - n \in 0 .. (w - 1) /\ (n \div w) - (d \div w) \in Int
    BY <1>2, <1>3
  <2> QED
    BY <2>1, Remainder
<1> QED
  BY <1>4, <1>5

\* The uint16 before the low half of n is the low half of n - 1.
LEMMA PredecessorRemainder ==
  ASSUME NEW w \in Nat \ {0}, NEW n \in Int
  PROVE  ((n % w) - 1) % w = (n - 1) % w
<1>1. ASSUME NEW k \in Int, NEW l \in Int, NEW a \in Int, NEW b \in Int,
             n = w * k + a, n - 1 = w * l + b
      PROVE  a - 1 = w * (l - k) + b
  BY <1>1, Z3
<1>2. n % w \in Int /\ n \div w \in Int /\ n = w * (n \div w) + (n % w)
  BY Division
<1>3. /\ (n - 1) % w \in 0 .. (w - 1)
      /\ (n - 1) \div w \in Int
      /\ n - 1 = w * ((n - 1) \div w) + ((n - 1) % w)
  <2>1. n - 1 \in Int
    OBVIOUS
  <2> QED
    BY <2>1, Division, Zenon
<1>4. (n % w) - 1 = w * (((n - 1) \div w) - (n \div w)) + ((n - 1) % w)
  BY <1>1, <1>2, <1>3
<1>5. (w * (((n - 1) \div w) - (n \div w)) + ((n - 1) % w)) % w = (n - 1) % w
  <2>1. ((n - 1) \div w) - (n \div w) \in Int
    BY <1>2, <1>3
  <2> QED
    BY <1>3, <2>1, Remainder, Zenon
<1> QED
  BY <1>4, <1>5

\* Numbers less than w apart have different remainders.
LEMMA RemaindersDiffer ==
  ASSUME NEW w \in Nat \ {0}, NEW n \in Int, NEW d \in Int, n < d, d < n + w
  PROVE  d % w # n % w
<1>1. ((d % w) - (n % w)) % w = d - n
  <2>1. n <= d
    OBVIOUS
  <2> QED
    BY <2>1, RemainderDifference, Zenon
<1>2. d % w \in Int /\ n % w \in Int
  BY Division
<1>3. 0 % w = 0
  BY SmallRemainder
<1> QED
  BY <1>1, <1>2, <1>3

-----------------------------------------------------------------------------
(* The counter of a frame *)

\* GetFullFCntUp rebuilds the counter of every frame from the last one received to
\* Width - 2 ahead of the expected one, across every roll-over of the low 16 bits.
THEOREM FullFCntExact ==
  ASSUME NEW next \in Counters, NEW c \in Counters,
         next - 1 <= c, c <= next + Width - 2
  PROVE  GetFullFCntUp(next, c % Width) = c
<1> USE CounterWidths
<1>1. Width \in Nat \ {0} /\ Top \in Nat \ {0} /\ next \in Int /\ c \in Int
  BY DEF Counters
<1>2. ((next % Width) - 1) % Width = (next - 1) % Width
  BY <1>1, PredecessorRemainder
<1>3. c % Top = c
  BY <1>1, SmallRemainder DEF Counters
<1>4. CASE c = next - 1
  BY <1>2, <1>3, <1>4 DEF GetFullFCntUp
<1>5. CASE next <= c
  <2>1. c % Width # (next - 1) % Width
    <3>1. next - 1 \in Int /\ next - 1 < c /\ c < (next - 1) + Width
      BY <1>1, <1>5
    <3> QED
      BY <1>1, <3>1, RemaindersDiffer, Zenon
  <2>2. ((c % Width) - (next % Width)) % Width = c - next
    <3>1. c < next + Width
      BY <1>1
    <3> QED
      BY <1>1, <1>5, <3>1, RemainderDifference, Zenon
  <2>3. next + (c - next) = c
    BY <1>1
  <2> QED
    BY <1>2, <1>3, <2>1, <2>2, <2>3 DEF GetFullFCntUp
<1> QED
  BY <1>1, <1>4, <1>5

-----------------------------------------------------------------------------
(* Invariants *)

Increasing(h) == \A i \in 1 .. Len(h) - 1 : h[i] < h[i + 1]

\* AppendUplinkHistory of a later counter keeps the order and the bound.
LEMMA AppendOrdered ==
  ASSUME NEW h \in Seq(Counters), NEW c \in Counters, Len(h) <= HistorySize,
         Increasing(h), h # <<>> => h[Len(h)] < c
  PROVE  /\ AppendUplinkHistory(h, c) \in Seq(Counters)
         /\ Len(AppendUplinkHistory(h, c)) <= HistorySize
         /\ Increasing(AppendUplinkHistory(h, c))
         /\ AppendUplinkHistory(h, c)[Len(AppendUplinkHistory(h, c))] = c
<1> USE CounterWidths
<1>1. Len(h) \in Nat /\ (h # <<>> => Len(h) > 0 /\ h[Len(h)] \in Counters)
  OBVIOUS
<1>2. CASE Len(h) < HistorySize
  <2>1. AppendUplinkHistory(h, c) = Append(h, c)
    BY <1>1, <1>2 DEF AppendUplinkHistory, Counters
  <2> QED
    BY <1>1, <1>2, <2>1 DEF Increasing, Counters
<1>3. CASE Len(h) >= HistorySize
  <2>1. h # <<>> /\ Len(h) = HistorySize
    BY <1>1, <1>3
  <2>2. AppendUplinkHistory(h, c) = Append(Tail(h), c)
    BY <1>1, <1>3, <2>1 DEF AppendUplinkHistory, Counters
  <2>3. /\ Tail(h) \in Seq(Counters)
        /\ Len(Tail(h)) = Len(h) - 1
        /\ \A i \in 1 .. Len(h) - 1 : Tail(h)[i] = h[i + 1]
    BY <2>1
  <2>4. Increasing(Append(Tail(h), c))
    BY <1>1, <2>1, <2>3 DEF Increasing, Counters
  <2> QED
    BY <1>1, <2>1, <2>2, <2>3, <2>4
<1> QED
  BY <1>1, <1>2, <1>3

\* Everything given to the AS is below the next expected counter.
Below == ~skip => \A c \in accepted : c < fCntUp

IInv ==
    /\ TypeOK
    /\ Below
    /\ AcceptedOnce
    /\ HistoryIncreasing
    /\ VerdictExact

\* The inductive invariant holds initially.
LEMMA InitIInv == Init => IInv
<1> SUFFICES ASSUME Init PROVE IInv
  OBVIOUS
<1> USE CounterWidths
<1>1. TypeOK
  BY DEF Init, TypeOK, Counters, Verdicts, Results
<1>2. HistoryIncreasing
  BY DEF Init, HistoryIncreasing
<1> QED
  BY <1>1, <1>2 DEF Init, IInv, Below, AcceptedOnce, VerdictExact

\* The verdict on a frame is the right one in every state.
LEMMA JudgeExact ==
  ASSUME TypeOK, NEW c \in Counters
  PROVE  /\ fCntUp <= c /\ c <= fCntUp + Width - 2 => Judge(c) = "accepted"
         /\ c = fCntUp - 1 /\ ~skip => Judge(c) = "retransmission"
         /\ c < fCntUp /\ ~skip => Judge(c) # "accepted"
<1> USE CounterWidths
<1>1. fCntUp \in Counters
  BY DEF TypeOK
<1>2. ASSUME fCntUp <= c, c <= fCntUp + Width - 2
      PROVE  Judge(c) = "accepted"
  <2>1. GetFullFCntUp(fCntUp, c % Width) = c
    BY <1>1, <1>2, FullFCntExact DEF Counters
  <2> QED
    BY <1>2, <2>1 DEF Judge, Candidates
<1>3. ASSUME c = fCntUp - 1, ~skip
      PROVE  Judge(c) = "retransmission"
  <2>1. fCntUp - 1 <= c /\ c <= fCntUp + Width - 2
    BY <1>1, <1>3 DEF Counters
  <2>2. GetFullFCntUp(fCntUp, c % Width) = c
    BY <1>1, <2>1, FullFCntExact
  <2>3. c % Top = c
    BY SmallRemainder DEF Counters
  <2>4. ~(c >= fCntUp)
    BY <1>1, <1>3 DEF Counters
  <2> QED
    BY <1>3, <2>2, <2>3, <2>4 DEF Judge, Candidates
<1>4. ASSUME c < fCntUp, ~skip
      PROVE  Judge(c) # "accepted"
  <2>1. ~(c >= fCntUp)
    BY <1>1, <1>4 DEF Counters
  <2> QED
    BY <1>4, <2>1 DEF Judge
<1> QED
  BY <1>2, <1>3, <1>4

\* Every step preserves the inductive invariant.
LEMMA IInvStep == IInv /\ [Next]_vars => IInv'
<1> SUFFICES ASSUME IInv, [Next]_vars PROVE IInv'
  OBVIOUS
<1> USE CounterWidths
<1>1. CASE Send
  <2>1. TypeOK'
    BY <1>1 DEF IInv, TypeOK, Send, Counters
  <2> QED
    BY <1>1, <2>1 DEF IInv, Send, Below, AcceptedOnce, HistoryIncreasing, VerdictExact
<1>2. ASSUME NEW c \in Counters, NEW sameDR \in BOOLEAN, Receive(c, sameDR)
      PROVE  IInv'
  <2>0. skip' \in BOOLEAN /\ (skip' <=> skip)
    BY <1>2 DEF Receive, IInv, TypeOK
  <2>1. TypeOK /\ c + 1 \in Counters /\ (c + 1) % Top = c + 1
    <3>1. TypeOK /\ c + 1 \in Counters
      BY <1>2 DEF IInv, TypeOK, Receive, Counters
    <3> QED
      BY <3>1, SmallRemainder DEF Counters
  <2>2. Judge(c) \in Results
    BY DEF Judge, Results
  <2>3. verdict' \in Verdicts
    BY <1>2, <2>1, <2>2 DEF Receive, Verdicts, TypeOK
  <2>4. VerdictExact'
    <3>1. verdict'.cnt = c /\ verdict'.expected = fCntUp /\ verdict'.result = Judge(c)
      BY <1>2 DEF Receive
    <3> QED
      BY <2>0, <2>1, <3>1, JudgeExact DEF VerdictExact
  <2>5. CASE Judge(c) # "accepted"
    <3>1. TypeOK'
      BY <1>2, <2>1, <2>3, <2>5 DEF Receive, TypeOK
    <3> QED
      BY <1>2, <2>4, <2>5, <3>1
      DEF Receive, IInv, Below, AcceptedOnce, HistoryIncreasing
  <2>6. CASE Judge(c) = "accepted"
    <3> DEFINE h == IF sameDR THEN HistoryFor(c) ELSE <<>>
    <3>1. h \in Seq(Counters) /\ Len(h) <= HistorySize /\ Increasing(h)
      <4>1. <<>> \in Seq(Counters) /\ Len(<<>>) <= HistorySize /\ Increasing(<<>>)
        BY DEF Increasing
      <4>2. history \in Seq(Counters) /\ Len(history) <= HistorySize /\ Increasing(history)
        BY DEF IInv, TypeOK, HistoryIncreasing, Increasing
      <4> QED
        BY <4>1, <4>2 DEF HistoryFor
    <3>2. h # <<>> => h[Len(h)] < c
      <4>1. SUFFICES ASSUME h # <<>> PROVE h[Len(h)] < c
        OBVIOUS
      <4>2. h = history /\ ~(c < fCntUp)
        BY <4>1 DEF HistoryFor
      <4>3. history[Len(history)] + 1 = fCntUp /\ history[Len(history)] \in Counters
        BY <2>1, <4>1, <4>2 DEF IInv, HistoryIncreasing, TypeOK
      <4> QED
        BY <2>1, <4>2, <4>3 DEF Counters, TypeOK
    <3>3. /\ history' \in Seq(Counters)
          /\ Len(history') <= HistorySize
          /\ Increasing(history')
          /\ history'[Len(history')] = c
      <4>1. history' = AppendUplinkHistory(h, c)
        BY <1>2, <2>6 DEF Receive
      <4> QED
        BY <3>1, <3>2, <4>1, AppendOrdered
    <3>4. /\ fCntUp' = c + 1
          /\ accepted' = accepted \cup {c}
          /\ repeated' = repeated \cup ({c} \cap accepted)
          /\ sent' = sent
      BY <1>2, <2>1, <2>6 DEF Receive
    <3>5. TypeOK'
      BY <2>0, <2>1, <2>3, <3>3, <3>4 DEF TypeOK
    <3>6. HistoryIncreasing'
      BY <3>3, <3>4 DEF HistoryIncreasing, Increasing
    <3>7. ~skip => c >= fCntUp
      BY <2>6 DEF Judge
    <3>8. Below'
      BY <2>0, <2>1, <3>4, <3>7 DEF Below, IInv, TypeOK, Counters
    <3>9. AcceptedOnce'
      <4>1. SUFFICES ASSUME ~skip PROVE repeated' = {}
        BY <2>0 DEF AcceptedOnce
      <4>2. c \notin accepted
        BY <2>1, <3>7, <4>1 DEF Below, IInv, TypeOK, Counters
      <4> QED
        BY <3>4, <4>1, <4>2 DEF AcceptedOnce, IInv
    <3> QED
      BY <2>4, <3>5, <3>6, <3>8, <3>9 DEF IInv
  <2> QED
    BY <2>5, <2>6
<1>3. CASE UNCHANGED vars
  BY <1>3
  DEF vars, IInv, TypeOK, Below, AcceptedOnce, HistoryIncreasing, VerdictExact
<1> QED
  BY <1>1, <1>2, <1>3 DEF Next

\* The inductive invariant holds in every reachable state.
LEMMA Invariance == Spec => []IInv
  BY InitIInv, IInvStep, PTL DEF Spec

\* Counters stay within their width and the history within its size
\* (AppendUplinkHistory, syncUplinkFCnt).
THEOREM TypeCorrect == Spec => []TypeOK
<1>1. IInv => TypeOK
  BY DEF IInv
<1> QED
  BY <1>1, Invariance, PTL

\* With the check enabled no frame is given to the AS twice, whatever is lost,
\* reordered or repeated (GetDeviceSessionForPHYPayload).
THEOREM NeverAcceptedTwice == Spec => []AcceptedOnce
<1>1. IInv => AcceptedOnce
  BY DEF IInv
<1> QED
  BY <1>1, Invariance, PTL

\* A new frame within the range of 16 bits is accepted, a repeated one is reported
\* as a retransmission, an older one is refused (GetDeviceSessionForPHYPayload).
THEOREM VerdictCorrect == Spec => []VerdictExact
<1>1. IInv => VerdictExact
  BY DEF IInv
<1> QED
  BY <1>1, Invariance, PTL

\* The uplink history is ordered and ends with the frame before the expected one,
\* also when the counter is reset (AppendUplinkHistory).
THEOREM HistoryOrdered == Spec => []HistoryIncreasing
<1>1. IInv => HistoryIncreasing
  BY DEF IInv
<1> QED
  BY <1>1, Invariance, PTL

-----------------------------------------------------------------------------
(* The packet-loss.  Induction over the history is by its first record that is *)
(* an exception.                                                               *)

\* A non-empty set of naturals has a smallest element.
LEMMA MinExists ==
  ASSUME NEW S \in SUBSET Nat, S # {}
  PROVE  \E x \in S : \A y \in S : x <= y
<1> DEFINE Less == {ss \in Nat \X Nat : ss[1] < ss[2]}
<1>1. IsWellFoundedOn(Less, Nat)
  BY NatLessThanWellFounded DEF OpToRel
<1> HIDE DEF Less
<1>2. PICK x \in S : \A y \in S : <<y, x>> \notin Less
  BY <1>1, WFMin
<1>3. ASSUME NEW y \in Nat, y < x PROVE <<y, x>> \in Less
  BY <1>3 DEF Less
<1>4. \A y \in S : ~(y < x)
  BY <1>2, <1>3
<1> QED
  BY <1>4

\* Counters that increase grow by at least one with every record.
LEMMA Apart ==
  ASSUME NEW h \in Seq(Counters), Increasing(h),
         NEW m \in 1 .. Len(h), NEW n \in 1 .. Len(h), m <= n
  PROVE  h[n] >= h[m] + (n - m)
<1> USE CounterWidths
<1> DEFINE Bad == {k \in 1 .. Len(h) : m <= k /\ ~(h[k] >= h[m] + (k - m))}
<1>1. \A k \in 1 .. Len(h) : h[k] \in Int
  BY DEF Counters
<1>2. SUFFICES ASSUME Bad # {} PROVE FALSE
  OBVIOUS
<1>3. Bad \in SUBSET Nat
  OBVIOUS
<1>4. PICK k \in Bad : \A y \in Bad : k <= y
  <2> HIDE DEF Bad
  <2> QED
    BY <1>2, <1>3, MinExists
<1>5. k # m
  BY <1>1
<1>6. k - 1 \in 1 .. Len(h) /\ m <= k - 1 /\ k - 1 \notin Bad
  BY <1>4, <1>5
<1>7. h[k - 1] >= h[m] + ((k - 1) - m)
  BY <1>6
<1>8. h[k - 1] < h[k]
  <2>1. k - 1 \in 1 .. Len(h) - 1 /\ (k - 1) + 1 = k
    BY <1>6
  <2> QED
    BY <2>1 DEF Increasing
<1> QED
  BY <1>1, <1>6, <1>7, <1>8

\* Ordered records: the sum of the gaps is the distance of the first and the last,
\* less the records in between, and never reaches the 32 bits it is computed with.
LEMMA LostClosed ==
  ASSUME NEW h \in Seq(Counters), Increasing(h), Len(h) = HistorySize
  PROVE  LostPackets(h) = h[HistorySize] - h[1] - (HistorySize - 1)
<1> DEFINE N == Len(h)
           E(f) == f = [i \in 1 .. N |->
                          IF i = 1 THEN 0 ELSE (f[i - 1] + (h[i] - h[i - 1] - 1)) % Top]
           lost == CHOOSE f : E(f)
           g == [i \in 1 .. N |-> h[i] - h[1] - (i - 1)]
<1>1. N \in Nat \ {0} /\ N = HistorySize /\ Top \in Nat \ {0}
  BY CounterWidths
<1>2. LostPackets(h) = lost[N]
  BY <1>1 DEF LostPackets
<1>3. ASSUME NEW i \in 1 .. N PROVE h[i] \in 0 .. Top - 1
  <2>1. h[i] \in Counters
    OBVIOUS
  <2> QED
    BY <1>1, <2>1 DEF Counters
<1>4. ASSUME NEW i \in 1 .. N PROVE g[i] \in 0 .. Top - 1
  <2>1. 1 \in 1 .. N /\ 1 <= i
    BY <1>1
  <2>2. h[i] >= h[1] + (i - 1)
    BY <2>1, Apart
  <2>3. h[1] \in 0 .. Top - 1 /\ h[i] \in 0 .. Top - 1
    BY <1>3, <2>1
  <2> QED
    BY <1>1, <2>2, <2>3
<1>5. ASSUME NEW i \in 1 .. N, i # 1
      PROVE  (g[i - 1] + (h[i] - h[i - 1] - 1)) % Top = g[i]
  <2>1. i \in Int /\ i - 1 \in 1 .. N /\ 1 \in 1 .. N
    BY <1>1, <1>5
  <2>2. h[i - 1] \in Int /\ h[i] \in Int /\ h[1] \in Int
    BY <1>1, <1>3, <2>1
  <2>3. g[i] = h[i] - h[1] - (i - 1) /\ g[i - 1] = h[i - 1] - h[1] - ((i - 1) - 1)
    BY <2>1
  <2>4. g[i - 1] + (h[i] - h[i - 1] - 1) = g[i]
    <3>1. ASSUME NEW a \in Int, NEW b \in Int, NEW c \in Int, NEW k \in Int
          PROVE  (b - c - ((k - 1) - 1)) + (a - b - 1) = a - c - (k - 1)
      OBVIOUS
    <3>2. (h[i - 1] - h[1] - ((i - 1) - 1)) + (h[i] - h[i - 1] - 1) = h[i] - h[1] - (i - 1)
      BY <2>1, <2>2, <3>1
    <3> HIDE DEF g, N
    <3> QED
      BY <2>3, <3>2, Zenon
  <2> QED
    BY <1>1, <1>4, <2>4, SmallRemainder, Zenon
<1>6. g[1] = 0
  BY <1>1, <1>3
<1>7. E(g)
  <2>1. ASSUME NEW i \in 1 .. N
        PROVE  g[i] = IF i = 1 THEN 0 ELSE (g[i - 1] + (h[i] - h[i - 1] - 1)) % Top
    BY <1>5, <1>6, Zenon
  <2>2. g = [i \in 1 .. N |-> g[i]]
    OBVIOUS
  <2> HIDE DEF g
  <2> QED
    BY <2>1, <2>2
<1>8. E(lost)
  BY <1>7, Zenon
<1>9. ASSUME NEW i \in 1 .. N
      PROVE  lost[i] = IF i = 1 THEN 0 ELSE (lost[i - 1] + (h[i] - h[i - 1] - 1)) % Top
  <2> HIDE DEF lost
  <2> QED
    BY <1>8
<1> HIDE DEF lost, g
<1>10. lost[N] = g[N]
  <2> DEFINE Bad == {i \in 1 .. N : lost[i] # g[i]}
  <2>1. SUFFICES ASSUME Bad # {} PROVE FALSE
    BY <1>1
  <2>2. Bad \in SUBSET Nat
    OBVIOUS
  <2>3. PICK i \in Bad : \A y \in Bad : i <= y
    <3> HIDE DEF Bad
    <3> QED
      BY <2>1, <2>2, MinExists
  <2>4. i # 1
    BY <1>1, <1>6, <1>9
  <2>5. i - 1 \in 1 .. N /\ lost[i - 1] = g[i - 1]
    BY <1>1, <2>3, <2>4
  <2> QED
    BY <1>5, <1>9, <2>3, <2>4, <2>5, Zenon
<1> QED
  BY <1>1, <1>2, <1>10 DEF g

\* The counters between the first and the last record that have none.
LEMMA MissingCounted ==
  ASSUME NEW h \in Seq(Counters), Increasing(h), Len(h) = HistorySize
  PROVE  Cardinality({c \in h[1] .. h[HistorySize] : \A i \in 1 .. HistorySize : h[i] # c})
           = h[HistorySize] - h[1] - (HistorySize - 1)
<1> DEFINE N == HistorySize
           I == h[1] .. h[N]
           R == {h[i] : i \in 1 .. N}
           M == {c \in I : \A i \in 1 .. N : h[i] # c}
<1>1. N \in Nat \ {0} /\ N = Len(h) /\ 1 \in 1 .. N /\ N \in 1 .. N
  BY CounterWidths
<1>2. ASSUME NEW i \in 1 .. N PROVE h[i] \in Nat
  <2>1. h[i] \in Counters
    BY <1>1
  <2> QED
    BY <2>1, CounterWidths DEF Counters
<1>3. h[1] \in Int /\ h[N] \in Int /\ h[N] >= h[1] + (N - 1)
  BY <1>1, <1>2, Apart
<1>4. IsFiniteSet(I) /\ Cardinality(I) = h[N] - h[1] + 1
  BY <1>1, <1>3, FS_Interval
<1>5. IsFiniteSet(R) /\ Cardinality(R) = N
  <2> DEFINE f == [i \in 1 .. N |-> h[i]]
  <2>1. f \in Bijection(1 .. N, R)
    <3>1. ASSUME NEW i \in 1 .. N, NEW j \in 1 .. N, i < j PROVE h[i] # h[j]
      <4>1. h[j] >= h[i] + (j - i)
        BY <1>1, <3>1, Apart
      <4> QED
        BY <1>2, <3>1, <4>1
    <3>2. ASSUME NEW i \in 1 .. N, NEW j \in 1 .. N, h[i] = h[j] PROVE i = j
      BY <3>1, <3>2
    <3>3. f \in [1 .. N -> R] /\ \A i \in 1 .. N : f[i] = h[i]
      OBVIOUS
    <3>4. ASSUME NEW r \in R PROVE \E i \in 1 .. N : f[i] = r
      OBVIOUS
    <3> HIDE DEF f, R
    <3>5. f \in Injection(1 .. N, R)
      <4>1. \A i, j \in 1 .. N : f[i] = f[j] => i = j
        BY <3>2, <3>3
      <4> QED
        BY <3>3, <4>1 DEF Injection, IsInjective
    <3>6. f \in Surjection(1 .. N, R)
      BY <3>3, <3>4 DEF Surjection
    <3> QED
      BY <3>5, <3>6 DEF Bijection
  <2>2. IsFiniteSet(1 .. N) /\ Cardinality(1 .. N) = N
    BY <1>1, FS_Interval
  <2> HIDE DEF f, R
  <2>3. ExistsBijection(1 .. N, R)
    BY <2>1 DEF ExistsBijection
  <2> QED
    BY <2>2, <2>3, FS_Bijection
<1>6. R \subseteq I
  <2>1. ASSUME NEW i \in 1 .. N PROVE h[i] \in I
    <3>1. h[i] >= h[1] + (i - 1)
      BY <1>1, Apart
    <3>2. h[N] >= h[i] + (N - i)
      BY <1>1, Apart
    <3> QED
      BY <1>1, <1>2, <1>3, <3>1, <3>2
  <2> QED
    BY <2>1
<1>7. M = I \ R
  OBVIOUS
<1>8. Cardinality(I \ R) = Cardinality(I) - Cardinality(I \cap R)
  <2> HIDE DEF I, R
  <2> QED
    BY <1>4, FS_Difference
<1>9. I \cap R = R
  BY <1>6
<1> HIDE DEF I, R, M
<1>10. Cardinality(M) = (h[N] - h[1] + 1) - N
  BY <1>4, <1>5, <1>7, <1>8, <1>9
<1> QED
  BY <1>1, <1>3, <1>10 DEF M, I

\* The packet-loss is the number of counters the history misses
\* (GetPacketLossPercentage), whatever was lost, reordered, repeated or reset.
THEOREM LossCounted == Spec => []LossExact
<1>1. IInv => LossExact
  <2>1. SUFFICES ASSUME IInv, Len(history) = HistorySize
                 PROVE  LostPackets(history) =
                          Cardinality({c \in history[1] .. history[HistorySize] :
                                         \A i \in 1 .. HistorySize : history[i] # c})
    BY DEF LossExact
  <2>2. history \in Seq(Counters) /\ Increasing(history)
    BY <2>1 DEF IInv, TypeOK, HistoryIncreasing, Increasing
  <2> QED
    BY <2>1, <2>2, LostClosed, MissingCounted
<1> QED
  BY <1>1, Invariance, PTL
=============================================================================
