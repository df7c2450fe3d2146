-------------------------- MODULE MulticastProofs ---------------------------
(***************************************************************************)
(* Proofs about Multicast, for any number of groups, devices, gateways,    *)
(* clients and schedulers.                                                 *)
(*                                                                         *)
(* An enqueue is safe because it holds the row of its group from the check *)
(* of the counter to the commit (LockInv), and a batch because its rows    *)
(* are locked by one scheduler only (BatchInv).                            *)
(***************************************************************************)
EXTENDS Multicast, FiniteSetTheorems, TLAPS

\* The calls of the API and what their transactions have read.
CallOK(q) ==
    /\ q.op \in {"none", "flush", "enqueue"}
    /\ q.op = "flush" => q.rows \subseteq MulticastQueueItem
    /\ q.op = "enqueue" =>
           /\ q.g \in Groups
           /\ q.fCnt \in 0 .. FCntSize - 1
           /\ q.pl \in Payloads
           /\ q.fPort \in FPorts
           /\ q.mg \in MulticastGroup

\* The types of the variables.
Typed ==
    /\ now \in Nat
    /\ group \in [Groups -> MulticastGroup \cup {None}]
    /\ members \in [Groups -> SUBSET Devices]
    /\ queue \subseteq MulticastQueueItem
    /\ nextId \in 1 .. MaxId + 1
    /\ rxInfo \in [Devices -> Receptions]
    /\ rowLock \in [Groups -> Clients \cup {None}]
    /\ call = [c \in Clients |-> call[c]]
    /\ \A c \in Clients : CallOK(call[c])
    /\ batch \in [Schedulers -> Seq(MulticastQueueItem)]
    /\ locked \in [Schedulers -> SUBSET (1 .. MaxId)]
    /\ discarded \in [Schedulers -> SUBSET (1 .. MaxId)]
    /\ sent \subseteq Transmission
    /\ flushed \subseteq MulticastQueueItem
    /\ setBack \subseteq Groups
    /\ faults \in 0 .. MaxFaults
    /\ changes \in 0 .. MaxChanges

\* Ids are used once.
Fresh ==
    /\ \A r \in Messages : r.id < nextId
    /\ \A r \in flushed : r.id < nextId
    /\ \A r, o \in Messages \cup flushed : r.id = o.id => r = o
    /\ \A s \in Schedulers : \A i \in locked[s] : i < nextId

\* An enqueue holds the row of its group and what it has read of it is true.
LockInv ==
    /\ \A g \in Groups : rowLock[g] # None =>
           call[rowLock[g]].op = "enqueue" /\ call[rowLock[g]].g = g
    /\ \A c \in Clients : call[c].op = "enqueue" =>
           /\ rowLock[call[c].g] = c
           /\ group[call[c].g] = call[c].mg
           /\ call[c].mg.fCnt <= call[c].fCnt

\* A flush deletes rows it was asked to delete.
FlushInv ==
    \A c \in Clients : call[c].op = "flush" => call[c].rows \subseteq flushed

\* Rows belong to a group, and are locked by one scheduler at most, which
\* deletes only large ones.
BatchInv ==
    /\ \A r \in queue : group[r.g] # None
    /\ \A s \in Schedulers :
           /\ Range(batch[s]) \subseteq queue
           /\ Ids(Range(batch[s])) \subseteq locked[s]
           /\ discarded[s] \subseteq locked[s]
           /\ \A r \in queue : r.id \in discarded[s] => r.pl \in Large
    /\ \A s, t \in Schedulers : s # t => locked[s] \cap locked[t] = {}

\* The counter of a group is above those of its messages.
CounterInv ==
    /\ \A m \in Messages : m.g \notin setBack =>
           group[m.g] # None /\ m.fCnt < group[m.g].fCnt
    /\ CounterFresh

\* The inductive invariant
IInv == Typed /\ Fresh /\ LockInv /\ FlushInv /\ BatchInv /\ CounterInv /\ RowsSpaced

-----------------------------------------------------------------------------
(* Minima and maxima of sets of naturals.  Induction is by the minimal     *)
(* counterexample of a well-founded relation.                              *)

\* A non-empty set of naturals has a smallest element.
LEMMA MinExists ==
    ASSUME NEW S \in SUBSET Nat, S # {}
    PROVE  \E x \in S : \A y \in S : x <= y
<1> DEFINE Less == {ss \in Nat \X Nat : ss[1] < ss[2]}
<1>1. IsWellFoundedOn(Less, Nat)
  BY NatLessThanWellFounded DEF OpToRel
<1> HIDE DEF Less
<1>2. PICK x \in S : \A y \in S : <<y, x>> \notin Less
  BY <1>1, WFMin
<1>3. ASSUME NEW y \in Nat, y < x PROVE <<y, x>> \in Less
  BY <1>3 DEF Less
<1>4. \A y \in S : ~(y < x)
  BY <1>2, <1>3
<1> QED
  BY <1>4

\* Min is that element.
LEMMA MinOK ==
    ASSUME NEW S \in SUBSET Nat, S # {}
    PROVE  Min(S) \in S /\ \A y \in S : Min(S) <= y
BY MinExists DEF Min

\* A finite non-empty set of naturals has a largest element.
LEMMA MaxExists ==
    ASSUME NEW S \in SUBSET Nat, IsFiniteSet(S), S # {}
    PROVE  \E x \in S : \A y \in S : x >= y
<1> DEFINE Bad == {T \in FiniteSubsetsOf(Nat) : T # {} /\ ~\E x \in T : \A y \in T : x >= y}
<1>1. SUFFICES ASSUME S \in Bad PROVE FALSE
  BY DEF FiniteSubsetsOf
<1>2. PICK T \in Bad : \A U \in Bad : <<U, T>> \notin StrictSubsetOrdering(Nat)
  <2>1. IsWellFoundedOn(StrictSubsetOrdering(Nat), FiniteSubsetsOf(Nat))
    BY FS_StrictSubsetOrderingWellFounded
  <2>2. Bad \subseteq FiniteSubsetsOf(Nat) /\ Bad # {}
    BY <1>1
  <2> QED
    BY <2>1, <2>2, WFMin
<1>3. PICK x \in T : TRUE
  BY DEF FiniteSubsetsOf
<1> DEFINE U == T \ {x}
<1>4. U \in FiniteSubsetsOf(Nat) /\ <<U, T>> \in StrictSubsetOrdering(Nat)
  BY <1>3, FS_RemoveElement DEF FiniteSubsetsOf, StrictSubsetOrdering
<1>5. U \notin Bad
  BY <1>2, <1>4
<1>6. CASE U = {}
  BY <1>3, <1>6 DEF FiniteSubsetsOf
<1>7. CASE U # {}
  <2>1. PICK m \in U : \A y \in U : m >= y
    BY <1>4, <1>5, <1>7
  <2> QED
    BY <1>3, <2>1 DEF FiniteSubsetsOf
<1> QED
  BY <1>6, <1>7

\* Max is that element.
LEMMA MaxOK ==
    ASSUME NEW S \in SUBSET Nat, IsFiniteSet(S), S # {}
    PROVE  Max(S) \in S /\ \A y \in S : Max(S) >= y
BY MaxExists DEF Max

-----------------------------------------------------------------------------
(* Ping-slots *)

\* The k-th ping-slot of a beacon period, as an offset to its start
LEMMA PingOffsetOK ==
    ASSUME NEW b \in Nat, NEW pingNb \in 1 .. PingPeriodBase
    PROVE  GetPingOffset(b, pingNb) \in Nat /\ PingPeriodBase \div pingNb \in Nat
<1> USE ConstantTypes
<1>1. PingPeriodBase \div pingNb \in Nat \ {0}
  OBVIOUS
<1>2. BeaconPeriod \in Nat \ {0}
  OBVIOUS
<1>3. Len(PingRand) \in Nat \ {0}
  OBVIOUS
<1>4. b \div BeaconPeriod \in Nat
  BY <1>2
<1>5. ((b \div BeaconPeriod) % Len(PingRand)) + 1 \in 1 .. Len(PingRand)
  BY <1>3, <1>4
<1>6. PingRand[((b \div BeaconPeriod) % Len(PingRand)) + 1] \in Nat
  BY <1>5
<1> QED
  BY <1>1, <1>6 DEF GetPingOffset

\* GetNextPingSlotAfter finds a slot, and it is after the given time.
LEMMA NextPingSlotOK ==
    ASSUME NEW after \in Nat, NEW pingNb \in 1 .. PingPeriodBase
    PROVE  /\ GetNextPingSlotAfter(after, pingNb) \in Nat
           /\ GetNextPingSlotAfter(after, pingNb) > after
<1> USE ConstantTypes
<1> DEFINE start == after - (after % BeaconPeriod)
           period == PingPeriodBase \div pingNb
           slots == {b + BeaconReserved + GetPingOffset(b, pingNb) + n * period :
                         b \in {start, start + BeaconPeriod}, n \in 0 .. pingNb - 1}
           later == {t \in slots : t > after}
<1>1. BeaconPeriod \in Nat \ {0}
  OBVIOUS
<1>2. after % BeaconPeriod \in 0 .. BeaconPeriod - 1 /\ after % BeaconPeriod <= after
  BY <1>1
<1>3. start \in Nat /\ start + BeaconPeriod > after /\ start + BeaconPeriod \in Nat
  BY <1>1, <1>2
<1>4. period \in Nat
  BY PingOffsetOK, <1>3
<1> HIDE DEF start, period
<1>5. \A n \in 0 .. pingNb - 1 : n * period \in Nat
  BY <1>4
<1>6. slots \in SUBSET Nat
  <2>1. ASSUME NEW b \in {start, start + BeaconPeriod}, NEW n \in 0 .. pingNb - 1
        PROVE  b + BeaconReserved + GetPingOffset(b, pingNb) + n * period \in Nat
    <3>1. b \in Nat
      BY <1>3
    <3>2. GetPingOffset(b, pingNb) \in Nat /\ n * period \in Nat
      BY <1>5, <3>1, PingOffsetOK
    <3> QED
      BY <3>1, <3>2
  <2> QED
    BY <2>1
<1>7. start + BeaconPeriod + BeaconReserved + GetPingOffset(start + BeaconPeriod, pingNb) + 0 * period
          \in later
  <2>1. GetPingOffset(start + BeaconPeriod, pingNb) \in Nat
    BY <1>3, PingOffsetOK
  <2>2. 0 * period = 0 /\ 0 \in 0 .. pingNb - 1
    BY <1>4
  <2> QED
    BY <1>3, <2>1, <2>2
<1> HIDE DEF slots
<1>8. Min(later) \in later
  BY <1>6, <1>7, MinOK
<1>9. GetNextPingSlotAfter(after, pingNb) = Min(later)
  BY DEF GetNextPingSlotAfter, slots, start, period
<1> QED
  BY <1>6, <1>8, <1>9

\* Slots one after the other, for n gateways
IsSlots(f, start, pingNb, n) ==
    /\ f \in [0 .. n -> Nat]
    /\ f[0] = start
    /\ \A i \in 1 .. n : f[i] = GetNextPingSlotAfter(f[i - 1], pingNb)

\* There are such slots: the recursion of PingSlots has a solution.
LEMMA SlotsExist ==
    ASSUME NEW start \in Nat, NEW pingNb \in 1 .. PingPeriodBase, NEW n \in Nat
    PROVE  \E f : IsSlots(f, start, pingNb, n)
<1> DEFINE Bad == {k \in Nat : ~\E f : IsSlots(f, start, pingNb, k)}
<1>1. SUFFICES ASSUME Bad # {} PROVE FALSE
  OBVIOUS
<1>2. PICK k \in Bad : \A j \in Bad : k <= j
  BY <1>1, MinExists
<1>3. IsSlots([i \in 0 .. 0 |-> start], start, pingNb, 0)
  BY DEF IsSlots
<1>4. k # 0
  BY <1>2, <1>3
<1>5. PICK f : IsSlots(f, start, pingNb, k - 1)
  BY <1>2, <1>4
<1> DEFINE g == [i \in 0 .. k |-> IF i = k THEN GetNextPingSlotAfter(f[k - 1], pingNb) ELSE f[i]]
<1>6. f[k - 1] \in Nat /\ \A i \in 0 .. k - 1 : f[i] \in Nat
  BY <1>2, <1>4, <1>5 DEF IsSlots
<1>7. GetNextPingSlotAfter(f[k - 1], pingNb) \in Nat
  BY <1>6, NextPingSlotOK
<1>8. IsSlots(g, start, pingNb, k)
  <2>1. g \in [0 .. k -> Nat]
    BY <1>2, <1>4, <1>6, <1>7
  <2>2. g[0] = start
    BY <1>2, <1>4, <1>5 DEF IsSlots
  <2>3. ASSUME NEW i \in 1 .. k PROVE g[i] = GetNextPingSlotAfter(g[i - 1], pingNb)
    <3>1. g[i - 1] = f[i - 1]
      BY <1>2
    <3>2. i # k => g[i] = f[i] /\ i \in 1 .. k - 1
      BY <1>2
    <3> QED
      BY <1>5, <3>1, <3>2 DEF IsSlots
  <2> QED
    BY <2>1, <2>2, <2>3 DEF IsSlots
<1> QED
  BY <1>2, <1>8

\* The recursive function of PingSlots: strictly increasing from ClassBStart on.
LEMMA PingSlotsOK ==
    ASSUME NEW g, NEW pingNb \in 1 .. PingPeriodBase, NEW n \in Nat, ClassBStart(g) \in Nat
    PROVE  /\ PingSlots(g, pingNb, n) \in [0 .. n -> Nat]
           /\ PingSlots(g, pingNb, n)[0] = ClassBStart(g)
           /\ \A i, j \in 0 .. n : i < j =>
                  PingSlots(g, pingNb, n)[i] < PingSlots(g, pingNb, n)[j]
<1> DEFINE start == ClassBStart(g)
           slot == PingSlots(g, pingNb, n)
           D(f) == [i \in 0 .. n |-> IF i = 0 THEN start ELSE GetNextPingSlotAfter(f[i - 1], pingNb)]
<1>1. slot = CHOOSE f : f = D(f)
  BY DEF PingSlots
<1>2. \E f : f = D(f)
  <2>1. PICK f : IsSlots(f, start, pingNb, n)
    BY SlotsExist
  <2>2. DOMAIN f = 0 .. n /\ f = [i \in 0 .. n |-> f[i]]
    BY <2>1 DEF IsSlots
  <2>3. \A i \in 0 .. n : f[i] = IF i = 0 THEN start ELSE GetNextPingSlotAfter(f[i - 1], pingNb)
    BY <2>1 DEF IsSlots
  <2> QED
    BY <2>2, <2>3
<1>3. slot = D(slot)
  BY <1>1, <1>2
<1> HIDE DEF slot, start
<1>4. slot[0] = start /\ \A i \in 1 .. n : slot[i] = GetNextPingSlotAfter(slot[i - 1], pingNb)
  BY <1>3
<1>5. \A i \in 0 .. n : slot[i] \in Nat
  <2> DEFINE Bad == {i \in 0 .. n : slot[i] \notin Nat}
  <2>1. SUFFICES ASSUME Bad # {} PROVE FALSE
    OBVIOUS
  <2>2. PICK k \in Bad : \A j \in Bad : k <= j
    <3>1. Bad \in SUBSET Nat
      OBVIOUS
    <3> QED
      BY <2>1, <3>1, MinExists
  <2>3. k # 0
    BY <1>4, <2>2 DEF start
  <2>4. slot[k - 1] \in Nat
    BY <2>2, <2>3
  <2> QED
    BY <1>4, <2>2, <2>3, <2>4, NextPingSlotOK
<1>6. \A i \in 1 .. n : slot[i - 1] < slot[i]
  BY <1>4, <1>5, NextPingSlotOK
<1>7. \A i, j \in 0 .. n : i < j => slot[i] < slot[j]
  <2> DEFINE Bad == {j \in 0 .. n : \E i \in 0 .. j - 1 : ~(slot[i] < slot[j])}
  <2>1. SUFFICES ASSUME Bad # {} PROVE FALSE
    OBVIOUS
  <2>2. PICK k \in Bad : \A j \in Bad : k <= j
    <3>1. Bad \in SUBSET Nat
      OBVIOUS
    <3> QED
      BY <2>1, <3>1, MinExists
  <2>3. PICK i \in 0 .. k - 1 : ~(slot[i] < slot[k])
    BY <2>2
  <2>4. slot[k - 1] < slot[k] /\ k - 1 \in 0 .. n
    BY <1>6, <2>2, <2>3
  <2>5. i # k - 1 => slot[i] < slot[k - 1]
    BY <2>2, <2>3, <2>4
  <2> QED
    BY <1>5, <2>2, <2>3, <2>4, <2>5
<1>8. slot \in [0 .. n -> Nat]
  BY <1>3, <1>5
<1> QED
  BY <1>4, <1>7, <1>8 DEF slot, start

-----------------------------------------------------------------------------
(* Gateways *)

\* A sequence of SetToSeqs has every element once.
LEMMA SeqsOK ==
    ASSUME NEW W, IsFiniteSet(W), NEW ws \in SetToSeqs(W)
    PROVE  /\ Cardinality(W) \in Nat
           /\ ws \in [1 .. Cardinality(W) -> W]
           /\ ws \in Seq(W)
           /\ Len(ws) = Cardinality(W)
           /\ \A i, j \in 1 .. Cardinality(W) : i # j => ws[i] # ws[j]
           /\ \A w \in W : \E i \in 1 .. Cardinality(W) : ws[i] = w
<1> DEFINE n == Cardinality(W)
<1>1. n \in Nat
  BY FS_CardinalityType
<1>2. ws \in [1 .. n -> W] /\ \A i, j \in 1 .. n : i # j => ws[i] # ws[j]
  BY DEF SetToSeqs
<1> HIDE DEF n
<1>3. ws \in Seq(W) /\ Len(ws) = n
  BY <1>1, <1>2
<1>4. ws \in Injection(1 .. n, W)
  BY <1>2 DEF Injection, IsInjective
<1>5. Cardinality(1 .. n) = n
  BY <1>1, FS_Interval
<1>6. ws \in Surjection(1 .. n, W)
  BY <1>4, <1>5, FS_Injection DEF n
<1>7. \A w \in W : \E i \in 1 .. n : ws[i] = w
  BY <1>6 DEF Surjection
<1> QED
  BY <1>1, <1>2, <1>3, <1>7 DEF n

\* GetMinimumGatewaySet reaches every device, over an edge it has.
LEMMA GatewaysOK ==
    ASSUME NEW rxs, \A d \in DOMAIN rxs : rxs[d] \in RXInfo /\ DOMAIN rxs[d] # {},
           NEW W \in GetMinimumGatewaySet(rxs)
    PROVE  /\ W \subseteq Gateways
           /\ IsFiniteSet(W)
           /\ \A d \in DOMAIN rxs : \E w \in W : w \in DeviceEdges(rxs[d])
<1> DEFINE gwSet == UNION {DOMAIN rxs[d] : d \in DOMAIN rxs}
           Cheapest(centre, d) ==
            {w \in DeviceEdges(rxs[d]) : \A v \in DeviceEdges(rxs[d]) :
                Degree(rxs, gwSet, centre, w) >= Degree(rxs, gwSet, centre, v)}
           Trees(centre) ==
            {t \in [DOMAIN rxs -> gwSet] : \A d \in DOMAIN rxs : t[d] \in Cheapest(centre, d)}
<1>1. gwSet \subseteq Gateways
  BY DEF RXInfo
<1>2. CASE gwSet = {}
  <2>1. W = {}
    BY <1>2 DEF GetMinimumGatewaySet
  <2>2. DOMAIN rxs = {}
    BY <1>2
  <2> QED
    BY <2>1, <2>2, FS_EmptySet
<1>3. CASE gwSet # {}
  <2>1. W \in UNION {{Range(t) : t \in Trees(centre)} : centre \in gwSet}
    BY <1>3 DEF GetMinimumGatewaySet
  <2>2. PICK centre \in gwSet : W \in {Range(t) : t \in Trees(centre)}
    BY <2>1
  <2>3. PICK t \in Trees(centre) : W = Range(t)
    BY <2>2
  <2>4. t \in [DOMAIN rxs -> gwSet] /\ \A d \in DOMAIN rxs : t[d] \in DeviceEdges(rxs[d])
    BY <2>3
  <2>5. W \subseteq Gateways
    BY <1>1, <2>3, <2>4 DEF Range
  <2>6. \A d \in DOMAIN rxs : t[d] \in W
    BY <2>3, <2>4 DEF Range
  <2> QED
    BY <2>4, <2>5, <2>6, ConstantTypes, FS_Subset
<1> QED
  BY <1>2, <1>3

-----------------------------------------------------------------------------
(* The times of the rows *)

\* The assumptions on the constants that are used most
LEMMA Constants ==
    /\ MaxId \in Nat /\ MaxFaults \in Nat /\ MaxChanges \in Nat
    /\ Delay \in Nat \ {0} /\ Margin \in Nat /\ Lead \in Nat
    /\ FCntSize \in Nat \ {0} /\ FCntMax \in 0 .. FCntSize - 1
    /\ BatchSize \in Nat \ {0} /\ PingPeriodBase \in Nat \ {0}
    /\ None \notin Nat /\ None \notin Clients /\ None \notin MulticastGroup
    /\ Settings \subseteq MulticastGroup /\ Receptions \subseteq RXInfo
    /\ Large \subseteq Payloads /\ FPorts \subseteq Nat
BY ConstantTypes

\* The queue is finite, as its ids are bounded and used once.
LEMMA QueueFinite ==
    ASSUME Typed, Fresh
    PROVE  IsFiniteSet(queue) /\ Cardinality(Ids(queue)) = Cardinality(queue)
<1> DEFINE f == [r \in queue |-> r.id]
<1>1. f \in Bijection(queue, Ids(queue))
  BY DEF Typed, Fresh, Messages, Ids, Bijection, Injection, Surjection, IsInjective
<1>2. Ids(queue) \subseteq 1 .. MaxId
  BY DEF Typed, Ids, MulticastQueueItem
<1>3. IsFiniteSet(Ids(queue))
  <2>1. IsFiniteSet(1 .. MaxId)
    BY Constants, FS_Interval
  <2> QED
    BY <1>2, <2>1, FS_Subset
<1>4. IsFiniteSet(queue)
  BY <1>1, <1>3, FS_Injection DEF Bijection
<1> QED
  BY <1>1, <1>4, FS_Bijection DEF ExistsBijection

\* Class-C rows start a delay after every row of the group.
LEMMA ClassCStartOK ==
    ASSUME Typed, Fresh, NEW g
    PROVE  ClassCStart(g) \in Nat /\ \A r \in Items(g) : r.at + Delay <= ClassCStart(g)
<1> DEFINE S == {r.at : r \in Items(g)}
           f == [r \in Items(g) |-> r.at]
<1>1. Items(g) \in SUBSET queue /\ S \in SUBSET Nat
  BY DEF Items, Typed, MulticastQueueItem
<1>2. IsFiniteSet(S)
  <2>1. IsFiniteSet(Items(g))
    BY <1>1, QueueFinite, FS_Subset
  <2>2. f \in Surjection(Items(g), S)
    BY DEF Surjection
  <2> QED
    BY <2>1, <2>2, FS_Surjection
<1>3. CASE Items(g) = {}
  BY <1>3 DEF ClassCStart, Typed
<1>4. CASE Items(g) # {}
  <2>1. S # {}
    BY <1>4
  <2>2. Max(S) \in Nat /\ \A y \in S : Max(S) >= y
    BY <1>1, <1>2, <2>1, MaxOK
  <2>3. ClassCStart(g) = Max(S) + Delay
    BY <1>4 DEF ClassCStart
  <2> QED
    <3>1. ASSUME NEW r \in Items(g) PROVE r.at \in Nat /\ Max(S) >= r.at
      BY <1>1, <2>2
    <3> HIDE DEF S
    <3> QED
      BY <2>2, <2>3, <3>1, Constants
<1> QED
  BY <1>3, <1>4

\* Class-B rows come after the last emission of the group.
LEMMA ClassBStartOK ==
    ASSUME Typed, Fresh, NEW g
    PROVE  /\ ClassBStart(g) \in Nat
           /\ \A r \in Items(g) : r.emit # None => r.emit <= ClassBStart(g)
<1> DEFINE E == {r.emit : r \in Items(g)}
           S == E \ {None}
           f == [r \in Items(g) |-> r.emit]
<1>1. Items(g) \in SUBSET queue /\ S \in SUBSET Nat
  BY DEF Items, Typed, MulticastQueueItem
<1>2. IsFiniteSet(S)
  <2>1. IsFiniteSet(Items(g))
    BY <1>1, QueueFinite, FS_Subset
  <2>2. f \in Surjection(Items(g), E)
    BY DEF Surjection
  <2> QED
    BY <2>1, <2>2, FS_Surjection, FS_Subset
<1>3. CASE S = {}
  <2>1. ClassBStart(g) = now + Margin
    BY <1>3 DEF ClassBStart
  <2>2. \A r \in Items(g) : r.emit = None
    BY <1>3
  <2> QED
    BY <2>1, <2>2, Constants DEF Typed
<1>4. CASE S # {}
  <2>1. Max(S) \in Nat /\ \A y \in S : Max(S) >= y
    BY <1>1, <1>2, <1>4, MaxOK
  <2>2. ClassBStart(g) = Max(S)
    BY <1>4 DEF ClassBStart
  <2> QED
    BY <1>1, <2>1, <2>2
<1> QED
  BY <1>3, <1>4

\* Two transmissions do not collide: the later one is a delay, or a ping-slot,
\* after the earlier one.
Apart(at1, emit1, at2, emit2) ==
    /\ (emit1 = None /\ emit2 = None) => at1 + Delay <= at2
    /\ (emit1 # None /\ emit2 # None) => emit1 < emit2

\* The times of the n rows of a message, apart from each other and from the queue
IsSchedule(q, ws, n, at, emit) ==
    /\ at \in [1 .. n -> Nat]
    /\ emit \in [1 .. n -> Nat \cup {None}]
    /\ QueueItems(q, ws) = {Row(q, ws, i, at[i], emit[i]) : i \in 1 .. n}
    /\ \A i, j \in 1 .. n : i < j => Apart(at[i], emit[i], at[j], emit[j])
    /\ \A r \in Items(q.g), i \in 1 .. n : Apart(r.at, r.emit, at[i], emit[i])

\* The rows of a Class-C message are such a schedule.
LEMMA ClassCSchedule ==
    ASSUME Typed, Fresh, NEW q, CallOK(q), q.op = "enqueue", q.mg.groupType = "C",
           NEW ws, NEW n \in Nat, Len(ws) = n
    PROVE  \E at, emit : IsSchedule(q, ws, n, at, emit)
<1> DEFINE start == ClassCStart(q.g)
           at == [i \in 1 .. n |-> start + (i - 1) * Delay]
           emit == [i \in 1 .. n |-> None]
<1>1. start \in Nat /\ \A r \in Items(q.g) : r.at + Delay <= start
  BY ClassCStartOK
<1>2. \A i \in 1 .. n : (i - 1) * Delay \in Nat
  BY Constants
<1>3. \A i, j \in 1 .. n : i < j => (i - 1) * Delay + Delay <= (j - 1) * Delay
  <2> TAKE i, j \in 1 .. n
  <2> HAVE i < j
  <2>1. (i - 1) * Delay + Delay = i * Delay
    BY Constants
  <2>2. i <= j - 1 /\ i \in Nat /\ j - 1 \in Nat
    OBVIOUS
  <2>3. i * Delay <= (j - 1) * Delay
    BY <2>2, Constants
  <2> QED
    BY <2>1, <2>3
<1>4. QueueItems(q, ws) = {Row(q, ws, i, start + (i - 1) * Delay, None) : i \in 1 .. n}
  BY DEF QueueItems
<1> HIDE DEF start
<1>5. QueueItems(q, ws) = {Row(q, ws, i, at[i], emit[i]) : i \in 1 .. n}
  BY <1>4
<1>6. at \in [1 .. n -> Nat] /\ emit \in [1 .. n -> Nat \cup {None}]
  BY <1>1, <1>2
<1>7. \A i, j \in 1 .. n : i < j => Apart(at[i], emit[i], at[j], emit[j])
  <2> TAKE i, j \in 1 .. n
  <2> HAVE i < j
  <2>1. at[i] = start + (i - 1) * Delay /\ at[j] = start + (j - 1) * Delay
    OBVIOUS
  <2>2. (i - 1) * Delay \in Nat /\ (j - 1) * Delay \in Nat
    BY <1>2
  <2>3. at[i] + Delay <= at[j]
    BY <1>1, <1>3, <2>1, <2>2, Constants
  <2> QED
    BY <2>3 DEF Apart
<1>8. \A r \in Items(q.g), i \in 1 .. n : Apart(r.at, r.emit, at[i], emit[i])
  <2> TAKE r \in Items(q.g), i \in 1 .. n
  <2>1. r.at \in Nat
    BY DEF Items, Typed, MulticastQueueItem
  <2>2. at[i] = start + (i - 1) * Delay /\ (i - 1) * Delay \in Nat
    BY <1>2
  <2>3. r.at + Delay <= at[i]
    BY <1>1, <2>1, <2>2, Constants
  <2> QED
    BY <2>3 DEF Apart
<1> QED
  BY <1>5, <1>6, <1>7, <1>8 DEF IsSchedule

\* The rows of a Class-B message are such a schedule.
LEMMA ClassBSchedule ==
    ASSUME Typed, Fresh, NEW q, CallOK(q), q.op = "enqueue", q.mg.groupType = "B",
           q.mg.pingSlotPeriod # 0, NEW ws, NEW n \in Nat, Len(ws) = n
    PROVE  \E at, emit : IsSchedule(q, ws, n, at, emit)
<1> DEFINE pingNb == PingPeriodBase \div q.mg.pingSlotPeriod
           slot == PingSlots(q.g, pingNb, n)
           at == [i \in 1 .. n |-> IF slot[i] > Lead THEN slot[i] - Lead ELSE 0]
           emit == [i \in 1 .. n |-> slot[i]]
<1>1. q.mg.pingSlotPeriod \in 1 .. PingPeriodBase
  BY Constants DEF CallOK, MulticastGroup
<1>2. pingNb \in 1 .. PingPeriodBase
  BY <1>1, Constants
<1> HIDE DEF pingNb
<1>3. ClassBStart(q.g) \in Nat /\ \A r \in Items(q.g) : r.emit # None => r.emit <= ClassBStart(q.g)
  BY ClassBStartOK
<1>4. /\ slot \in [0 .. n -> Nat]
      /\ slot[0] = ClassBStart(q.g)
      /\ \A i, j \in 0 .. n : i < j => slot[i] < slot[j]
  BY <1>2, <1>3, PingSlotsOK
<1>5. QueueItems(q, ws) = {Row(q, ws, i, IF slot[i] > Lead THEN slot[i] - Lead ELSE 0, slot[i]) :
                               i \in 1 .. n}
  BY DEF QueueItems, pingNb
<1> HIDE DEF slot
<1>6. QueueItems(q, ws) = {Row(q, ws, i, at[i], emit[i]) : i \in 1 .. n}
  BY <1>5
<1>7. \A i \in 1 .. n : slot[i] \in Nat
  BY <1>4
<1>8. at \in [1 .. n -> Nat] /\ emit \in [1 .. n -> Nat \cup {None}]
  BY <1>7, Constants
<1>9. \A i, j \in 1 .. n : i < j => Apart(at[i], emit[i], at[j], emit[j])
  <2> TAKE i, j \in 1 .. n
  <2> HAVE i < j
  <2>1. emit[i] < emit[j] /\ emit[i] # None
    BY <1>4, <1>7, Constants
  <2> QED
    BY <2>1 DEF Apart
<1>10. \A r \in Items(q.g), i \in 1 .. n : Apart(r.at, r.emit, at[i], emit[i])
  <2> TAKE r \in Items(q.g), i \in 1 .. n
  <2>1. emit[i] # None /\ emit[i] = slot[i]
    BY <1>7, Constants
  <2>2. slot[0] < slot[i] /\ slot[i] \in Nat
    BY <1>4
  <2>3. r.emit \in Nat \cup {None}
    BY DEF Items, Typed, MulticastQueueItem
  <2>4. r.emit # None => r.emit < emit[i]
    BY <1>3, <1>4, <2>1, <2>2, <2>3
  <2> QED
    BY <2>1, <2>4 DEF Apart
<1> QED
  BY <1>6, <1>8, <1>9, <1>10 DEF IsSchedule

\* What an enqueue inserts: a row for each gateway, with new ids, apart from each
\* other and from the rows that are there.
LEMMA QueueItemsOK ==
    ASSUME Typed, Fresh, NEW q, CallOK(q), q.op = "enqueue", ~InsertFails(q),
           NEW W, W \subseteq Gateways, IsFiniteSet(W), nextId + Cardinality(W) <= MaxId + 1,
           NEW ws \in SetToSeqs(W)
    PROVE  /\ QueueItems(q, ws) \subseteq MulticastQueueItem
           /\ \A r \in QueueItems(q, ws) :
                  /\ r.g = q.g /\ r.fCnt = q.fCnt /\ r.pl = q.pl
                  /\ r.id >= nextId /\ r.id < nextId + Cardinality(W)
           /\ \A r, o \in QueueItems(q, ws) : (r.id = o.id \/ r.w = o.w) => r = o
           /\ \A w \in W : \E r \in QueueItems(q, ws) : r.w = w
           /\ \A r, o \in QueueItems(q, ws) : r.id < o.id => Apart(r.at, r.emit, o.at, o.emit)
           /\ \A r \in Items(q.g), o \in QueueItems(q, ws) : Apart(r.at, r.emit, o.at, o.emit)
<1> DEFINE n == Cardinality(W)
<1>1. /\ n \in Nat /\ Len(ws) = n /\ ws \in [1 .. n -> W]
      /\ \A i, j \in 1 .. n : i # j => ws[i] # ws[j]
      /\ \A w \in W : \E i \in 1 .. n : ws[i] = w
  BY SeqsOK
<1> HIDE DEF n
<1>2. \E at, emit : IsSchedule(q, ws, n, at, emit)
  <2>1. q.mg.groupType \in {"B", "C"}
    BY DEF CallOK, MulticastGroup
  <2>2. CASE q.mg.groupType = "C"
    BY <1>1, <2>2, ClassCSchedule
  <2>3. CASE q.mg.groupType = "B"
    <3>1. q.mg.pingSlotPeriod # 0
      BY <2>3 DEF InsertFails
    <3> QED
      BY <1>1, <2>3, <3>1, ClassBSchedule
  <2> QED
    BY <2>1, <2>2, <2>3
<1>3. PICK at, emit : IsSchedule(q, ws, n, at, emit)
  BY <1>2
<1> DEFINE R(i) == Row(q, ws, i, at[i], emit[i])
<1>4. QueueItems(q, ws) = {R(i) : i \in 1 .. n}
  BY <1>3 DEF IsSchedule
<1>5. ASSUME NEW i \in 1 .. n
      PROVE  /\ R(i).id = nextId + i - 1 /\ R(i).g = q.g /\ R(i).w = ws[i] /\ R(i).fCnt = q.fCnt
             /\ R(i).pl = q.pl /\ R(i).at = at[i] /\ R(i).emit = emit[i]
  BY DEF Row
<1>6. ASSUME NEW i \in 1 .. n
      PROVE  /\ R(i) \in MulticastQueueItem
             /\ R(i).id >= nextId /\ R(i).id < nextId + n
  <2>1. nextId + i - 1 \in 1 .. MaxId /\ nextId + i - 1 >= nextId /\ nextId + i - 1 < nextId + n
    <3>1. nextId + n <= MaxId + 1
      BY DEF n
    <3>2. nextId \in 1 .. MaxId + 1
      BY DEF Typed
    <3> QED
      BY <1>1, <3>1, <3>2, Constants
  <2>2. at[i] \in Nat /\ emit[i] \in Nat \cup {None} /\ ws[i] \in Gateways
    BY <1>1, <1>3 DEF IsSchedule
  <2> QED
    BY <2>1, <2>2 DEF Row, MulticastQueueItem, CallOK
<1> HIDE DEF R
<1>7. QueueItems(q, ws) \subseteq MulticastQueueItem
  BY <1>4, <1>6
<1>8. \A r \in QueueItems(q, ws) :
          /\ r.g = q.g /\ r.fCnt = q.fCnt /\ r.pl = q.pl
          /\ r.id >= nextId /\ r.id < nextId + n
  BY <1>4, <1>5, <1>6
<1>9. \A r, o \in QueueItems(q, ws) : (r.id = o.id \/ r.w = o.w) => r = o
  <2>1. ASSUME NEW i \in 1 .. n, NEW j \in 1 .. n, R(i).id = R(j).id \/ R(i).w = R(j).w
        PROVE  i = j
    <3>1. R(i).id = nextId + i - 1 /\ R(j).id = nextId + j - 1 /\ R(i).w = ws[i] /\ R(j).w = ws[j]
      BY <1>5
    <3>2. nextId \in Nat
      BY Constants DEF Typed
    <3> QED
      BY <1>1, <2>1, <3>1, <3>2
  <2> QED
    BY <1>4, <2>1
<1>10. \A w \in W : \E r \in QueueItems(q, ws) : r.w = w
  BY <1>1, <1>4, <1>5
<1>11. \A r, o \in QueueItems(q, ws) : r.id < o.id => Apart(r.at, r.emit, o.at, o.emit)
  <2>1. ASSUME NEW i \in 1 .. n, NEW j \in 1 .. n, R(i).id < R(j).id
        PROVE  Apart(R(i).at, R(i).emit, R(j).at, R(j).emit)
    <3>1. R(i).id = nextId + i - 1 /\ R(j).id = nextId + j - 1
      BY <1>5
    <3>2. nextId \in Nat
      BY Constants DEF Typed
    <3>3. i < j
      BY <2>1, <3>1, <3>2
    <3> QED
      BY <1>3, <1>5, <3>3 DEF IsSchedule
  <2> QED
    BY <1>4, <2>1
<1>12. \A r \in Items(q.g), o \in QueueItems(q, ws) : Apart(r.at, r.emit, o.at, o.emit)
  <2>1. ASSUME NEW r \in Items(q.g), NEW i \in 1 .. n
        PROVE  Apart(r.at, r.emit, R(i).at, R(i).emit)
    BY <1>3, <1>5 DEF IsSchedule
  <2> QED
    BY <1>4, <2>1
<1> QED
  BY <1>7, <1>8, <1>9, <1>10, <1>11, <1>12 DEF n

-----------------------------------------------------------------------------
(* The inductive invariant, action by action *)

\* The initial states satisfy the invariant.
LEMMA InitIInv == Init => IInv
<1> SUFFICES ASSUME Init PROVE IInv
  OBVIOUS
<1> USE DEF Init
<1>1. Typed
  <2>1. call = [c \in Clients |-> call[c]] /\ \A c \in Clients : CallOK(call[c])
    BY DEF CallOK, NoCall
  <2>2. group \in [Groups -> MulticastGroup \cup {None}]
    BY Constants
  <2> QED
    BY <2>1, <2>2, Constants DEF Typed
<1>2. Messages = {}
  BY DEF Messages
<1>3. Fresh
  BY <1>2 DEF Fresh
<1>4. LockInv /\ FlushInv
  BY DEF LockInv, FlushInv, NoCall
<1>5. BatchInv
  <2>1. \A s \in Schedulers : batch[s] = <<>> /\ Range(batch[s]) = {}
    BY DEF Range
  <2> QED
    BY <2>1 DEF BatchInv, Ids
<1>6. CounterInv
  BY <1>2 DEF CounterInv, CounterFresh
<1>7. RowsSpaced
  BY DEF RowsSpaced, Items
<1> QED
  BY <1>1, <1>3, <1>4, <1>5, <1>6, <1>7 DEF IInv

\* Steps that change none of the rows, locks, calls and messages keep all but
\* the types.
LEMMA FrameOK ==
    ASSUME IInv, UNCHANGED <<group, queue, nextId, api, scheduler, history>>, Typed'
    PROVE  IInv'
<1> USE DEF api, scheduler, history
<1>1. Messages' = Messages
  BY DEF Messages
<1>2. Fresh'
  BY <1>1 DEF IInv, Fresh
<1>3. LockInv' /\ FlushInv'
  BY DEF IInv, LockInv, FlushInv
<1>4. BatchInv'
  BY DEF IInv, BatchInv
<1>5. CounterInv'
  BY <1>1 DEF IInv, CounterInv, CounterFresh
<1>6. RowsSpaced'
  BY DEF IInv, RowsSpaced, Items
<1> QED
  BY <1>2, <1>3, <1>4, <1>5, <1>6 DEF IInv

\* A stuttering step keeps the invariant.
LEMMA StutterOK == IInv /\ UNCHANGED vars => IInv'
<1> SUFFICES ASSUME IInv, UNCHANGED vars PROVE IInv'
  OBVIOUS
<1>1. Typed'
  BY DEF IInv, Typed, vars, db, api, scheduler, history, CallOK
<1> QED
  BY <1>1, FrameOK DEF vars, db, api, scheduler, history

\* The clock
LEMMA TickOK == ASSUME IInv, Tick PROVE IInv'
<1>1. Typed'
  BY DEF IInv, Typed, Tick, db, api, scheduler, history, CallOK
<1> QED
  BY <1>1, FrameOK DEF Tick, db, api, scheduler, history

\* New rx-info of a device
LEMMA RXInfoOK ==
    ASSUME IInv, NEW d \in Devices, NEW rx \in Receptions, SaveDeviceGatewayRXInfoSet(d, rx)
    PROVE  IInv'
<1> USE DEF SaveDeviceGatewayRXInfoSet, db, api, scheduler, history
<1>1. changes' \in 0 .. MaxChanges
  BY Constants DEF IInv, Typed, Change
<1>2. Typed'
  BY <1>1 DEF IInv, Typed, CallOK
<1> QED
  BY <1>2, FrameOK

\* Members that come and go
LEMMA MembersOK ==
    ASSUME IInv, NEW g \in Groups, NEW d \in Devices,
           AddDeviceToMulticastGroup(g, d) \/ RemoveDeviceFromMulticastGroup(g, d)
    PROVE  IInv'
<1> USE DEF AddDeviceToMulticastGroup, RemoveDeviceFromMulticastGroup, api, scheduler, history
<1>1. changes' \in 0 .. MaxChanges
  BY Constants DEF IInv, Typed, Change
<1>2. members' \in [Groups -> SUBSET Devices]
  <2>1. members \in [Groups -> SUBSET Devices] /\ members[g] \subseteq Devices
    BY DEF IInv, Typed
  <2>2. CASE AddDeviceToMulticastGroup(g, d)
    <3>1. members' = [members EXCEPT ![g] = members[g] \cup {d}]
      BY <2>2 DEF InsertMember
    <3> QED
      BY <2>1, <3>1
  <2>3. CASE RemoveDeviceFromMulticastGroup(g, d)
    <3>1. members' = [members EXCEPT ![g] = members[g] \ {d}]
      BY <2>3 DEF DeleteMember
    <3> QED
      BY <2>1, <3>1
  <2> QED
    BY <2>2, <2>3
<1>3. Typed'
  BY <1>1, <1>2 DEF IInv, Typed, CallOK
<1> QED
  BY <1>3, FrameOK

\* Rows that leave the queue
LEMMA RemovalOK ==
    ASSUME IInv, queue' \subseteq queue, UNCHANGED <<sent, flushed, nextId>>,
           \A s \in Schedulers : locked'[s] \subseteq locked[s]
    PROVE  Fresh' /\ RowsSpaced' /\ Messages' \subseteq Messages
<1>1. Messages' \subseteq Messages
  BY DEF Messages
<1>2. Fresh'
  BY <1>1 DEF IInv, Fresh
<1>3. RowsSpaced'
  BY DEF IInv, RowsSpaced, Items
<1> QED
  BY <1>1, <1>2, <1>3

\* A new group
LEMMA CreateOK ==
    ASSUME IInv, NEW g \in Groups, NEW mg \in Settings, CreateMulticastGroup(g, mg)
    PROVE  IInv'
<1> USE DEF CreateMulticastGroup, api, scheduler, history
<1>1. group[g] = None /\ group' = [group EXCEPT ![g] = mg] /\ mg \in MulticastGroup /\ mg # None
  BY Constants DEF InsertGroup
<1>2. Typed'
  BY <1>1 DEF IInv, Typed, CallOK
<1>3. group \in [Groups -> MulticastGroup \cup {None}] /\ Messages' = Messages
  BY DEF IInv, Typed, Messages
<1>4. Fresh' /\ FlushInv' /\ RowsSpaced'
  BY <1>3 DEF IInv, Fresh, FlushInv, RowsSpaced, Items
<1>5. LockInv'
  <2>1. ASSUME NEW c \in Clients, call[c].op = "enqueue" PROVE call[c].g # g /\ call[c].g \in Groups
    <3>1. call[c].g \in Groups /\ call[c].mg \in MulticastGroup /\ group[call[c].g] = call[c].mg
      BY <2>1 DEF IInv, Typed, LockInv, CallOK
    <3> QED
      BY <1>1, <3>1, Constants
  <2> QED
    BY <1>1, <1>3, <2>1 DEF IInv, LockInv
<1>6. BatchInv'
  <2>1. \A r \in queue : group[r.g] # None => group'[r.g] # None
    BY <1>1, <1>3 DEF IInv, Typed, MulticastQueueItem
  <2> QED
    BY <2>1 DEF IInv, BatchInv
<1>7. CounterInv'
  <2>1. \A m \in Messages : m.g \in Groups
    BY DEF IInv, Typed, Messages, MulticastQueueItem, Transmission
  <2>2. \A m \in Messages : m.g \notin setBack => m.g # g
    BY <1>1 DEF IInv, CounterInv
  <2> QED
    BY <1>1, <1>3, <2>1, <2>2 DEF IInv, CounterInv, CounterFresh
<1> QED
  BY <1>2, <1>4, <1>5, <1>6, <1>7 DEF IInv

\* A group that is reconfigured: the counter stays above the messages unless it
\* is set back.
LEMMA UpdateOK ==
    ASSUME IInv, NEW g \in Groups, NEW mg \in Settings, UpdateMulticastGroup(g, mg)
    PROVE  IInv'
<1> USE DEF UpdateMulticastGroup, api, scheduler, history
<1>1. /\ group[g] # None /\ rowLock[g] = None
      /\ group' = [group EXCEPT ![g] = mg] /\ mg \in MulticastGroup /\ mg # None
  BY Constants DEF UpdateGroup, SelectGroup
<1>2. changes' \in 0 .. MaxChanges /\ setBack' \subseteq Groups /\ setBack \subseteq setBack'
  <2>1. changes' \in 0 .. MaxChanges
    BY Constants DEF IInv, Typed, Change
  <2>2. setBack \subseteq Groups /\ setBack' \in {setBack, setBack \cup {g}}
    BY DEF IInv, Typed
  <2> QED
    BY <2>1, <2>2
<1>3. Typed'
  BY <1>1, <1>2 DEF IInv, Typed, CallOK
<1>4. group \in [Groups -> MulticastGroup \cup {None}] /\ Messages' = Messages
  BY DEF IInv, Typed, Messages
<1>5. Fresh' /\ FlushInv' /\ RowsSpaced'
  BY <1>4 DEF IInv, Fresh, FlushInv, RowsSpaced, Items
<1>6. LockInv'
  <2>1. \A c \in Clients : call[c].op = "enqueue" => call[c].g # g /\ call[c].g \in Groups
    BY <1>1, Constants DEF IInv, Typed, LockInv, CallOK
  <2> QED
    BY <1>1, <1>4, <2>1 DEF IInv, LockInv
<1>7. BatchInv'
  <2>1. \A r \in queue : group[r.g] # None => group'[r.g] # None
    BY <1>1, <1>4 DEF IInv, Typed, MulticastQueueItem
  <2> QED
    BY <2>1 DEF IInv, BatchInv
<1>8. CounterInv'
  <2>1. ASSUME NEW m \in Messages, m.g \notin setBack'
        PROVE  group'[m.g] # None /\ m.fCnt < group'[m.g].fCnt
    <3>1. m.g \in Groups /\ m.fCnt \in Nat
      BY DEF IInv, Typed, Messages, MulticastQueueItem, Transmission
    <3>2. group[m.g] # None /\ m.fCnt < group[m.g].fCnt
      BY <1>2, <2>1 DEF IInv, CounterInv
    <3>3. CASE m.g = g
      <4>1. ~(mg.fCnt < group[g].fCnt)
        BY <2>1, <3>3
      <4>2. mg.fCnt \in Nat /\ group[g].fCnt \in Nat
        BY <1>1, <1>4 DEF MulticastGroup
      <4>3. group'[m.g] = mg
        BY <1>1, <1>4, <3>3
      <4> QED
        BY <1>1, <3>1, <3>2, <3>3, <4>1, <4>2, <4>3
    <3>4. CASE m.g # g
      BY <1>1, <1>4, <3>1, <3>2, <3>4
    <3> QED
      BY <3>3, <3>4
  <2> QED
    BY <1>2, <1>4, <2>1 DEF IInv, CounterInv, CounterFresh
<1> QED
  BY <1>3, <1>5, <1>6, <1>7, <1>8 DEF IInv

\* A group that is deleted with its rows: none of them is locked.
LEMMA DeleteOK ==
    ASSUME IInv, NEW g \in Groups, DeleteMulticastGroup(g)
    PROVE  IInv'
<1> USE DEF DeleteMulticastGroup, api, scheduler, history
<1>1. /\ rowLock[g] = None /\ Ids(Items(g)) \cap LockedBy(Schedulers) = {}
      /\ group' = [group EXCEPT ![g] = None] /\ members' = [members EXCEPT ![g] = {}]
      /\ queue' = queue \ Items(g) /\ setBack' = setBack \cup {g}
  BY DEF DeleteGroup
<1>2. changes' \in 0 .. MaxChanges
  BY Constants DEF IInv, Typed, Change
<1>3. Typed'
  BY <1>1, <1>2 DEF IInv, Typed, CallOK
<1>4. Fresh' /\ RowsSpaced' /\ Messages' \subseteq Messages
  BY <1>1, RemovalOK
<1>5. group \in [Groups -> MulticastGroup \cup {None}]
  BY DEF IInv, Typed
<1>6. LockInv' /\ FlushInv'
  <2>1. \A c \in Clients : call[c].op = "enqueue" => call[c].g # g /\ call[c].g \in Groups
    BY <1>1, Constants DEF IInv, Typed, LockInv, CallOK
  <2> QED
    BY <1>1, <1>5, <2>1 DEF IInv, LockInv, FlushInv
<1>7. BatchInv'
  <2>1. \A r \in queue' : r.g \in Groups /\ r.g # g
    BY <1>1 DEF IInv, Typed, MulticastQueueItem, Items
  <2>2. \A r \in queue' : group'[r.g] # None
    BY <1>1, <1>5, <2>1 DEF IInv, BatchInv
  <2>3. ASSUME NEW s \in Schedulers, NEW r \in Range(batch[s]) PROVE r \in queue'
    <3>1. r \in queue /\ r.id \in locked[s]
      BY DEF IInv, BatchInv, Ids
    <3>2. r \notin Items(g)
      BY <1>1, <3>1 DEF Ids, LockedBy
    <3> QED
      BY <1>1, <3>1, <3>2
  <2> QED
    BY <1>1, <2>2, <2>3 DEF IInv, BatchInv
<1>8. CounterInv'
  <2>1. \A m \in Messages : m.g \in Groups
    BY DEF IInv, Typed, Messages, MulticastQueueItem, Transmission
  <2> QED
    BY <1>1, <1>4, <1>5, <2>1 DEF IInv, CounterInv, CounterFresh
<1> QED
  BY <1>3, <1>4, <1>6, <1>7, <1>8 DEF IInv

\* Calls that do not hold a group
LEMMA OtherCallOK ==
    ASSUME IInv, NEW c \in Clients, call[c].op # "enqueue", call'[c].op # "enqueue",
           \A e \in Clients : e # c => call'[e] = call[e], UNCHANGED <<group, rowLock>>
    PROVE  LockInv'
<1>1. ASSUME NEW h \in Groups, rowLock'[h] # None
      PROVE  call'[rowLock'[h]].op = "enqueue" /\ call'[rowLock'[h]].g = h
  <2>1. rowLock' = rowLock /\ rowLock[h] \in Clients
    BY <1>1 DEF IInv, Typed
  <2>2. call[rowLock[h]].op = "enqueue" /\ call[rowLock[h]].g = h
    BY <1>1, <2>1 DEF IInv, LockInv
  <2> QED
    BY <2>1, <2>2
<1>2. ASSUME NEW e \in Clients, call'[e].op = "enqueue"
      PROVE  /\ rowLock'[call'[e].g] = e
             /\ group'[call'[e].g] = call'[e].mg
             /\ call'[e].mg.fCnt <= call'[e].fCnt
  <2>1. call'[e] = call[e]
    BY <1>2
  <2> QED
    BY <1>2, <2>1 DEF IInv, LockInv
<1> QED
  BY <1>1, <1>2 DEF LockInv

\* A flush that is requested
LEMMA FlushOK ==
    ASSUME IInv, NEW c \in Clients, NEW g \in Groups, FlushMulticastQueueForMulticastGroup(c, g)
    PROVE  IInv'
<1> USE DEF FlushMulticastQueueForMulticastGroup, db, scheduler
<1> DEFINE q == [op |-> "flush", rows |-> Items(g)]
<1>1. /\ call[c] = NoCall /\ call' = [call EXCEPT ![c] = q] /\ flushed' = flushed \cup Items(g)
      /\ Items(g) \subseteq queue
  BY DEF Items
<1>2. \A e \in Clients : call'[e] = IF e = c THEN q ELSE call[e]
  BY <1>1 DEF IInv, Typed
<1>3. Typed'
  <2>1. changes' \in 0 .. MaxChanges
    BY Constants DEF IInv, Typed, Change
  <2>2. queue \subseteq MulticastQueueItem
    BY DEF IInv, Typed
  <2>3. CallOK(q)
    BY <1>1, <2>2 DEF CallOK
  <2>4. call' = [e \in Clients |-> call'[e]]
    BY <1>1 DEF IInv, Typed
  <2>5. \A e \in Clients : CallOK(call'[e])
    BY <1>2, <2>3 DEF IInv, Typed
  <2> QED
    BY <1>1, <2>1, <2>2, <2>4, <2>5 DEF IInv, Typed, CallOK
<1>4. Messages' = Messages
  BY DEF Messages
<1>5. Fresh'
  BY <1>1, <1>4 DEF IInv, Fresh, Messages
<1>6. LockInv'
  <2>1. call[c].op # "enqueue" /\ call'[c].op # "enqueue"
    BY <1>1, <1>2 DEF NoCall
  <2>2. \A e \in Clients : e # c => call'[e] = call[e]
    BY <1>2
  <2> QED
    BY <2>1, <2>2, OtherCallOK
<1>7. FlushInv'
  BY <1>1, <1>2 DEF IInv, FlushInv
<1>8. BatchInv' /\ CounterInv' /\ RowsSpaced'
  BY <1>4 DEF IInv, BatchInv, CounterInv, CounterFresh, RowsSpaced, Items
<1> QED
  BY <1>3, <1>5, <1>6, <1>7, <1>8 DEF IInv

\* The rows a flush deletes are not locked.
LEMMA FlushDeletesOK ==
    ASSUME IInv, NEW c \in Clients, FlushDeletes(c)
    PROVE  IInv'
<1> USE DEF FlushDeletes, scheduler, history
<1>1. /\ call[c].op = "flush" /\ call' = [call EXCEPT ![c] = NoCall]
      /\ queue' = queue \ call[c].rows
  OBVIOUS
<1>2. \A e \in Clients : call'[e] = IF e = c THEN NoCall ELSE call[e]
  BY <1>1 DEF IInv, Typed
<1>3. Typed'
  <2>1. call' = [e \in Clients |-> call'[e]]
    BY <1>1 DEF IInv, Typed
  <2>2. \A e \in Clients : CallOK(call'[e])
    BY <1>2 DEF IInv, Typed, CallOK, NoCall
  <2> QED
    BY <1>1, <2>1, <2>2 DEF IInv, Typed, CallOK
<1>4. Fresh' /\ RowsSpaced' /\ Messages' \subseteq Messages
  BY <1>1, RemovalOK
<1>5. LockInv'
  <2>1. call[c].op # "enqueue" /\ call'[c].op # "enqueue"
    BY <1>1, <1>2 DEF NoCall
  <2>2. \A e \in Clients : e # c => call'[e] = call[e]
    BY <1>2
  <2> QED
    BY <2>1, <2>2, OtherCallOK
<1>6. FlushInv'
  BY <1>1, <1>2 DEF IInv, FlushInv, NoCall
<1>7. BatchInv'
  <2>1. ASSUME NEW s \in Schedulers, NEW r \in Range(batch[s]) PROVE r \in queue'
    <3>1. r \in queue /\ r.id \in locked[s]
      BY DEF IInv, BatchInv, Ids
    <3>2. r \notin call[c].rows
      BY <3>1 DEF Ids, LockedBy
    <3> QED
      BY <1>1, <3>1, <3>2
  <2> QED
    BY <1>1, <2>1 DEF IInv, BatchInv
<1>8. CounterInv'
  BY <1>4 DEF IInv, CounterInv, CounterFresh
<1> QED
  BY <1>3, <1>4, <1>5, <1>6, <1>7, <1>8 DEF IInv

\* An enqueue locks the row of its group.
LEMMA EnqueueOK ==
    ASSUME IInv, NEW c \in Clients, NEW g \in Groups, NEW f \in 0 .. FCntSize - 1,
           NEW pl \in Payloads, NEW fPort \in FPorts,
           EnqueueMulticastQueueItem(c, g, f, pl, fPort)
    PROVE  IInv'
<1> USE DEF EnqueueMulticastQueueItem, db, scheduler, history
<1> DEFINE q == [op |-> "enqueue", g |-> g, fCnt |-> f, pl |-> pl, fPort |-> fPort, mg |-> group[g]]
<1>1. /\ call[c] = NoCall /\ group[g] # None /\ rowLock[g] = None /\ f >= group[g].fCnt
      /\ rowLock' = [rowLock EXCEPT ![g] = c] /\ call' = [call EXCEPT ![c] = q]
  BY DEF SelectGroup
<1>2. \A e \in Clients : call'[e] = IF e = c THEN q ELSE call[e]
  BY <1>1 DEF IInv, Typed
<1>3. \A h \in Groups : rowLock'[h] = IF h = g THEN c ELSE rowLock[h]
  BY <1>1 DEF IInv, Typed
<1>4. group[g] \in MulticastGroup
  BY <1>1 DEF IInv, Typed
<1>5. Typed'
  <2>1. CallOK(q)
    BY <1>4 DEF CallOK
  <2>2. call' = [e \in Clients |-> call'[e]]
    BY <1>1 DEF IInv, Typed
  <2>3. \A e \in Clients : CallOK(call'[e])
    BY <1>2, <2>1 DEF IInv, Typed
  <2>4. rowLock' \in [Groups -> Clients \cup {None}]
    BY <1>1 DEF IInv, Typed
  <2> QED
    BY <1>1, <2>2, <2>3, <2>4 DEF IInv, Typed, CallOK
<1>6. Messages' = Messages
  BY DEF Messages
<1>7. Fresh' /\ BatchInv' /\ CounterInv' /\ RowsSpaced'
  BY <1>6 DEF IInv, Fresh, BatchInv, CounterInv, CounterFresh, RowsSpaced, Items
<1>8. FlushInv'
  BY <1>2 DEF IInv, FlushInv
<1>9. LockInv'
  <2>1. ASSUME NEW h \in Groups, rowLock'[h] # None
        PROVE  call'[rowLock'[h]].op = "enqueue" /\ call'[rowLock'[h]].g = h
    <3>1. CASE h = g
      BY <1>2, <1>3, <3>1
    <3>2. CASE h # g
      <4>1. rowLock'[h] = rowLock[h] /\ rowLock[h] \in Clients
        BY <1>3, <2>1, <3>2 DEF IInv, Typed
      <4>2. call[rowLock[h]].op = "enqueue" /\ call[rowLock[h]].g = h
        BY <2>1, <4>1 DEF IInv, LockInv
      <4>3. rowLock[h] # c
        BY <1>1, <4>2 DEF NoCall
      <4> QED
        BY <1>2, <4>1, <4>2, <4>3
    <3> QED
      BY <3>1, <3>2
  <2>2. ASSUME NEW e \in Clients, call'[e].op = "enqueue"
        PROVE  /\ rowLock'[call'[e].g] = e
               /\ group'[call'[e].g] = call'[e].mg
               /\ call'[e].mg.fCnt <= call'[e].fCnt
    <3>1. CASE e = c
      <4>1. call'[e].g = g /\ call'[e].mg = group[g] /\ call'[e].fCnt = f
        BY <1>2, <3>1
      <4>2. group[g].fCnt <= f
        BY <1>1, <1>4 DEF MulticastGroup
      <4> QED
        BY <1>3, <3>1, <4>1, <4>2
    <3>2. CASE e # c
      <4>1. call'[e] = call[e]
        BY <1>2, <3>2
      <4>2. /\ rowLock[call[e].g] = e /\ group[call[e].g] = call[e].mg
            /\ call[e].mg.fCnt <= call[e].fCnt /\ call[e].g \in Groups
        BY <2>2, <4>1 DEF IInv, LockInv, Typed, CallOK
      <4>3. call[e].g # g
        BY <1>1, <4>2, Constants
      <4> QED
        BY <1>3, <4>1, <4>2, <4>3
    <3> QED
      BY <3>1, <3>2
  <2> QED
    BY <2>1, <2>2 DEF LockInv
<1> QED
  BY <1>5, <1>7, <1>8, <1>9 DEF IInv

\* The end of an enqueue, which releases the row of its group
LEMMA ReleaseOK ==
    ASSUME IInv, NEW c \in Clients, call[c].op = "enqueue", Release(c), flushed' = flushed,
           \A h \in Groups : h # call[c].g => group'[h] = group[h]
    PROVE  /\ LockInv' /\ FlushInv'
           /\ rowLock' \in [Groups -> Clients \cup {None}]
           /\ call' = [e \in Clients |-> call'[e]]
           /\ \A e \in Clients : CallOK(call[e])'
<1>1. rowLock' = [rowLock EXCEPT ![call[c].g] = None] /\ call' = [call EXCEPT ![c] = NoCall]
  BY DEF Release
<1>2. \A e \in Clients : call'[e] = IF e = c THEN NoCall ELSE call[e]
  BY <1>1 DEF IInv, Typed
<1>3. \A h \in Groups : rowLock'[h] = IF h = call[c].g THEN None ELSE rowLock[h]
  BY <1>1 DEF IInv, Typed
<1>4. call[c].g \in Groups /\ rowLock[call[c].g] = c
  BY DEF IInv, LockInv, Typed, CallOK
<1>5. ASSUME NEW h \in Groups, rowLock'[h] # None
      PROVE  call'[rowLock'[h]].op = "enqueue" /\ call'[rowLock'[h]].g = h
  <2>1. h # call[c].g /\ rowLock'[h] = rowLock[h] /\ rowLock[h] \in Clients
    BY <1>3, <1>5 DEF IInv, Typed
  <2>2. call[rowLock[h]].op = "enqueue" /\ call[rowLock[h]].g = h
    BY <1>5, <2>1 DEF IInv, LockInv
  <2> QED
    BY <1>2, <2>1, <2>2
<1>6. ASSUME NEW e \in Clients, call'[e].op = "enqueue"
      PROVE  /\ rowLock'[call'[e].g] = e
             /\ group'[call'[e].g] = call'[e].mg
             /\ call'[e].mg.fCnt <= call'[e].fCnt
  <2>1. e # c /\ call'[e] = call[e]
    BY <1>2, <1>6 DEF NoCall
  <2>2. /\ rowLock[call[e].g] = e /\ group[call[e].g] = call[e].mg
        /\ call[e].mg.fCnt <= call[e].fCnt /\ call[e].g \in Groups
    BY <1>6, <2>1 DEF IInv, LockInv, Typed, CallOK
  <2>3. call[e].g # call[c].g
    BY <1>4, <2>1, <2>2
  <2> QED
    BY <1>3, <2>1, <2>2, <2>3
<1>7. FlushInv'
  BY <1>2 DEF IInv, FlushInv, NoCall
<1>8. \A e \in Clients : CallOK(call[e])'
  <2>1. CallOK(NoCall)
    BY DEF CallOK, NoCall
  <2>2. \A e \in Clients : CallOK(call'[e])
    BY <1>2, <2>1 DEF IInv, Typed
  <2> QED
    BY <2>2 DEF CallOK
<1>9. rowLock' \in [Groups -> Clients \cup {None}] /\ call' = [e \in Clients |-> call'[e]]
  BY <1>1 DEF IInv, Typed
<1> QED
  BY <1>5, <1>6, <1>7, <1>8, <1>9 DEF LockInv

\* An enqueue that is rolled back
LEMMA EnqueueFailsOK ==
    ASSUME IInv, NEW c \in Clients, EnqueueFails(c)
    PROVE  IInv'
<1> USE DEF EnqueueFails, db, scheduler, history
<1>1. /\ LockInv' /\ FlushInv'
      /\ rowLock' \in [Groups -> Clients \cup {None}]
      /\ call' = [e \in Clients |-> call'[e]]
      /\ \A e \in Clients : CallOK(call[e])'
  BY ReleaseOK
<1>2. faults' \in 0 .. MaxFaults
  <2>1. faults \in 0 .. MaxFaults /\ MaxFaults \in Nat
    BY Constants DEF IInv, Typed
  <2>2. faults' = faults \/ (faults < MaxFaults /\ faults' = faults + 1)
    OBVIOUS
  <2> QED
    BY <2>1, <2>2
<1>3. Typed'
  BY <1>1, <1>2 DEF IInv, Typed
<1>4. Messages' = Messages
  BY DEF Messages
<1>5. Fresh' /\ BatchInv' /\ CounterInv' /\ RowsSpaced'
  BY <1>4 DEF IInv, Fresh, BatchInv, CounterInv, CounterFresh, RowsSpaced, Items
<1> QED
  BY <1>1, <1>3, <1>5 DEF IInv

\* The rows that a committing enqueue inserts
Inserted(N, q, n) ==
    /\ N \subseteq MulticastQueueItem
    /\ \A r \in N :
           /\ r.g = q.g /\ r.fCnt = q.fCnt /\ r.pl = q.pl
           /\ r.id >= nextId /\ r.id < nextId + n
    /\ \A r, o \in N : (r.id = o.id \/ r.w = o.w) => r = o
    /\ \A r, o \in N : r.id < o.id => Apart(r.at, r.emit, o.at, o.emit)
    /\ \A r \in Items(q.g), o \in N : Apart(r.at, r.emit, o.at, o.emit)

\* What a committing enqueue does: it inserts such rows, one for a gateway of
\* each member, and advances the counter of the group.
LEMMA EnqueueEffect ==
    ASSUME IInv, NEW c \in Clients, EnqueueCommits(c)
    PROVE  \E N \in SUBSET MulticastQueueItem, n \in Nat :
               /\ Inserted(N, call[c], n)
               /\ queue' = queue \cup N
               /\ nextId' = nextId + n /\ nextId' <= MaxId + 1
               /\ \A d \in members[call[c].g] : DOMAIN rxInfo[d] # {} =>
                      \E r \in N : r.w \in DeviceEdges(rxInfo[d])
<1> DEFINE q == call[c]
           rxs == GetDeviceGatewayRXInfoSetForDevEUIs(SelectMembers(q.g))
<1>1. PICK W \in GetMinimumGatewaySet(rxs) :
          /\ W # {} => ~InsertFails(q)
          /\ nextId + Cardinality(W) <= MaxId + 1
          /\ \E ws \in SetToSeqs(W) :
                 queue' = queue \cup (IF W = {} THEN {} ELSE QueueItems(q, ws))
          /\ nextId' = nextId + Cardinality(W)
  BY DEF EnqueueCommits
<1>2. PICK ws \in SetToSeqs(W) : queue' = queue \cup (IF W = {} THEN {} ELSE QueueItems(q, ws))
  BY <1>1
<1>3. /\ q.op = "enqueue" /\ CallOK(q) /\ q.g \in Groups
      /\ rxInfo \in [Devices -> Receptions] /\ members[q.g] \subseteq Devices
  BY DEF EnqueueCommits, IInv, Typed, CallOK
<1>4. /\ DOMAIN rxs = {d \in members[q.g] : DOMAIN rxInfo[d] # {}}
      /\ \A d \in DOMAIN rxs : rxs[d] = rxInfo[d]
  BY DEF GetDeviceGatewayRXInfoSetForDevEUIs, SelectMembers
<1>5. \A d \in DOMAIN rxs : rxs[d] \in RXInfo /\ DOMAIN rxs[d] # {}
  BY <1>3, <1>4, Constants
<1> HIDE DEF rxs, q
<1>6. W \subseteq Gateways /\ IsFiniteSet(W) /\ \A d \in DOMAIN rxs : \E w \in W : w \in DeviceEdges(rxs[d])
  BY <1>5, GatewaysOK
<1>7. CASE W = {}
  <2>1. Cardinality(W) = 0 /\ queue' = queue \cup {}
    BY <1>2, <1>7, FS_EmptySet
  <2>2. Inserted({}, q, 0)
    BY DEF Inserted
  <2>3. \A d \in members[q.g] : DOMAIN rxInfo[d] = {}
    BY <1>4, <1>6, <1>7
  <2> QED
    <3>1. nextId' = nextId + 0 /\ nextId' <= MaxId + 1
      BY <1>1, <2>1
    <3> WITNESS {} \in SUBSET MulticastQueueItem, 0 \in Nat
    <3> QED
      BY <2>1, <2>2, <2>3, <3>1 DEF q
<1>8. CASE W # {}
  <2> DEFINE N == QueueItems(q, ws)
             n == Cardinality(W)
  <2>1. n \in Nat /\ queue' = queue \cup N
    BY <1>2, <1>6, <1>8, FS_CardinalityType
  <2>2. /\ N \subseteq MulticastQueueItem
        /\ \A r \in N :
               /\ r.g = q.g /\ r.fCnt = q.fCnt /\ r.pl = q.pl
               /\ r.id >= nextId /\ r.id < nextId + n
        /\ \A r, o \in N : (r.id = o.id \/ r.w = o.w) => r = o
        /\ \A w \in W : \E r \in N : r.w = w
        /\ \A r, o \in N : r.id < o.id => Apart(r.at, r.emit, o.at, o.emit)
        /\ \A r \in Items(q.g), o \in N : Apart(r.at, r.emit, o.at, o.emit)
    BY <1>1, <1>3, <1>6, <1>8, QueueItemsOK DEF IInv
  <2> HIDE DEF N, n
  <2>3. Inserted(N, q, n)
    BY <2>2 DEF Inserted
  <2>4. ASSUME NEW d \in members[q.g], DOMAIN rxInfo[d] # {}
        PROVE  \E r \in N : r.w \in DeviceEdges(rxInfo[d])
    <3>1. d \in DOMAIN rxs /\ rxs[d] = rxInfo[d]
      BY <1>4, <2>4
    <3>2. PICK w \in W : w \in DeviceEdges(rxInfo[d])
      BY <1>6, <3>1
    <3> QED
      BY <2>2, <3>2
  <2>5. nextId' = nextId + n /\ nextId' <= MaxId + 1
    BY <1>1 DEF n
  <2> QED
    <3> N \in SUBSET MulticastQueueItem /\ n \in Nat
      BY <2>1, <2>2
    <3> WITNESS N \in SUBSET MulticastQueueItem, n \in Nat
    <3> QED
      BY <2>1, <2>3, <2>4, <2>5 DEF q
<1> QED
  BY <1>7, <1>8

\* An enqueue that commits
LEMMA EnqueueCommitsOK ==
    ASSUME IInv, NEW c \in Clients, EnqueueCommits(c)
    PROVE  IInv'
<1> DEFINE q == call[c]
           next == (q.fCnt + 1) % FCntSize
           mg == [q.mg EXCEPT !.fCnt = next]
<1>1. PICK N \in SUBSET MulticastQueueItem, n \in Nat :
          /\ Inserted(N, q, n)
          /\ queue' = queue \cup N
          /\ nextId' = nextId + n /\ nextId' <= MaxId + 1
  BY EnqueueEffect
<1>2. /\ q.op = "enqueue" /\ next <= FCntMax /\ group' = [group EXCEPT ![q.g] = mg]
      /\ setBack' = IF next <= q.fCnt THEN setBack \cup {q.g} ELSE setBack
      /\ Release(c) /\ UNCHANGED <<now, members, rxInfo, batch, locked, discarded, sent, flushed, faults, changes>>
  BY DEF EnqueueCommits, UpdateGroup, scheduler
<1>3. /\ q.g \in Groups /\ q.fCnt \in 0 .. FCntSize - 1 /\ q.mg \in MulticastGroup
      /\ group[q.g] = q.mg /\ q.mg.fCnt <= q.fCnt
  BY <1>2 DEF IInv, Typed, CallOK, LockInv
<1>4. next \in 0 .. FCntSize - 1
  BY <1>3, Constants
<1> HIDE DEF next, q
<1>5. mg \in MulticastGroup /\ mg # None /\ mg.fCnt = next
  BY <1>3, <1>4, Constants DEF MulticastGroup
<1> HIDE DEF mg
<1>6. group \in [Groups -> MulticastGroup \cup {None}]
  BY DEF IInv, Typed
<1>7. \A h \in Groups : group'[h] = IF h = q.g THEN mg ELSE group[h]
  BY <1>2, <1>6
<1>8. /\ LockInv' /\ FlushInv'
      /\ rowLock' \in [Groups -> Clients \cup {None}]
      /\ call' = [e \in Clients |-> call'[e]]
      /\ \A e \in Clients : CallOK(call[e])'
  BY <1>2, <1>7, ReleaseOK DEF q
<1>9. setBack' \subseteq Groups /\ setBack \subseteq setBack'
  <2>1. setBack \subseteq Groups /\ setBack' \in {setBack, setBack \cup {q.g}}
    BY <1>2 DEF IInv, Typed
  <2> QED
    BY <1>3, <2>1
<1>10. nextId' \in 1 .. MaxId + 1 /\ nextId \in Nat
  <2>1. nextId \in 1 .. MaxId + 1 /\ MaxId \in Nat
    BY Constants DEF IInv, Typed
  <2> QED
    BY <1>1, <2>1
<1>11. Typed'
  <2>1. group' \in [Groups -> MulticastGroup \cup {None}]
    BY <1>2, <1>5, <1>6
  <2>2. queue' \subseteq MulticastQueueItem
    BY <1>1 DEF IInv, Typed
  <2> QED
    BY <1>2, <1>8, <1>9, <1>10, <2>1, <2>2 DEF IInv, Typed
<1>12. Messages' = Messages \cup N
  BY <1>1, <1>2 DEF Messages
<1>13. \A r \in N : r.g = q.g /\ r.fCnt = q.fCnt /\ r.pl = q.pl /\ r.id >= nextId /\ r.id < nextId' /\ r.id \in Nat
  BY <1>1 DEF Inserted, MulticastQueueItem
<1>14. \A m \in Messages \cup flushed : m.id \in Nat /\ m.id < nextId
  BY DEF IInv, Fresh, Typed, Messages, MulticastQueueItem, Transmission
<1>15. Fresh'
  <2>1. \A r \in Messages' \cup flushed' : r.id < nextId'
    BY <1>1, <1>2, <1>10, <1>12, <1>13, <1>14
  <2>2. ASSUME NEW r \in Messages' \cup flushed', NEW o \in Messages' \cup flushed', r.id = o.id
        PROVE  r = o
    <3>1. CASE r \in N /\ o \in N
      BY <1>1, <2>2, <3>1 DEF Inserted
    <3>2. CASE r \in N /\ o \notin N
      BY <1>2, <1>10, <1>12, <1>13, <1>14, <2>2, <3>2
    <3>3. CASE r \notin N /\ o \in N
      BY <1>2, <1>10, <1>12, <1>13, <1>14, <2>2, <3>3
    <3>4. CASE r \notin N /\ o \notin N
      BY <1>2, <1>12, <2>2, <3>4 DEF IInv, Fresh
    <3> QED
      BY <3>1, <3>2, <3>3, <3>4
  <2>3. ASSUME NEW s \in Schedulers, NEW i \in locked'[s] PROVE i < nextId'
    <3>1. i \in locked[s] /\ i \in Nat
      <4>1. locked' = locked /\ locked[s] \subseteq 1 .. MaxId
        BY <1>2 DEF IInv, Typed
      <4> QED
        BY <4>1, Constants
    <3>2. i < nextId
      BY <3>1 DEF IInv, Fresh
    <3> QED
      BY <1>1, <1>10, <3>1, <3>2
  <2> QED
    BY <2>1, <2>2, <2>3 DEF Fresh
<1>16. BatchInv'
  <2>1. \A r \in queue : r.g \in Groups /\ group[r.g] # None
    BY DEF IInv, Typed, MulticastQueueItem, BatchInv
  <2>2. \A r \in queue' : group'[r.g] # None
    BY <1>1, <1>3, <1>5, <1>7, <1>13, <2>1
  <2>3. ASSUME NEW s \in Schedulers
        PROVE  /\ Range(batch'[s]) \subseteq queue'
               /\ Ids(Range(batch'[s])) \subseteq locked'[s]
               /\ discarded'[s] \subseteq locked'[s]
               /\ \A r \in queue' : r.id \in discarded'[s] => r.pl \in Large
    <3>1. /\ Range(batch[s]) \subseteq queue /\ Ids(Range(batch[s])) \subseteq locked[s]
          /\ discarded[s] \subseteq locked[s]
          /\ \A r \in queue : r.id \in discarded[s] => r.pl \in Large
      BY DEF IInv, BatchInv
    <3>2. \A i \in locked[s] : i \in Nat /\ i < nextId
      <4>1. locked[s] \subseteq 1 .. MaxId
        BY DEF IInv, Typed
      <4> QED
        BY <4>1, Constants DEF IInv, Fresh
    <3>3. \A r \in N : r.id \notin discarded[s]
      BY <1>10, <1>13, <3>1, <3>2
    <3> QED
      BY <1>1, <1>2, <3>1, <3>3
  <2> QED
    BY <1>2, <2>2, <2>3 DEF IInv, BatchInv
<1>17. CounterInv'
  <2>1. ASSUME NEW m \in Messages, m.g \notin setBack'
        PROVE  m.g \in Groups /\ m.fCnt \in Nat /\ group[m.g] # None /\ m.fCnt < group[m.g].fCnt
    BY <1>9, <2>1 DEF IInv, Typed, Messages, MulticastQueueItem, Transmission, CounterInv
  <2>2. q.g \notin setBack' => q.fCnt < next /\ q.mg.fCnt < next
    BY <1>2, <1>3, <1>4 DEF MulticastGroup
  <2>3. ASSUME NEW m \in Messages', m.g \notin setBack'
        PROVE  group'[m.g] # None /\ m.fCnt < group'[m.g].fCnt
    <3>1. CASE m \in N
      BY <1>3, <1>5, <1>7, <1>13, <2>2, <2>3, <3>1
    <3>2. CASE m \in Messages /\ m.g = q.g
      <4>1. m.fCnt < q.mg.fCnt /\ m.fCnt \in Nat /\ q.mg.fCnt < next
        BY <1>3, <2>1, <2>2, <2>3, <3>2
      <4>2. q.mg.fCnt \in Nat /\ next \in Nat
        BY <1>3, <1>4 DEF MulticastGroup
      <4> QED
        BY <1>3, <1>5, <1>7, <3>2, <4>1, <4>2
    <3>3. CASE m \in Messages /\ m.g # q.g
      BY <1>7, <2>1, <2>3, <3>3
    <3> QED
      BY <1>12, <3>1, <3>2, <3>3
  <2>4. ASSUME NEW m \in Messages, NEW o \in N, m.g = o.g, m.g \notin setBack' PROVE m.fCnt # o.fCnt
    <3>1. m.fCnt < q.mg.fCnt /\ m.fCnt \in Nat /\ o.fCnt = q.fCnt
      BY <1>3, <1>13, <2>1, <2>4
    <3>2. q.mg.fCnt \in Nat /\ q.fCnt \in Nat
      BY <1>3 DEF MulticastGroup
    <3> QED
      BY <1>3, <3>1, <3>2
  <2>5. CounterFresh'
    <3> SUFFICES ASSUME NEW m \in Messages', NEW o \in Messages',
                        m.g = o.g, m.g \notin setBack', m.fCnt = o.fCnt
                 PROVE  m.pl = o.pl
      BY DEF CounterFresh
    <3>1. CASE m \in N /\ o \in N
      BY <1>13, <3>1
    <3>2. CASE m \in Messages /\ o \in N
      BY <2>4, <3>2
    <3>3. CASE m \in N /\ o \in Messages
      BY <2>4, <3>3
    <3>4. CASE m \in Messages /\ o \in Messages
      BY <1>9, <3>4 DEF IInv, CounterInv, CounterFresh
    <3> QED
      BY <1>12, <3>1, <3>2, <3>3, <3>4
  <2> QED
    BY <2>3, <2>5 DEF CounterInv
<1>18. RowsSpaced'
  <2> SUFFICES ASSUME NEW g \in Groups, NEW r \in queue', NEW o \in queue', r.g = g, o.g = g, r.id < o.id
               PROVE  Apart(r.at, r.emit, o.at, o.emit)
    BY DEF RowsSpaced, Items, Apart
  <2>1. CASE r \in queue /\ o \in queue
    BY <2>1 DEF IInv, RowsSpaced, Items, Apart
  <2>2. CASE r \in N /\ o \in N
    BY <1>1, <2>2 DEF Inserted
  <2>3. CASE r \in queue /\ o \in N
    <3>1. r \in Items(q.g)
      BY <1>13, <2>3 DEF Items
    <3> QED
      BY <1>1, <2>3, <3>1 DEF Inserted
  <2>4. CASE r \in N /\ o \in queue
    <3>1. o.id < nextId /\ o.id \in Nat
      BY <1>14, <2>4 DEF Messages
    <3> QED
      BY <1>10, <1>13, <2>4, <3>1
  <2> QED
    BY <1>1, <2>1, <2>2, <2>3, <2>4
<1> QED
  BY <1>8, <1>11, <1>15, <1>16, <1>17, <1>18 DEF IInv

\* What "for update skip locked" returns: rows that are due and that nobody has
\* locked.
LEMMA SelectEffect ==
    ASSUME IInv, NEW s \in Schedulers, GetSchedulableMulticastQueueItems(s)
    PROVE  \E first \in Seq(MulticastQueueItem) :
               /\ batch' = [batch EXCEPT ![s] = first]
               /\ locked' = [locked EXCEPT ![s] = Ids(Range(first))]
               /\ Range(first) \subseteq queue
               /\ Ids(Range(first)) \cap LockedBy(Schedulers) = {}
<1> DEFINE due == {r \in queue : r.at <= now /\ r.id \notin LockedBy(Schedulers)}
<1>1. PICK items \in SetToSeqs(due) :
          LET first == SubSeq(items, 1, Min({BatchSize, Len(items)}))
          IN  /\ batch' = [batch EXCEPT ![s] = first]
              /\ locked' = [locked EXCEPT ![s] = Ids(Range(first))]
  BY DEF GetSchedulableMulticastQueueItems
<1> DEFINE k == Min({BatchSize, Len(items)})
           first == SubSeq(items, 1, k)
<1>2. IsFiniteSet(due)
  BY QueueFinite, FS_Subset DEF IInv
<1>3. due \subseteq queue /\ \A r \in due : r.id \notin LockedBy(Schedulers)
  OBVIOUS
<1> HIDE DEF due
<1>4. items \in Seq(due)
  BY <1>2, SeqsOK
<1>5. k \in 0 .. Len(items)
  <2>1. Len(items) \in Nat /\ BatchSize \in Nat
    BY <1>4, Constants
  <2>2. {BatchSize, Len(items)} \in SUBSET Nat /\ {BatchSize, Len(items)} # {}
    BY <2>1
  <2>3. k \in {BatchSize, Len(items)} /\ k <= Len(items)
    BY <2>2, MinOK
  <2> QED
    BY <2>1, <2>3
<1> HIDE DEF k
<1>6. first \in Seq(due) /\ Range(first) \subseteq due
  <2>1. first \in Seq(due)
    BY <1>4, <1>5
  <2> QED
    BY <2>1 DEF Range
<1>7. batch' = [batch EXCEPT ![s] = first] /\ locked' = [locked EXCEPT ![s] = Ids(Range(first))]
  BY <1>1 DEF k
<1> HIDE DEF first
<1>8. first \in Seq(MulticastQueueItem)
  <2>1. due \subseteq MulticastQueueItem
    BY <1>3 DEF IInv, Typed
  <2> QED
    BY <1>6, <2>1
<1>9. Ids(Range(first)) \cap LockedBy(Schedulers) = {}
  BY <1>3, <1>6 DEF Ids
<1> QED
  BY <1>3, <1>6, <1>7, <1>8, <1>9

\* A scheduler that selects and locks its batch
LEMMA SelectOK ==
    ASSUME IInv, NEW s \in Schedulers, GetSchedulableMulticastQueueItems(s)
    PROVE  IInv'
<1> USE DEF db, api, history
<1>1. PICK first \in Seq(MulticastQueueItem) :
          /\ batch' = [batch EXCEPT ![s] = first]
          /\ locked' = [locked EXCEPT ![s] = Ids(Range(first))]
          /\ Range(first) \subseteq queue
          /\ Ids(Range(first)) \cap LockedBy(Schedulers) = {}
  BY SelectEffect
<1>2. /\ locked[s] = {}
      /\ UNCHANGED <<now, group, members, queue, nextId, rxInfo, rowLock, call, discarded,
                     sent, flushed, setBack, faults, changes>>
  BY DEF GetSchedulableMulticastQueueItems
<1>3. \A t \in Schedulers : /\ batch'[t] = IF t = s THEN first ELSE batch[t]
                            /\ locked'[t] = IF t = s THEN Ids(Range(first)) ELSE locked[t]
  BY <1>1 DEF IInv, Typed
<1>4. \A r \in queue : r.id \in 1 .. MaxId /\ r.id < nextId
  BY DEF IInv, Typed, MulticastQueueItem, Fresh, Messages
<1>5. \A i \in Ids(Range(first)) : i \in 1 .. MaxId /\ i < nextId
  BY <1>1, <1>4 DEF Ids
<1>6. Typed'
  BY <1>1, <1>2, <1>5 DEF IInv, Typed, CallOK
<1>7. Messages' = Messages
  BY <1>2 DEF Messages
<1>8. Fresh'
  BY <1>2, <1>3, <1>5, <1>7 DEF IInv, Fresh
<1>9. LockInv' /\ FlushInv' /\ CounterInv' /\ RowsSpaced'
  BY <1>2, <1>7 DEF IInv, LockInv, FlushInv, CounterInv, CounterFresh, RowsSpaced, Items
<1>10. BatchInv'
  <2>1. discarded[s] = {}
    BY <1>2 DEF IInv, BatchInv
  <2>2. \A t \in Schedulers : locked[t] \cap Ids(Range(first)) = {}
    BY <1>1 DEF LockedBy
  <2>3. ASSUME NEW t \in Schedulers
        PROVE  /\ Range(batch'[t]) \subseteq queue'
               /\ Ids(Range(batch'[t])) \subseteq locked'[t]
               /\ discarded'[t] \subseteq locked'[t]
               /\ \A r \in queue' : r.id \in discarded'[t] => r.pl \in Large
    BY <1>1, <1>2, <1>3, <2>1 DEF IInv, BatchInv
  <2>4. \A t, u \in Schedulers : t # u => locked'[t] \cap locked'[u] = {}
    BY <1>3, <2>2 DEF IInv, BatchInv
  <2> QED
    BY <1>2, <2>3, <2>4 DEF IInv, BatchInv
<1> QED
  BY <1>6, <1>8, <1>9, <1>10 DEF IInv

\* The rest of a batch is part of the batch.
LEMMA HandledOK ==
    ASSUME IInv, NEW s \in Schedulers, Handled(s)
    PROVE  /\ batch' \in [Schedulers -> Seq(MulticastQueueItem)]
           /\ \A t \in Schedulers : Range(batch'[t]) \subseteq Range(batch[t])
           /\ Head(batch[s]) \in Range(batch[s]) /\ Head(batch[s]) \in queue
           /\ Head(batch[s]).id \in locked[s]
<1>1. /\ batch[s] # <<>> /\ batch' = [batch EXCEPT ![s] = Tail(batch[s])]
      /\ batch \in [Schedulers -> Seq(MulticastQueueItem)]
  BY DEF Handled, IInv, Typed
<1>2. batch[s] \in Seq(MulticastQueueItem) /\ Len(batch[s]) \in Nat /\ Len(batch[s]) # 0
  BY <1>1
<1>3. Tail(batch[s]) \in Seq(MulticastQueueItem) /\ Len(Tail(batch[s])) = Len(batch[s]) - 1
  BY <1>1, <1>2
<1>4. Range(Tail(batch[s])) \subseteq Range(batch[s])
  <2>1. ASSUME NEW i \in DOMAIN Tail(batch[s])
        PROVE  i + 1 \in DOMAIN batch[s] /\ Tail(batch[s])[i] = batch[s][i + 1]
    BY <1>1, <1>2, <1>3
  <2> QED
    BY <2>1 DEF Range
<1>5. Head(batch[s]) \in Range(batch[s])
  <2>1. 1 \in DOMAIN batch[s] /\ Head(batch[s]) = batch[s][1]
    BY <1>1, <1>2
  <2> QED
    BY <2>1 DEF Range
<1>6. Head(batch[s]) \in queue /\ Head(batch[s]).id \in locked[s]
  BY <1>5 DEF IInv, BatchInv, Ids
<1> QED
  BY <1>1, <1>3, <1>4, <1>5, <1>6

\* A queue-item that is too large
LEMMA DiscardOK ==
    ASSUME IInv, NEW s \in Schedulers, DiscardQueueItem(s)
    PROVE  IInv'
<1> USE DEF db, api, history
<1> DEFINE r == Head(batch[s])
<1>1. /\ batch' \in [Schedulers -> Seq(MulticastQueueItem)]
      /\ \A t \in Schedulers : Range(batch'[t]) \subseteq Range(batch[t])
      /\ r \in queue /\ r.id \in locked[s]
  BY HandledOK DEF DiscardQueueItem
<1>2. /\ discarded' = [discarded EXCEPT ![s] = discarded[s] \cup {r.id}] /\ r.pl \in Large
      /\ UNCHANGED <<now, group, members, queue, nextId, rxInfo, rowLock, call, locked,
                     sent, flushed, setBack, faults, changes>>
  BY DEF DiscardQueueItem, TooLarge
<1> HIDE DEF r
<1>3. \A t \in Schedulers : discarded'[t] = IF t = s THEN discarded[s] \cup {r.id} ELSE discarded[t]
  BY <1>2 DEF IInv, Typed
<1>4. Typed'
  <2>1. discarded' \in [Schedulers -> SUBSET (1 .. MaxId)]
    <3>1. discarded \in [Schedulers -> SUBSET (1 .. MaxId)] /\ r.id \in 1 .. MaxId
      BY <1>1 DEF IInv, Typed, MulticastQueueItem
    <3> QED
      BY <1>2, <3>1
  <2> QED
    BY <1>1, <1>2, <2>1 DEF IInv, Typed, CallOK
<1>5. Messages' = Messages
  BY <1>2 DEF Messages
<1>6. Fresh' /\ LockInv' /\ FlushInv' /\ CounterInv' /\ RowsSpaced'
  BY <1>2, <1>5 DEF IInv, Fresh, LockInv, FlushInv, CounterInv, CounterFresh, RowsSpaced, Items
<1>7. BatchInv'
  <2>1. \A o \in queue : o.id = r.id => o = r
    BY <1>1 DEF IInv, Fresh, Messages
  <2>2. ASSUME NEW t \in Schedulers
        PROVE  /\ Range(batch'[t]) \subseteq queue'
               /\ Ids(Range(batch'[t])) \subseteq locked'[t]
               /\ discarded'[t] \subseteq locked'[t]
               /\ \A o \in queue' : o.id \in discarded'[t] => o.pl \in Large
    <3>1. /\ Range(batch[t]) \subseteq queue /\ Ids(Range(batch[t])) \subseteq locked[t]
          /\ discarded[t] \subseteq locked[t]
          /\ \A o \in queue : o.id \in discarded[t] => o.pl \in Large
      BY DEF IInv, BatchInv
    <3>2. Ids(Range(batch'[t])) \subseteq Ids(Range(batch[t]))
      BY <1>1 DEF Ids
    <3> QED
      BY <1>1, <1>2, <1>3, <2>1, <3>1, <3>2
  <2> QED
    BY <1>2, <2>2 DEF IInv, BatchInv
<1> QED
  BY <1>4, <1>6, <1>7 DEF IInv

\* A frame that is handed to the gateway: its item is a row of the queue.
LEMMA HandleOK ==
    ASSUME IInv, NEW s \in Schedulers, HandleScheduleQueueItem(s)
    PROVE  IInv'
<1> USE DEF db, api, history
<1> DEFINE r == Head(batch[s])
           frame == [item |-> r, key |-> group[r.g].key]
<1>1. /\ batch' \in [Schedulers -> Seq(MulticastQueueItem)]
      /\ \A t \in Schedulers : Range(batch'[t]) \subseteq Range(batch[t])
      /\ r \in queue
  BY HandledOK DEF HandleScheduleQueueItem
<1>2. /\ sent' = sent \cup {frame}
      /\ UNCHANGED <<now, group, members, queue, nextId, rxInfo, rowLock, call, locked,
                     discarded, flushed, setBack, faults, changes>>
  BY DEF HandleScheduleQueueItem, SelectGroup
<1>3. Typed'
  <2>1. r \in MulticastQueueItem /\ group[r.g] \in MulticastGroup
    BY <1>1 DEF IInv, Typed, BatchInv, MulticastQueueItem
  <2>2. frame \in Transmission
    BY <2>1 DEF Transmission, MulticastGroup
  <2>3. sent' \subseteq Transmission
    BY <1>2, <2>2 DEF IInv, Typed
  <2> QED
    BY <1>1, <1>2, <2>3 DEF IInv, Typed, CallOK
<1>4. Messages' = Messages
  <2>1. frame.item = r
    OBVIOUS
  <2> HIDE DEF r, frame
  <2>2. ASSUME NEW m PROVE m \in Messages' <=> m \in Messages
    BY <1>1, <1>2, <2>1 DEF Messages
  <2> QED
    BY <2>2
<1>5. Fresh' /\ LockInv' /\ FlushInv' /\ CounterInv' /\ RowsSpaced'
  BY <1>2, <1>4 DEF IInv, Fresh, LockInv, FlushInv, CounterInv, CounterFresh, RowsSpaced, Items
<1>6. BatchInv'
  BY <1>1, <1>2 DEF IInv, BatchInv, Ids
<1> QED
  BY <1>3, <1>5, <1>6 DEF IInv

\* A frame that could not be handed over
LEMMA ScheduleFailsOK ==
    ASSUME IInv, NEW s \in Schedulers, ScheduleFails(s)
    PROVE  IInv'
<1> USE DEF ScheduleFails, db, api, history
<1>1. /\ batch' \in [Schedulers -> Seq(MulticastQueueItem)]
      /\ \A t \in Schedulers : Range(batch'[t]) \subseteq Range(batch[t])
  BY HandledOK
<1>2. Typed'
  <2>1. faults \in 0 .. MaxFaults /\ MaxFaults \in Nat
    BY Constants DEF IInv, Typed
  <2>2. faults' \in 0 .. MaxFaults
    BY <2>1
  <2> QED
    BY <1>1, <2>2 DEF IInv, Typed, CallOK
<1>3. Messages' = Messages
  BY DEF Messages
<1>4. Fresh' /\ LockInv' /\ FlushInv' /\ CounterInv' /\ RowsSpaced'
  BY <1>3 DEF IInv, Fresh, LockInv, FlushInv, CounterInv, CounterFresh, RowsSpaced, Items
<1>5. BatchInv'
  BY <1>1 DEF IInv, BatchInv, Ids
<1> QED
  BY <1>2, <1>4, <1>5 DEF IInv

\* The end of a batch, which removes at most the rows it has locked
LEMMA EndBatchOK ==
    ASSUME IInv, NEW s \in Schedulers, EndBatch(s), queue' \subseteq queue,
           \A r \in queue : r.id \notin locked[s] => r \in queue',
           UNCHANGED <<group, members, nextId, rxInfo, api, history, changes, now>>,
           faults' \in 0 .. MaxFaults
    PROVE  IInv'
<1> USE DEF api, history
<1>1. /\ batch' = [batch EXCEPT ![s] = <<>>] /\ locked' = [locked EXCEPT ![s] = {}]
      /\ discarded' = [discarded EXCEPT ![s] = {}]
  BY DEF EndBatch
<1>2. \A t \in Schedulers : /\ batch'[t] = IF t = s THEN <<>> ELSE batch[t]
                            /\ locked'[t] = IF t = s THEN {} ELSE locked[t]
                            /\ discarded'[t] = IF t = s THEN {} ELSE discarded[t]
  BY <1>1 DEF IInv, Typed
<1>3. Typed'
  BY <1>1 DEF IInv, Typed, CallOK
<1>4. Fresh' /\ RowsSpaced' /\ Messages' \subseteq Messages
  BY <1>2, RemovalOK
<1>5. LockInv' /\ FlushInv' /\ CounterInv'
  BY <1>4 DEF IInv, LockInv, FlushInv, CounterInv, CounterFresh
<1>6. BatchInv'
  <2>1. ASSUME NEW t \in Schedulers
        PROVE  /\ Range(batch'[t]) \subseteq queue'
               /\ Ids(Range(batch'[t])) \subseteq locked'[t]
               /\ discarded'[t] \subseteq locked'[t]
               /\ \A r \in queue' : r.id \in discarded'[t] => r.pl \in Large
    <3>1. CASE t = s
      <4>1. Range(batch'[t]) = {} /\ locked'[t] = {} /\ discarded'[t] = {}
        BY <1>2, <3>1 DEF Range
      <4> QED
        BY <4>1 DEF Ids
    <3>2. CASE t # s
      <4>1. batch'[t] = batch[t] /\ locked'[t] = locked[t] /\ discarded'[t] = discarded[t]
        BY <1>2, <3>2
      <4>2. /\ Range(batch[t]) \subseteq queue /\ Ids(Range(batch[t])) \subseteq locked[t]
            /\ discarded[t] \subseteq locked[t] /\ locked[t] \cap locked[s] = {}
            /\ \A r \in queue : r.id \in discarded[t] => r.pl \in Large
        BY <3>2 DEF IInv, BatchInv
      <4>3. \A r \in Range(batch[t]) : r \in queue'
        BY <4>2 DEF Ids
      <4> QED
        BY <4>1, <4>2, <4>3
    <3> QED
      BY <3>1, <3>2
  <2>2. \A t, u \in Schedulers : t # u => locked'[t] \cap locked'[u] = {}
    BY <1>2 DEF IInv, BatchInv
  <2>3. \A r \in queue' : group'[r.g] # None
    BY DEF IInv, BatchInv
  <2> QED
    BY <2>1, <2>2, <2>3 DEF BatchInv
<1> QED
  BY <1>3, <1>4, <1>5, <1>6 DEF IInv

\* A batch that commits deletes what it has discarded.
LEMMA CommitOK ==
    ASSUME IInv, NEW s \in Schedulers, CommitBatch(s)
    PROVE  IInv'
<1>1. /\ EndBatch(s) /\ queue' = {r \in queue : r.id \notin discarded[s]}
      /\ UNCHANGED <<group, members, nextId, rxInfo, api, history, changes, now, faults>>
  BY DEF CommitBatch
<1>2. faults' \in 0 .. MaxFaults /\ discarded[s] \subseteq locked[s]
  BY <1>1 DEF IInv, Typed, BatchInv
<1>3. queue' \subseteq queue /\ \A r \in queue : r.id \notin locked[s] => r \in queue'
  BY <1>1, <1>2
<1> QED
  BY <1>1, <1>2, <1>3, EndBatchOK

\* A batch that is rolled back deletes nothing.
LEMMA CrashOK ==
    ASSUME IInv, NEW s \in Schedulers, CrashBatch(s)
    PROVE  IInv'
<1>1. EndBatch(s) /\ UNCHANGED <<group, members, nextId, queue, rxInfo, api, history, changes, now>>
  BY DEF CrashBatch, db
<1>2. faults' \in 0 .. MaxFaults
  <2>1. faults \in 0 .. MaxFaults /\ MaxFaults \in Nat
    BY Constants DEF IInv, Typed
  <2> QED
    BY <2>1 DEF CrashBatch
<1>3. queue' \subseteq queue /\ \A r \in queue : r.id \notin locked[s] => r \in queue'
  BY <1>1
<1> QED
  BY <1>1, <1>2, <1>3, EndBatchOK

\* An acknowledgement deletes a row that nobody has locked.
LEMMA AckOK ==
    ASSUME IInv, NEW frame \in sent, HandleDownlinkTXAck(frame)
    PROVE  IInv'
<1> USE DEF HandleDownlinkTXAck, api, scheduler, history
<1>1. frame.item.id \notin LockedBy(Schedulers) /\ queue' = queue \ {frame.item}
  BY DEF DeleteQueueItem
<1>2. Typed'
  BY <1>1 DEF IInv, Typed, CallOK
<1>3. Fresh' /\ RowsSpaced' /\ Messages' \subseteq Messages
  BY <1>1, RemovalOK
<1>4. LockInv' /\ FlushInv' /\ CounterInv'
  BY <1>3 DEF IInv, LockInv, FlushInv, CounterInv, CounterFresh
<1>5. BatchInv'
  <2>1. ASSUME NEW s \in Schedulers, NEW r \in Range(batch[s]) PROVE r \in queue'
    <3>1. r \in queue /\ r.id \in locked[s]
      BY DEF IInv, BatchInv, Ids
    <3>2. r # frame.item
      BY <1>1, <3>1 DEF LockedBy
    <3> QED
      BY <1>1, <3>1, <3>2
  <2> QED
    BY <1>1, <2>1 DEF IInv, BatchInv
<1> QED
  BY <1>2, <1>3, <1>4, <1>5 DEF IInv

\* Every step keeps the invariant.
LEMMA NextIInv == IInv /\ [Next]_vars => IInv'
<1> SUFFICES ASSUME IInv, [Next]_vars PROVE IInv'
  OBVIOUS
<1>1. CASE Tick
  BY <1>1, TickOK
<1>2. CASE \E d \in Devices, rx \in Receptions : SaveDeviceGatewayRXInfoSet(d, rx)
  BY <1>2, RXInfoOK
<1>3. CASE GroupAPI
  BY <1>3, CreateOK, UpdateOK, DeleteOK, MembersOK DEF GroupAPI
<1>4. CASE QueueAPI
  BY <1>4, FlushOK, FlushDeletesOK, EnqueueOK, EnqueueCommitsOK, EnqueueFailsOK DEF QueueAPI
<1>5. CASE \E s \in Schedulers : Schedule(s) \/ CrashBatch(s)
  BY <1>5, SelectOK, DiscardOK, HandleOK, ScheduleFailsOK, CommitOK, CrashOK DEF Schedule
<1>6. CASE \E frame \in sent : HandleDownlinkTXAck(frame)
  BY <1>6, AckOK
<1>7. CASE UNCHANGED vars
  BY <1>7, StutterOK
<1> QED
  BY <1>1, <1>2, <1>3, <1>4, <1>5, <1>6, <1>7 DEF Next

\* The inductive invariant holds in every reachable state.
THEOREM Invariance == Spec => []IInv
BY InitIInv, NextIInv, PTL DEF Spec

-----------------------------------------------------------------------------
(* The theorems *)

\* The state has its type and the transactions hold the rows that they use.
THEOREM TypeCorrect == Spec => []TypeOK
<1>1. IInv => TypeOK
  <2> SUFFICES ASSUME IInv PROVE TypeOK
    OBVIOUS
  <2>1. Cardinality(Ids(queue)) = Cardinality(queue)
    BY QueueFinite DEF IInv
  <2>2. \A c \in Clients : call[c].op \in {"none", "flush", "enqueue"}
    BY DEF IInv, Typed, CallOK
  <2> QED
    BY <2>1, <2>2 DEF IInv, Typed, LockInv, BatchInv, TypeOK
<1> QED
  BY <1>1, Invariance, PTL

\* No frame-counter of a group is used for two payloads unless the API has set
\* the counter back (EnqueueQueueItem).
THEOREM CounterNeverReused == Spec => []CounterFresh
<1>1. IInv => CounterFresh
  BY DEF IInv, CounterInv
<1> QED
  BY <1>1, Invariance, PTL

\* The transmissions of a group never collide (EnqueueQueueItem).
THEOREM RowsApart == Spec => []RowsSpaced
<1>1. IInv => RowsSpaced
  BY DEF IInv
<1> QED
  BY <1>1, Invariance, PTL

\* The rows of a batch and their groups stay until the scheduler has handled
\* them (ScheduleMulticastQueueBatch).
THEOREM BatchKept == Spec => []BatchIntact
<1>1. IInv => BatchIntact
  BY DEF IInv, BatchInv, BatchIntact
<1> QED
  BY <1>1, Invariance, PTL

\* A message is enqueued for a gateway of every member (GetMinimumGatewaySet).
THEOREM EveryMemberCovered == Spec => Covered
<1> DEFINE Step == \A c \in Clients :
        (call[c].op = "enqueue" /\ nextId' > nextId /\ call'[c] = NoCall) =>
            \A d \in members[call[c].g] :
                LET rx == rxInfo[d]
                IN  DOMAIN rx # {} =>
                        \E r \in queue' \ queue :
                            /\ r.w \in DOMAIN rx
                            /\ (\E w \in DOMAIN rx : rx[w] = "ok") => rx[r.w] = "ok"
<1>1. ASSUME IInv, [Next]_vars PROVE [Step]_vars
  <2> SUFFICES ASSUME Next,
                      NEW c \in Clients, call[c].op = "enqueue", nextId' > nextId, call'[c] = NoCall,
                      NEW d \in members[call[c].g], DOMAIN rxInfo[d] # {}
               PROVE  \E r \in queue' \ queue :
                          /\ r.w \in DOMAIN rxInfo[d]
                          /\ (\E w \in DOMAIN rxInfo[d] : rxInfo[d][w] = "ok") => rxInfo[d][r.w] = "ok"
    BY <1>1
  <2>1. nextId' # nextId
    <3>1. nextId \in Nat
      BY <1>1, Constants DEF IInv, Typed
    <3> QED
      BY <3>1
  <2>2. PICK e \in Clients : EnqueueCommits(e)
    BY <2>1 DEF Next, Tick, SaveDeviceGatewayRXInfoSet, GroupAPI, CreateMulticastGroup,
         UpdateMulticastGroup, DeleteMulticastGroup, AddDeviceToMulticastGroup,
         RemoveDeviceFromMulticastGroup, QueueAPI, FlushMulticastQueueForMulticastGroup,
         EnqueueMulticastQueueItem, FlushDeletes, EnqueueFails, Schedule,
         GetSchedulableMulticastQueueItems, DiscardQueueItem, HandleScheduleQueueItem,
         ScheduleFails, CommitBatch, CrashBatch, HandleDownlinkTXAck, db
  <2>3. e = c
    <3>1. call' = [call EXCEPT ![e] = NoCall]
      BY <2>2 DEF EnqueueCommits, Release
    <3>2. call[c] # NoCall
      BY DEF NoCall
    <3> QED
      BY <3>1, <3>2 DEF IInv, Typed
  <2>4. PICK N \in SUBSET MulticastQueueItem, n \in Nat :
            /\ Inserted(N, call[c], n)
            /\ queue' = queue \cup N
            /\ \A b \in members[call[c].g] : DOMAIN rxInfo[b] # {} =>
                   \E r \in N : r.w \in DeviceEdges(rxInfo[b])
    BY <1>1, <2>2, <2>3, EnqueueEffect
  <2>5. PICK r \in N : r.w \in DeviceEdges(rxInfo[d])
    BY <2>4
  <2>6. r \in queue' \ queue
    <3>1. r.id >= nextId
      BY <2>4, <2>5 DEF Inserted
    <3>2. \A o \in queue : o.id < nextId /\ o.id \in Nat
      BY <1>1 DEF IInv, Fresh, Messages, Typed, MulticastQueueItem
    <3>3. nextId \in Nat
      BY <1>1, Constants DEF IInv, Typed
    <3> QED
      BY <2>4, <2>5, <3>1, <3>2, <3>3
  <2> QED
    BY <2>5, <2>6 DEF DeviceEdges
<1>2. IInv /\ [Next]_vars => [Step]_vars
  BY <1>1
<1>3. Covered <=> [][Step]_vars
  BY DEF Covered
<1> HIDE DEF Step
<1> QED
  BY <1>2, <1>3, Invariance, PTL DEF Spec

-----------------------------------------------------------------------------
(* The refinement.  An enqueue is accepted when it commits, and a flush is  *)
(* requested when its snapshot is taken.                                    *)

\* The state of the abstract specification
Counter == [g \in Groups |-> IF group[g] = None THEN None ELSE group[g].fCnt]
Outbox == {Message(r) : r \in queue}
Aired == {Message(t.item) : t \in sent}
Doomed == {Message(r) : r \in flushed}

\* Messages have the ids of their rows.
LEMMA MessageOK ==
    ASSUME NEW r
    PROVE  /\ Message(r).id = r.id /\ Message(r).g = r.g /\ Message(r).w = r.w
           /\ Message(r).fCnt = r.fCnt /\ Message(r).pl = r.pl
BY DEF Message

\* A step that changes neither groups nor messages stutters.
LEMMA StutterRefined ==
    ASSUME UNCHANGED <<group, queue, sent, flushed>>
    PROVE  UNCHANGED Service!vars
BY DEF Service!vars

\* A change of the settings of a group is a Configure.
LEMMA ConfigureRefined ==
    ASSUME IInv, NEW g \in Groups, NEW mg \in Settings,
           group' = [group EXCEPT ![g] = mg], UNCHANGED <<queue, sent, flushed>>
    PROVE  Service!Next
<1>1. mg \in MulticastGroup /\ mg # None /\ mg.fCnt \in 0 .. FCntSize - 1
  BY Constants DEF MulticastGroup
<1>2. group \in [Groups -> MulticastGroup \cup {None}]
  BY DEF IInv, Typed
<1>3. Counter' = [Counter EXCEPT ![g] = mg.fCnt]
  BY <1>1, <1>2 DEF Counter
<1>4. Outbox' = Outbox /\ Aired' = Aired /\ Doomed' = Doomed
  BY DEF Outbox, Aired, Doomed
<1>5. mg.fCnt # None
  BY <1>1, Constants
<1>6. Service!Configure(g, mg.fCnt)
  BY <1>3, <1>4, <1>5 DEF Service!Configure, Counter, Outbox, Aired, Doomed
<1> QED
  BY <1>1, <1>6 DEF Service!Next

\* The deletion of a group is a Configure that takes its messages along.
LEMMA DeleteRefined ==
    ASSUME IInv, NEW g \in Groups, DeleteMulticastGroup(g)
    PROVE  Service!Next
<1>1. /\ group' = [group EXCEPT ![g] = None] /\ queue' = queue \ Items(g)
      /\ UNCHANGED <<sent, flushed>>
  BY DEF DeleteMulticastGroup, DeleteGroup
<1>2. group \in [Groups -> MulticastGroup \cup {None}]
  BY DEF IInv, Typed
<1>3. Counter' = [Counter EXCEPT ![g] = None]
  BY <1>1, <1>2 DEF Counter
<1>4. Aired' = Aired /\ Doomed' = Doomed
  BY <1>1 DEF Aired, Doomed
<1>5. Outbox' = {m \in Outbox : m.g # g}
  <2>1. Outbox' = {Message(r) : r \in queue'}
    BY DEF Outbox, Message
  <2>2. \A r \in queue : r \in queue' <=> r.g # g
    BY <1>1 DEF Items
  <2>3. queue' \subseteq queue
    BY <1>1
  <2> QED
    BY <2>1, <2>2, <2>3, MessageOK DEF Outbox
<1>6. Service!Configure(g, None)
  BY <1>3, <1>4, <1>5 DEF Service!Configure, Counter, Outbox, Aired, Doomed
<1> QED
  BY <1>6 DEF Service!Next

\* The snapshot of a flush
LEMMA FlushRefined ==
    ASSUME IInv, NEW c \in Clients, NEW g \in Groups, FlushMulticastQueueForMulticastGroup(c, g)
    PROVE  Service!Next
<1>1. flushed' = flushed \cup Items(g) /\ UNCHANGED <<group, queue, sent>>
  BY DEF FlushMulticastQueueForMulticastGroup, db
<1>2. Counter' = Counter /\ Outbox' = Outbox /\ Aired' = Aired
  BY <1>1 DEF Counter, Outbox, Aired
<1>3. Doomed' = Doomed \cup {m \in Outbox : m.g = g}
  <2>1. Doomed' = {Message(r) : r \in flushed'}
    BY DEF Doomed, Message
  <2>2. \A r : r \in Items(g) <=> r \in queue /\ r.g = g
    BY DEF Items
  <2> QED
    BY <1>1, <2>1, <2>2, MessageOK DEF Doomed, Outbox
<1>4. Service!Flush(g)
  BY <1>2, <1>3 DEF Service!Flush, Counter, Outbox, Aired, Doomed
<1> QED
  BY <1>4 DEF Service!Next

\* The rows that leave the queue were transmitted, flushed or are too large.
LEMMA RemoveRefined ==
    ASSUME IInv, queue' \subseteq queue, UNCHANGED <<group, sent, flushed>>,
           \A r \in queue \ queue' : r \in flushed \/ (\E t \in sent : t.item = r) \/ r.pl \in Large
    PROVE  Service!Next
<1>1. Counter' = Counter /\ Aired' = Aired /\ Doomed' = Doomed
  BY DEF Counter, Aired, Doomed
<1>2. Outbox' = {Message(r) : r \in queue'}
  BY DEF Outbox, Message
<1>3. Outbox' = Outbox \ (Outbox \ Outbox')
  BY <1>2 DEF Outbox
<1>4. ASSUME NEW m \in Outbox \ Outbox' PROVE m \in Aired \cup Doomed \/ m.pl \in Large
  <2>1. PICK r \in queue : m = Message(r)
    BY DEF Outbox
  <2>2. r \notin queue'
    BY <1>2, <1>4, <2>1
  <2> QED
    BY <2>1, <2>2, MessageOK DEF Aired, Doomed
<1>5. Service!Remove(Outbox \ Outbox')
  BY <1>1, <1>3, <1>4 DEF Service!Remove, Counter, Outbox, Aired, Doomed
<1> QED
  BY <1>5 DEF Service!Next, Outbox

\* A frame handed to a gateway
LEMMA TransmitRefined ==
    ASSUME IInv, NEW s \in Schedulers, HandleScheduleQueueItem(s)
    PROVE  Service!Next
<1> DEFINE r == Head(batch[s])
           frame == [item |-> r, key |-> group[r.g].key]
<1>1. sent' = sent \cup {frame} /\ UNCHANGED <<group, queue, flushed>>
  BY DEF HandleScheduleQueueItem, SelectGroup, db
<1>2. r \in queue /\ frame.item = r
  BY HandledOK DEF HandleScheduleQueueItem
<1> HIDE DEF r, frame
<1>3. Counter' = Counter /\ Outbox' = Outbox /\ Doomed' = Doomed
  BY <1>1 DEF Counter, Outbox, Doomed
<1>4. Aired' = Aired \cup {Message(r)}
  <2>1. Aired' = {Message(t.item) : t \in sent'}
    BY DEF Aired, Message
  <2> QED
    BY <1>1, <1>2, <2>1 DEF Aired
<1>5. Message(r) \in Outbox
  BY <1>2 DEF Outbox
<1>6. Service!Transmit(Message(r))
  BY <1>3, <1>4, <1>5 DEF Service!Transmit, Counter, Outbox, Aired, Doomed
<1> QED
  BY <1>5, <1>6 DEF Service!Next, Outbox

\* The commit of an enqueue accepts its message.
LEMMA AcceptRefined ==
    ASSUME IInv, NEW c \in Clients, EnqueueCommits(c)
    PROVE  Service!Next
<1> DEFINE q == call[c]
           next == (q.fCnt + 1) % FCntSize
           mg == [q.mg EXCEPT !.fCnt = next]
           new == Outbox' \ Outbox
<1>1. PICK N \in SUBSET MulticastQueueItem, n \in Nat :
          Inserted(N, q, n) /\ queue' = queue \cup N
  BY EnqueueEffect
<1>2. q.op = "enqueue" /\ group' = [group EXCEPT ![q.g] = mg] /\ UNCHANGED <<sent, flushed>>
  BY DEF EnqueueCommits, UpdateGroup
<1>3. /\ q.g \in Groups /\ q.fCnt \in 0 .. FCntSize - 1 /\ q.mg \in MulticastGroup
      /\ group[q.g] = q.mg /\ q.mg.fCnt <= q.fCnt
  BY <1>2 DEF IInv, Typed, CallOK, LockInv
<1>4. group \in [Groups -> MulticastGroup \cup {None}]
  BY DEF IInv, Typed
<1>5. next \in 0 .. FCntSize - 1
  BY <1>3, Constants
<1> HIDE DEF q, next
<1>6. mg \in MulticastGroup /\ mg # None /\ mg.fCnt = next
  BY <1>3, <1>5, Constants DEF MulticastGroup
<1> HIDE DEF mg
<1>7. Counter' = [Counter EXCEPT ![q.g] = next]
  BY <1>2, <1>3, <1>4, <1>6 DEF Counter
<1>8. Counter[q.g] = q.mg.fCnt /\ Counter[q.g] # None /\ q.fCnt >= Counter[q.g]
  <2>1. q.mg # None /\ q.mg.fCnt \in Nat /\ q.mg.fCnt # None
    BY <1>3, Constants DEF MulticastGroup
  <2>2. Counter[q.g] = q.mg.fCnt
    BY <1>3, <2>1 DEF Counter
  <2> QED
    BY <1>3, <2>1, <2>2
<1>9. Aired' = Aired /\ Doomed' = Doomed
  BY <1>2 DEF Aired, Doomed
<1>10. Outbox' = Outbox \cup {Message(r) : r \in N}
  <2>1. Outbox' = {Message(r) : r \in queue'}
    BY DEF Outbox, Message
  <2> QED
    BY <1>1, <2>1 DEF Outbox
<1>11. \A m \in new : \E r \in N : m = Message(r)
  BY <1>10
<1>12. \A m \in new : m.g = q.g /\ m.fCnt = q.fCnt
  BY <1>1, <1>11, MessageOK DEF Inserted
<1>13. \A m, o \in new : m.pl = o.pl /\ (m # o => m.w # o.w)
  BY <1>1, <1>11, MessageOK DEF Inserted
<1>14. \A m \in new, o \in Outbox : m.id # o.id
  <2> SUFFICES ASSUME NEW m \in new, NEW o \in Outbox PROVE m.id # o.id
    OBVIOUS
  <2>1. PICK r \in N : m = Message(r)
    BY <1>11
  <2>2. PICK p \in queue : o = Message(p)
    BY DEF Outbox
  <2>3. r.id >= nextId /\ r.id \in Nat /\ p.id < nextId /\ p.id \in Nat
    BY <1>1 DEF Inserted, IInv, Typed, Fresh, Messages, MulticastQueueItem
  <2>4. nextId \in Nat
    BY Constants DEF IInv, Typed
  <2> QED
    BY <2>1, <2>2, <2>3, <2>4, MessageOK
<1>15. Outbox' = Outbox \cup new
  BY <1>10
<1>16. Service!Accept(q.g, q.fCnt, new)
  BY <1>7, <1>8, <1>9, <1>12, <1>13, <1>14, <1>15
     DEF Service!Accept, Counter, Outbox, Aired, Doomed, next
<1> QED
  BY <1>3, <1>16 DEF Service!Next, Outbox

\* Every step of the multicast downlink is a step of the service or a stutter.
LEMMA StepRefined ==
    ASSUME IInv, [Next]_vars
    PROVE  [Service!Next]_(Service!vars)
<1> USE DEF db, api, scheduler, history
<1>1. CASE Tick
  BY <1>1, StutterRefined DEF Tick
<1>2. CASE \E d \in Devices, rx \in Receptions : SaveDeviceGatewayRXInfoSet(d, rx)
  BY <1>2, StutterRefined DEF SaveDeviceGatewayRXInfoSet
<1>3. ASSUME NEW g \in Groups, NEW mg \in Settings,
             CreateMulticastGroup(g, mg) \/ UpdateMulticastGroup(g, mg)
      PROVE  Service!Next
  <2>1. group' = [group EXCEPT ![g] = mg] /\ UNCHANGED <<queue, sent, flushed>>
    BY <1>3 DEF CreateMulticastGroup, UpdateMulticastGroup, InsertGroup, UpdateGroup
  <2> QED
    BY <2>1, ConfigureRefined
<1>4. ASSUME NEW g \in Groups, NEW d \in Devices,
             AddDeviceToMulticastGroup(g, d) \/ RemoveDeviceFromMulticastGroup(g, d)
      PROVE  UNCHANGED Service!vars
  <2>1. UNCHANGED <<group, queue, sent, flushed>>
    BY <1>4 DEF AddDeviceToMulticastGroup, RemoveDeviceFromMulticastGroup
  <2> QED
    BY <2>1, StutterRefined
<1>5. CASE GroupAPI
  BY <1>3, <1>4, <1>5, DeleteRefined DEF GroupAPI
<1>6. ASSUME NEW c \in Clients, FlushDeletes(c) PROVE Service!Next
  <2>1. queue' = queue \ call[c].rows /\ call[c].op = "flush" /\ UNCHANGED <<group, sent, flushed>>
    BY <1>6 DEF FlushDeletes
  <2>2. call[c].rows \subseteq flushed
    BY <2>1 DEF IInv, FlushInv
  <2> QED
    BY <2>1, <2>2, RemoveRefined
<1>7. ASSUME NEW c \in Clients, EnqueueFails(c) PROVE UNCHANGED Service!vars
  BY <1>7, StutterRefined DEF EnqueueFails
<1>8. ASSUME NEW c \in Clients, NEW g \in Groups, NEW f \in 0 .. FCntSize - 1, NEW pl \in Payloads,
             NEW fPort \in FPorts, EnqueueMulticastQueueItem(c, g, f, pl, fPort)
      PROVE  UNCHANGED Service!vars
  BY <1>8, StutterRefined DEF EnqueueMulticastQueueItem
<1>9. CASE QueueAPI
  BY <1>6, <1>7, <1>8, <1>9, FlushRefined, AcceptRefined DEF QueueAPI
<1>10. ASSUME NEW s \in Schedulers,
              \/ GetSchedulableMulticastQueueItems(s) \/ DiscardQueueItem(s)
              \/ ScheduleFails(s) \/ CrashBatch(s)
       PROVE  UNCHANGED Service!vars
  <2>1. UNCHANGED <<group, queue, sent, flushed>>
    BY <1>10 DEF GetSchedulableMulticastQueueItems, DiscardQueueItem, ScheduleFails, CrashBatch
  <2> QED
    BY <2>1, StutterRefined
<1>11. ASSUME NEW s \in Schedulers, CommitBatch(s) PROVE Service!Next
  <2>1. queue' = {r \in queue : r.id \notin discarded[s]} /\ UNCHANGED <<group, sent, flushed>>
    BY <1>11 DEF CommitBatch
  <2>2. \A r \in queue : r.id \in discarded[s] => r.pl \in Large
    BY DEF IInv, BatchInv
  <2>3. queue' \subseteq queue /\ \A r \in queue \ queue' : r.pl \in Large
    BY <2>1, <2>2
  <2> QED
    BY <2>1, <2>3, RemoveRefined
<1>12. CASE \E s \in Schedulers : Schedule(s) \/ CrashBatch(s)
  BY <1>10, <1>11, <1>12, TransmitRefined DEF Schedule
<1>13. CASE \E frame \in sent : HandleDownlinkTXAck(frame)
  <2>1. PICK frame \in sent : HandleDownlinkTXAck(frame)
    BY <1>13
  <2>2. queue' = queue \ {frame.item} /\ UNCHANGED <<group, sent, flushed>>
    BY <2>1 DEF HandleDownlinkTXAck, DeleteQueueItem
  <2>3. queue' \subseteq queue /\ \A r \in queue \ queue' : \E t \in sent : t.item = r
    BY <2>2
  <2> QED
    BY <2>2, <2>3, RemoveRefined
<1>14. CASE UNCHANGED vars
  BY <1>14, StutterRefined DEF vars
<1> QED
  BY <1>1, <1>2, <1>5, <1>9, <1>12, <1>13, <1>14 DEF Next

\* The transactions, locks, batches and acknowledgements of the network-server
\* implement the service of MulticastService.
THEOREM Refinement == Spec => ImplementsService
<1>1. Init => Service!Init
  <2> SUFFICES ASSUME Init PROVE Service!Init
    OBVIOUS
  <2>1. group \in [Groups -> MulticastGroup \cup {None}]
    BY Constants DEF Init
  <2>2. Counter \in [Groups -> (0 .. FCntSize - 1) \cup {None}]
    BY <2>1 DEF Counter, MulticastGroup
  <2>3. Outbox = {} /\ Aired = {} /\ Doomed = {}
    BY DEF Outbox, Aired, Doomed, Init
  <2> QED
    BY <2>2, <2>3 DEF Service!Init, Counter, Outbox, Aired, Doomed
<1>2. IInv /\ [Next]_vars => [Service!Next]_(Service!vars)
  BY StepRefined
<1> QED
  BY <1>1, <1>2, Invariance, PTL DEF Spec, Service!Spec, ImplementsService
=============================================================================
