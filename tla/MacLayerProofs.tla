--------------------------- MODULE MacLayerProofs ---------------------------
(***************************************************************************)
(* Proofs about MacLayer, for any parameters, channels and data-rates, any *)
(* algorithm, device and room in a frame, with and without OTAA and with   *)
(* mac-commands enabled or disabled.                                       *)
(*                                                                         *)
(* What the server knows is right because of what is in flight: an answer  *)
(* that is not repeated belongs to the request that is pending, since a    *)
(* new request is made pending only when the answers are gone (ReplyInv),  *)
(* and it tells what the device has done.  The loops over commands are     *)
(* recursive functions; each gets a lemma that it exists, and what it      *)
(* returns is shown by induction in the form of Induction below.           *)
(***************************************************************************)
EXTENDS MacLayer, SequenceTheorems, FiniteSetTheorems, WellFoundedInduction, TLAPS

-----------------------------------------------------------------------------
(* Induction and recursion *)

\* A set that has 0 and with every number the next one, up to n, has n.
LEMMA Induction ==
    ASSUME NEW n \in Nat, NEW G, 0 \in G, \A k \in 1..n : k - 1 \in G => k \in G
    PROVE  n \in G
<1> SUFFICES ASSUME n \notin G PROVE FALSE
  OBVIOUS
<1> DEFINE S == {k \in 0..n : k \notin G}
           Less == {ss \in Nat \X Nat : ss[1] < ss[2]}
<1>1. IsWellFoundedOn(Less, Nat)
  BY NatLessThanWellFounded DEF OpToRel
<1>2. S # {} /\ S \subseteq Nat
  OBVIOUS
<1>3. PICK x \in S : \A y \in S : <<y, x>> \notin Less
  <2> HIDE DEF S, Less
  <2> QED BY <1>1, <1>2, WFMin
<1>4. x \in 1..n /\ x \notin G
  OBVIOUS
<1>5. x - 1 \in S
  BY <1>4
<1>6. <<x - 1, x>> \in Less
  BY <1>4
<1> QED
  BY <1>3, <1>5, <1>6

\* f is what a loop of n steps over values in T goes through.
IsLoop(f, T, base, step, n) ==
    /\ f \in [0..n -> T]
    /\ f[0] = base
    /\ \A k \in 1..n : f[k] = step[k][f[k - 1]]

\* Every loop has such a function: the recursive functions of the model exist.
LEMMA LoopExists ==
    ASSUME NEW T, NEW n \in Nat, NEW base \in T, NEW step \in [1..n -> [T -> T]]
    PROVE  \E f : IsLoop(f, T, base, step, n)
<1> DEFINE G == {m \in 0..n : \E f : IsLoop(f, T, base, step, m)}
<1>1. 0 \in G
  <2>1. IsLoop([k \in 0..0 |-> base], T, base, step, 0)
    BY DEF IsLoop
  <2> QED BY <2>1
<1>2. ASSUME NEW m \in 1..n, m - 1 \in G PROVE m \in G
  <2>1. PICK f : IsLoop(f, T, base, step, m - 1)
    BY <1>2
  <2> DEFINE g == [k \in 0..m |-> IF k < m THEN f[k] ELSE step[m][f[m - 1]]]
  <2>2. f[m - 1] \in T /\ \A k \in 0..(m - 1) : f[k] \in T
    BY <2>1 DEF IsLoop
  <2>3. step[m][f[m - 1]] \in T
    BY <2>2
  <2>4. g \in [0..m -> T] /\ g[0] = base
    BY <2>1, <2>2, <2>3 DEF IsLoop
  <2>5. ASSUME NEW k \in 1..m PROVE g[k] = step[k][g[k - 1]]
    <3>1. g[k - 1] = f[k - 1]
      OBVIOUS
    <3>2. k # m => g[k] = f[k] /\ k \in 1..(m - 1)
      OBVIOUS
    <3> QED BY <2>1, <3>1, <3>2 DEF IsLoop
  <2>6. IsLoop(g, T, base, step, m)
    <3> HIDE DEF g
    <3> QED BY <2>4, <2>5, Zenon DEF IsLoop
  <2> QED BY <2>6
<1> HIDE DEF G
<1>3. n \in G
  BY <1>1, <1>2, Induction
<1> QED
  BY <1>3 DEF G

\* A function with the recursion of a loop goes through values in T.
LEMMA LoopTyped ==
    ASSUME NEW T, NEW n \in Nat, NEW base \in T, NEW step \in [1..n -> [T -> T]],
           NEW f, f = [k \in 0..n |-> f[k]], f[0] = base,
           \A k \in 1..n : f[k - 1] \in T => f[k] = step[k][f[k - 1]]
    PROVE  IsLoop(f, T, base, step, n)
<1> DEFINE G == {k \in 0..n : f[k] \in T}
<1>1. 0 \in G
  OBVIOUS
<1>2. ASSUME NEW k \in 1..n, k - 1 \in G PROVE k \in G
  <2>1. f[k] = step[k][f[k - 1]] /\ f[k - 1] \in T
    BY <1>2
  <2> QED BY <2>1
<1>3. ASSUME NEW m \in 0..n PROVE f[m] \in T
  <2> HIDE DEF G
  <2>1. m \in G
    BY <1>1, <1>2, Induction
  <2> QED BY <2>1 DEF G
<1>4. f \in [0..n -> T]
  BY <1>3
<1>5. ASSUME NEW k \in 1..n PROVE f[k] = step[k][f[k - 1]]
  <2>1. k - 1 \in 0..n
    OBVIOUS
  <2> QED BY <1>3, <2>1
<1> QED
  BY <1>4, <1>5 DEF IsLoop

\* The loop of Pick: what it has kept of s after k elements.
IsPick(f, S, s, I, n) ==
    /\ f \in [0..n -> Seq(S)]
    /\ f[0] = <<>>
    /\ \A k \in 1..n : f[k] = IF k \in I THEN Append(f[k - 1], s[k]) ELSE f[k - 1]

\* Pick is its loop.
LEMMA PickLoop ==
    ASSUME NEW S, NEW s \in Seq(S), NEW I
    PROVE  \E f : IsPick(f, S, s, I, Len(s)) /\ Pick(s, I) = f[Len(s)]
<1> DEFINE N == Len(s)
           T == Seq(S)
           one(t, k) == IF k \in I THEN Append(t, s[k]) ELSE t
           step == [k \in 1..N |-> [t \in T |-> one(t, k)]]
           D(f) == [k \in 0..N |-> IF k = 0 THEN <<>>
                                   ELSE IF k \in I THEN Append(f[k - 1], s[k]) ELSE f[k - 1]]
           upTo == CHOOSE f : f = D(f)
<1>1. Pick(s, I) = upTo[N]
  BY DEF Pick
<1>2. N \in Nat /\ <<>> \in T /\ \A k \in 1..N, t \in T : one(t, k) \in T
  OBVIOUS
<1>3. \E f : f = D(f)
  <2>1. step \in [1..N -> [T -> T]]
    BY <1>2
  <2>2. PICK f : IsLoop(f, T, <<>>, step, N)
    <3> HIDE DEF step, T, N
    <3> QED BY <1>2, <2>1, LoopExists
  <2>3. f = [k \in 0..N |-> f[k]] /\ f[0] = <<>>
    BY <2>2 DEF IsLoop
  <2>4. ASSUME NEW k \in 1..N PROVE f[k] = one(f[k - 1], k)
    <3>1. f[k - 1] \in T /\ f[k] = step[k][f[k - 1]]
      <4> HIDE DEF step, T, N
      <4> QED BY <1>2, <2>2 DEF IsLoop
    <3> QED BY <3>1
  <2>5. \A k \in 0..N : f[k] = IF k = 0 THEN <<>>
                               ELSE IF k \in I THEN Append(f[k - 1], s[k]) ELSE f[k - 1]
    BY <2>3, <2>4
  <2> QED BY <2>3, <2>5
<1>4. upTo = D(upTo)
  BY <1>3
<1> HIDE DEF upTo
<1>5. upTo[0] = <<>> /\ \A k \in 1..N : upTo[k] = one(upTo[k - 1], k)
  <2>1. \A k \in 0..N : upTo[k] = D(upTo)[k]
    BY <1>4
  <2> QED BY <1>2, <2>1
<1>6. upTo \in [0..N -> T]
  <2>1. upTo = [k \in 0..N |-> upTo[k]]
    BY <1>4
  <2>2. \A k \in 1..N : upTo[k - 1] \in T => upTo[k] = step[k][upTo[k - 1]]
    BY <1>5
  <2>3. step \in [1..N -> [T -> T]]
    BY <1>2
  <2> HIDE DEF step, T, N
  <2>4. IsLoop(upTo, T, <<>>, step, N)
    BY <1>2, <1>5, <2>1, <2>2, <2>3, LoopTyped
  <2> QED BY <2>4 DEF IsLoop
<1> QED
  BY <1>1, <1>5, <1>6 DEF IsPick

\* r is what s has at the positions I up to k; f tells where it was.
Keeps(f, r, s, I, k) ==
    /\ f \in [1..Len(r) -> 1..k]
    /\ Len(r) <= k
    /\ \A i \in 1..Len(r) : f[i] \in I /\ r[i] = s[f[i]]
    /\ \A i, j \in 1..Len(r) : i < j => f[i] < f[j]
    /\ \A m \in 1..k : m \in I => \E i \in 1..Len(r) : f[i] = m

\* What Pick returns: the elements at the positions I, in their order.
LEMMA PickMap ==
    ASSUME NEW S, NEW s \in Seq(S), NEW I
    PROVE  Pick(s, I) \in Seq(S) /\ \E f : Keeps(f, Pick(s, I), s, I, Len(s))
<1> DEFINE N == Len(s)
<1>1. N \in Nat /\ DOMAIN s = 1..N /\ \A i \in 1..N : s[i] \in S
  OBVIOUS
<1>2. PICK loop : IsPick(loop, S, s, I, N) /\ Pick(s, I) = loop[N]
  BY PickLoop
<1> DEFINE G == {k \in 0..N : loop[k] \in Seq(S) /\ \E f : Keeps(f, loop[k], s, I, k)}
<1>3. 0 \in G
  <2>1. loop[0] = <<>> /\ 0 \in 0..N
    BY <1>1, <1>2 DEF IsPick
  <2>2. Keeps(<<>>, <<>>, s, I, 0)
    BY DEF Keeps
  <2>3. <<>> \in Seq(S)
    OBVIOUS
  <2>4. loop[0] \in Seq(S) /\ \E f : Keeps(f, loop[0], s, I, 0)
    BY <2>1, <2>2, <2>3, Zenon
  <2> QED BY <2>1, <2>4
<1>4. ASSUME NEW m \in 1..N, m - 1 \in G PROVE m \in G
  <2> DEFINE r == loop[m - 1]
             t == loop[m]
  <2>1. r \in Seq(S) /\ \E f : Keeps(f, r, s, I, m - 1)
    BY <1>4
  <2>2. PICK f : Keeps(f, r, s, I, m - 1)
    BY <2>1
  <2>3. t = IF m \in I THEN Append(r, s[m]) ELSE r
    BY <1>2 DEF IsPick
  <2>4. s[m] \in S /\ m \in 0..N
    BY <1>1
  <2> HIDE DEF r, t, N
  <2>5. CASE m \notin I
    <3>1. Keeps(f, r, s, I, m)
      BY <2>1, <2>2, <2>4, <2>5 DEF Keeps
    <3> QED BY <2>1, <2>3, <2>4, <2>5, <3>1 DEF t
  <2>6. CASE m \in I
    <3> DEFINE L == Len(r)
               g == [i \in 1..(L + 1) |-> IF i <= L THEN f[i] ELSE m]
    <3>1. t = Append(r, s[m]) /\ t \in Seq(S) /\ Len(t) = L + 1 /\ L \in Nat
      BY <2>1, <2>3, <2>4, <2>6
    <3>2. (\A i \in 1..L : t[i] = r[i]) /\ t[L + 1] = s[m]
      BY <2>1, <2>4, <3>1
    <3>3. L <= m - 1 /\ f \in [1..L -> 1..(m - 1)]
      BY <2>2 DEF Keeps
    <3>4. (\A i \in 1..L : g[i] = f[i]) /\ g[L + 1] = m
      BY <3>1
    <3>5. g \in [1..(L + 1) -> 1..m]
      BY <2>4, <3>1, <3>3
    <3> HIDE DEF g, L
    <3>6. \A i \in 1..(L + 1) : g[i] \in I /\ t[i] = s[g[i]]
      <4> SUFFICES ASSUME NEW i \in 1..(L + 1) PROVE g[i] \in I /\ t[i] = s[g[i]]
        OBVIOUS
      <4>1. CASE i = L + 1
        BY <2>6, <3>2, <3>4, <4>1
      <4>2. CASE i \in 1..L
        BY <2>2, <3>2, <3>4, <4>2 DEF Keeps, L
      <4> QED BY <3>1, <4>1, <4>2
    <3>7. \A i, j \in 1..(L + 1) : i < j => g[i] < g[j]
      <4> SUFFICES ASSUME NEW i \in 1..(L + 1), NEW j \in 1..(L + 1), i < j PROVE g[i] < g[j]
        OBVIOUS
      <4>1. i \in 1..L /\ g[i] = f[i] /\ f[i] \in 1..(m - 1)
        BY <3>1, <3>3, <3>4
      <4>2. CASE j = L + 1
        BY <2>4, <3>4, <4>1, <4>2
      <4>3. CASE j \in 1..L
        BY <2>2, <3>4, <4>1, <4>3 DEF Keeps, L
      <4> QED BY <3>1, <4>2, <4>3
    <3>8. ASSUME NEW p \in 1..m, p \in I PROVE \E i \in 1..(L + 1) : g[i] = p
      <4>1. CASE p = m
        BY <3>1, <3>4, <4>1
      <4>2. CASE p \in 1..(m - 1)
        <5>1. PICK i \in 1..L : f[i] = p
          BY <2>2, <3>8, <4>2 DEF Keeps, L
        <5>2. g[i] = p
          BY <3>4, <5>1
        <5>3. i \in 1..(L + 1)
          BY <3>1
        <5> QED BY <5>2, <5>3
      <4> QED BY <4>1, <4>2
    <3>9. Keeps(g, t, s, I, m)
      <4>1. L + 1 <= m
        BY <3>1, <3>3
      <4>2. Len(t) = L + 1
        BY <3>1
      <4> QED BY <3>5, <3>6, <3>7, <3>8, <4>1, <4>2, Zenon DEF Keeps
    <3> QED BY <2>4, <3>1, <3>9 DEF t
  <2> QED BY <2>5, <2>6
<1>5. N \in G
  <2> HIDE DEF G, N
  <2> QED BY <1>1, <1>3, <1>4, Induction
<1> QED
  BY <1>2, <1>5

-----------------------------------------------------------------------------
(* Parts of sequences *)

\* Every element of Pick(s, I) is one of s at a position in I.
LEMMA PickElements ==
    ASSUME NEW S, NEW s \in Seq(S), NEW I
    PROVE  /\ Pick(s, I) \in Seq(S) /\ Len(Pick(s, I)) <= Len(s)
           /\ \A j \in DOMAIN Pick(s, I) : \E i \in DOMAIN s : i \in I /\ Pick(s, I)[j] = s[i]
           /\ \A i \in DOMAIN s : i \in I => \E j \in DOMAIN Pick(s, I) : Pick(s, I)[j] = s[i]
<1> DEFINE r == Pick(s, I)
<1>1. r \in Seq(S) /\ \E f : Keeps(f, r, s, I, Len(s))
  BY PickMap
<1> HIDE DEF r
<1>2. PICK f : Keeps(f, r, s, I, Len(s))
  BY <1>1
<1>3. DOMAIN r = 1..Len(r) /\ DOMAIN s = 1..Len(s) /\ Len(r) <= Len(s)
  BY <1>1, <1>2 DEF Keeps
<1>4. ASSUME NEW j \in DOMAIN r PROVE \E i \in DOMAIN s : i \in I /\ r[j] = s[i]
  BY <1>2, <1>3 DEF Keeps
<1>5. ASSUME NEW i \in DOMAIN s, i \in I PROVE \E j \in DOMAIN r : r[j] = s[i]
  <2>1. PICK j \in 1..Len(r) : f[j] = i
    BY <1>2, <1>3, <1>5 DEF Keeps
  <2> QED BY <1>2, <1>3, <2>1 DEF Keeps
<1> QED
  BY <1>1, <1>3, <1>4, <1>5 DEF r

\* What no two elements of s share, with each other, no two of Pick(s, I) share.
LEMMA PickSingle ==
    ASSUME NEW S, NEW s \in Seq(S), NEW I, NEW C,
           \A i, j \in DOMAIN s : s[i].cid = s[j].cid /\ s[i].cid \in C => i = j
    PROVE  \A i, j \in DOMAIN Pick(s, I) :
               Pick(s, I)[i].cid = Pick(s, I)[j].cid /\ Pick(s, I)[i].cid \in C => i = j
<1> DEFINE r == Pick(s, I)
<1>1. r \in Seq(S) /\ \E f : Keeps(f, r, s, I, Len(s))
  BY PickMap
<1> HIDE DEF r
<1>2. PICK f : Keeps(f, r, s, I, Len(s))
  BY <1>1
<1>3. DOMAIN r = 1..Len(r) /\ DOMAIN s = 1..Len(s) /\ Len(r) \in Nat
  BY <1>1
<1>4. ASSUME NEW i \in DOMAIN r, NEW j \in DOMAIN r, r[i].cid = r[j].cid, r[i].cid \in C
      PROVE  i = j
  <2>1. f[i] \in DOMAIN s /\ f[j] \in DOMAIN s /\ r[i] = s[f[i]] /\ r[j] = s[f[j]]
    BY <1>2, <1>3 DEF Keeps
  <2>2. f[i] = f[j]
    BY <1>4, <2>1
  <2>3. (i < j => f[i] < f[j]) /\ (j < i => f[j] < f[i])
    BY <1>2, <1>3 DEF Keeps
  <2> QED BY <1>3, <2>1, <2>2, <2>3
<1> QED
  BY <1>4 DEF r

\* An element that comes first and is kept comes first.
LEMMA PickFirst ==
    ASSUME NEW S, NEW s \in Seq(S), NEW I, s # <<>>, 1 \in I
    PROVE  Pick(s, I) # <<>> /\ Pick(s, I)[1] = s[1]
<1> DEFINE r == Pick(s, I)
<1>1. r \in Seq(S) /\ \E f : Keeps(f, r, s, I, Len(s))
  BY PickMap
<1> HIDE DEF r
<1>2. PICK f : Keeps(f, r, s, I, Len(s))
  BY <1>1
<1>3. 1 \in 1..Len(s) /\ Len(r) \in Nat
  BY <1>1
<1>4. PICK j \in 1..Len(r) : f[j] = 1
  BY <1>2, <1>3 DEF Keeps
<1>5. 1 \in 1..Len(r) /\ f[1] \in 1..Len(s)
  BY <1>2, <1>3, <1>4 DEF Keeps
<1>6. 1 < j => f[1] < f[j]
  BY <1>2, <1>5 DEF Keeps
<1>7. j = 1
  BY <1>3, <1>4, <1>5, <1>6
<1>8. r[1] = s[1]
  BY <1>2, <1>4, <1>5, <1>7 DEF Keeps
<1> QED
  BY <1>1, <1>5, <1>8 DEF r

\* A group of answers that is not there is empty.
LEMMA GroupEmpty ==
    ASSUME NEW S, NEW s \in Seq(S), NEW c, c \notin CidsOf(s)
    PROVE  Group(s, c) = <<>>
<1> DEFINE I == {i \in DOMAIN s : s[i].cid = c}
           r == Pick(s, I)
<1>1. r \in Seq(S) /\ \A j \in DOMAIN r : \E i \in DOMAIN s : i \in I
  <2> HIDE DEF I
  <2> QED BY PickElements
<1>2. I = {}
  BY DEF CidsOf
<1>3. DOMAIN r = {}
  BY <1>1, <1>2
<1>4. r = <<>>
  <2> HIDE DEF r
  <2>1. Len(r) \in Nat /\ DOMAIN r = 1..Len(r)
    BY <1>1
  <2>2. Len(r) = 0
    BY <1>3, <2>1
  <2> QED BY <1>1, <2>2
<1> QED
  BY <1>4 DEF Group

\* The group of an answer that comes once is that answer.
LEMMA GroupOne ==
    ASSUME NEW S, NEW s \in Seq(S), NEW i \in DOMAIN s,
           \A j \in DOMAIN s : s[j].cid = s[i].cid => j = i
    PROVE  Group(s, s[i].cid) \in Seq(S) /\ Len(Group(s, s[i].cid)) = 1
           /\ Group(s, s[i].cid)[1] = s[i]
<1> DEFINE I == {j \in DOMAIN s : s[j].cid = s[i].cid}
           r == Pick(s, I)
<1>1. I = {i}
  OBVIOUS
<1>2. r \in Seq(S) /\ \E f : Keeps(f, r, s, I, Len(s))
  <2> HIDE DEF I
  <2> QED BY PickMap
<1> HIDE DEF r
<1>3. PICK f : Keeps(f, r, s, {i}, Len(s))
  BY <1>1, <1>2
<1>4. DOMAIN s = 1..Len(s) /\ Len(r) \in Nat
  BY <1>2
<1>5. PICK j \in 1..Len(r) : f[j] = i
  BY <1>3, <1>4 DEF Keeps
<1>6. ASSUME NEW k \in 1..Len(r) PROVE k = j
  <2>1. f[k] = i /\ (k < j => f[k] < f[j]) /\ (j < k => f[j] < f[k])
    BY <1>3, <1>5 DEF Keeps
  <2> QED BY <1>4, <1>5, <2>1
<1>7. 1 \in 1..Len(r) /\ Len(r) \in 1..Len(r)
  BY <1>4, <1>5
<1>8. Len(r) = 1 /\ j = 1
  BY <1>4, <1>6, <1>7
<1>9. r[1] = s[i]
  BY <1>3, <1>5, <1>8 DEF Keeps
<1> QED
  BY <1>2, <1>8, <1>9 DEF Group, r

\* Neighbours are kept as they are.
LEMMA PickInterval ==
    ASSUME NEW S, NEW s \in Seq(S), NEW a \in Nat, NEW n \in Nat, a + n <= Len(s)
    PROVE  /\ Len(Pick(s, (a + 1)..(a + n))) = n
           /\ \A i \in 1..n : Pick(s, (a + 1)..(a + n))[i] = s[a + i]
<1> DEFINE I == (a + 1)..(a + n)
           N == Len(s)
           L(k) == IF k <= a THEN 0 ELSE IF k <= a + n THEN k - a ELSE n
<1>1. N \in Nat /\ DOMAIN s = 1..N
  OBVIOUS
<1>2. PICK loop : IsPick(loop, S, s, I, N) /\ Pick(s, I) = loop[N]
  <2> HIDE DEF I
  <2> QED BY PickLoop
<1> DEFINE G == {k \in 0..N : Len(loop[k]) = L(k) /\ \A i \in 1..L(k) : loop[k][i] = s[a + i]}
<1>3. 0 \in G
  <2>1. loop[0] = <<>> /\ L(0) = 0
    BY <1>2 DEF IsPick
  <2> QED BY <1>1, <2>1
<1>4. ASSUME NEW m \in 1..N, m - 1 \in G PROVE m \in G
  <2> DEFINE r == loop[m - 1]
             t == loop[m]
  <2>1. r \in Seq(S) /\ t = IF m \in I THEN Append(r, s[m]) ELSE r
    BY <1>1, <1>2 DEF IsPick
  <2>2. Len(r) = L(m - 1) /\ \A i \in 1..L(m - 1) : r[i] = s[a + i]
    BY <1>4
  <2>3. s[m] \in S /\ m \in 0..N
    BY <1>1
  <2> HIDE DEF r, t, N
  <2>4. CASE m \notin I
    <3>1. L(m) = L(m - 1)
      BY <1>1, <2>3, <2>4
    <3> HIDE DEF L
    <3>2. Len(t) = L(m) /\ \A i \in 1..L(m) : t[i] = s[a + i]
      BY <2>1, <2>2, <2>4, <3>1
    <3> QED BY <2>3, <3>2 DEF t
  <2>5. CASE m \in I
    <3>1. L(m) = L(m - 1) + 1 /\ a + L(m) = m /\ L(m - 1) \in Nat
      BY <1>1, <2>3, <2>5
    <3> HIDE DEF L
    <3>2. t = Append(r, s[m]) /\ Len(t) = L(m)
      BY <2>1, <2>2, <2>3, <2>5, <3>1
    <3>3. ASSUME NEW i \in 1..L(m) PROVE t[i] = s[a + i]
      <4>1. CASE i = L(m)
        BY <2>1, <2>2, <2>3, <3>1, <3>2, <4>1
      <4>2. CASE i \in 1..L(m - 1)
        BY <2>1, <2>2, <2>3, <3>1, <3>2, <4>2
      <4> QED BY <3>1, <4>1, <4>2
    <3> QED BY <2>3, <3>2, <3>3 DEF t
  <2> QED BY <2>4, <2>5
<1>5. N \in G
  <2> HIDE DEF G, N
  <2> QED BY <1>1, <1>3, <1>4, Induction
<1>6. L(N) = n
  <2>1. a + n <= N
    OBVIOUS
  <2> HIDE DEF N
  <2> QED BY <1>1, <2>1
<1> QED
  BY <1>2, <1>5, <1>6
-----------------------------------------------------------------------------
(* The inductive invariant *)

\* The types of the state.
Channels == StandardChannels \cup CustomChannels \cup OldChannels
Wanted == StandardChannels \cup CustomChannels
Requests == Seq(Values \cup Nat \cup ExtValues)
Blocks == [cid : Cids, ext : BOOLEAN, req : Requests, mask : SUBSET Channels]
Replies == [cid : Cids, of : Requests, ok : BOOLEAN,
            bits : SUBSET {"mask", "dr", "power", "A", "C"}]
Links == [dr : DOMAIN DataRates, power : 0..BandMaxPower, nb : 1..3]
Uplinks == [gap : 0..MaxMissed, snr : Int, rssi : Int, power : 0..BandMaxPower]
Sessions ==
    [val : [Params -> Values], extra : SUBSET Channels, enabled : SUBSET Channels,
     link : Links, maxPower : 0..BandMaxPower, pingSlotNb : {0, 1}, adr : BOOLEAN,
     errors : [Cids -> 0..(MaxErrors + MaxNewChannels)], history : Seq(Uplinks)]
Nodes ==
    [val : [Params -> Values], extra : SUBSET Channels, enabled : SUBSET Channels,
     link : Links, answers : Seq(Replies), reset : BOOLEAN, adr : BOOLEAN, snr : Int,
     missed : 0..MaxMissed]
Rounds ==
    [at : {"idle", "uplink", "commit", "downlink"}, cmds : Seq(Replies), must : BOOLEAN,
     blocks : Seq(Blocks)]

\* The commands the server tells apart; their blocks come one at a time.
Special == Params \cup {"LinkADR", "NewChannel"}

\* What the request of a block looks like.
Shape(b) ==
    /\ b.ext <=> b.cid \in ExtCids
    /\ b.cid \in Params => \E v \in Values : b.req = <<v>>
    /\ b.cid = "NewChannel" => b.req \in Seq(CustomChannels) /\ Len(b.req) \in 1..MaxNewChannels
    /\ b.cid = "LinkADR" => \E l \in Links : b.req = <<l.dr, l.power, l.nb>>

\* A session that is saved.
SessionOK(s) ==
    /\ s \in Sessions
    /\ Len(s.history) <= RequiredHistory
    /\ s.extra \subseteq s.enabled \cup OldChannels
    /\ s.errors["ResetInd"] = 0

\* The types of the variables, with what their lengths are bounded by.
Typed ==
    /\ SessionOK(ds)
    /\ mode \in {"A", "C"}
    /\ pending \in [Cids -> Blocks \cup {NoBlock}]
    /\ queue \in Seq(Blocks) /\ Len(queue) <= changes
    /\ \A i \in DOMAIN queue : queue[i].ext /\ queue[i].cid \in ExtCids
    /\ conf \in [Params -> Values]
    /\ dev \in Nodes
    /\ round \in Rounds
    /\ blind \subseteq Cids \X {"repeated", "reset", "withdrawn"}
    /\ refused \subseteq Nat
    /\ changes \in 0..MaxChanges
    /\ calm \in BOOLEAN

\* Where the frames are.
StageInv ==
    /\ round.at # "uplink" => round.cmds = <<>>
    /\ round.at \in {"idle", "uplink"} => round.blocks = <<>>
    /\ round.at # "idle" => CidsOf(dev.answers) \subseteq Sticky
    /\ "ResetInd" \in CidsOf(round.cmds) => dev.reset

\* A pending request was made while its command was not given up.
PendingInv ==
    \A c \in Cids : pending[c] # NoBlock =>
        /\ pending[c].cid = c /\ Shape(pending[c])
        /\ ds.errors[c] <= MaxErrors
        /\ DisableMACCommands => pending[c].ext

\* The indices the device has refused, and what the session makes of them.
PowerInv ==
    /\ \A k \in refused : k > DevMaxPower
    /\ ~dev.adr => refused = {}
    /\ dev.adr => ds.link.power <= DevMaxPower
    /\ 1 \notin refused => \A k \in refused : ds.maxPower # 0 /\ ds.maxPower < k

\* No request asks for a refused index, or a higher one.
Avoids(b) == 1 \notin refused => \A k \in refused : b.req[2] < k
AvoidInv == pending["LinkADR"] # NoBlock => Avoids(pending["LinkADR"])

\* A mask switches off nothing but old channels.
MaskOK(mask) == mask \subseteq ds.enabled /\ (ds.enabled \ mask) \cap Wanted = {}

\* The requests of a response.
BlockInv(b) ==
    /\ Shape(b)
    /\ ds.errors[b.cid] <= MaxErrors
    /\ DisableMACCommands => b.ext
    /\ b.cid \in Params => b.req = <<conf[b.cid]>> /\ ds.val[b.cid] # conf[b.cid]
    /\ b.cid = "NewChannel" => ToSet(b.req) \cap ds.extra = {}
    /\ b.cid = "LinkADR" => MaskOK(b.mask) /\ Avoids(b)

\* Which commands share a frame (filterIncompatibleMACCommands).
Apart(s) == ~{"LinkADR", "NewChannel"} \subseteq CidsOf(s)
Single(s) ==
    \A i, j \in DOMAIN s : s[i].cid = s[j].cid /\ s[i].cid \in Special => i = j

\* The response on its way: the confirmation of a reset comes first, and what is sent
\* is pending.
BlocksInv ==
    /\ \A i \in DOMAIN round.blocks : BlockInv(round.blocks[i])
    /\ Single(round.blocks) /\ Apart(round.blocks)
    /\ dev.reset /\ ~DisableMACCommands /\ round.blocks # <<>> =>
           round.blocks[1].cid = "ResetInd"
    /\ round.at = "downlink" => \A i \in DOMAIN round.blocks :
           round.blocks[i].cid \in Special => pending[round.blocks[i].cid] = round.blocks[i]

\* The answers to the channels of a request, one after the other.
ChannelAnswers(s, b) ==
    \E a \in 0..Len(s) :
        /\ {i \in DOMAIN s : s[i].cid = "NewChannel"} = (a + 1)..(a + Len(b.req))
        /\ \A i \in 1..Len(b.req) : s[a + i].ok = (b.req[i] \notin RefusedChannels)
        /\ ToSet(b.req) \ RefusedChannels \subseteq dev.enabled

\* The answer a tells what the device has done with the LinkADRReq b.
LinkAnswer(a, b) ==
    /\ b.req = a.of
    /\ "dr" \in a.bits <=> dev.adr
    /\ "power" \in a.bits <=> (dev.adr /\ b.req[2] <= DevMaxPower)
    /\ a.bits \subseteq {"mask", "dr", "power"}
    /\ MaskOK(b.mask)
    /\ a.bits = {"mask", "dr", "power"} \/ (~dev.adr /\ "mask" \in a.bits) => dev.enabled = b.mask

\* An answer of the device is about the request that is pending, unless it is
\* repeated, and about what the device has done.
ReplyInv(s, a) ==
    /\ a.cid \in Params =>
           /\ a.ok <=> a.cid \notin RefusedParams
           /\ a.ok => a.of = <<dev.val[a.cid]>>
           /\ a.cid \notin Sticky => pending[a.cid] # NoBlock /\ pending[a.cid].req = a.of
    /\ a.cid = "LinkADR" => pending["LinkADR"] # NoBlock /\ LinkAnswer(a, pending["LinkADR"])
    /\ a.cid = "NewChannel" =>
           pending["NewChannel"] # NoBlock /\ ChannelAnswers(s, pending["NewChannel"])
    /\ a.cid = "DeviceModeInd" => a.bits \in {{"A"}, {"C"}}

\* Which answers come one at a time.
OneEach(s) ==
    \A i, j \in DOMAIN s : s[i].cid = s[j].cid /\ s[i].cid \in Params \cup {"LinkADR"} => i = j

\* The answers s are about what is pending, or repeated.
Replied(s) ==
    /\ \A i \in DOMAIN s : ReplyInv(s, s[i])
    /\ OneEach(s) /\ Apart(s)
    /\ DisableMACCommands => CidsOf(s) \subseteq ExtCids \cup Asks \cup {"ResetInd"}

\* The answers that the device holds, and those on their way.
ReplyFlight ==
    /\ Replied(dev.answers) /\ CidsOf(dev.answers) \cap (Asks \cup {"ResetInd"}) = {}
    /\ Replied(round.cmds)

\* A device that has reset says so, and has answered no request of the server.
ResetInv == dev.reset =>
    /\ ~SupportsJoin
    /\ dev.val = [p \in Params |-> Boot] /\ dev.enabled = StandardChannels
    /\ CidsOf(dev.answers) \subseteq ExtCids
    /\ round.at = "uplink" =>
           /\ round.cmds # <<>> /\ Last(round.cmds).cid = "ResetInd"
           /\ \A i \in DOMAIN round.cmds : i < Len(round.cmds) => round.cmds[i].cid \in ExtCids

\* The server will confirm the reset: what it knows is what the device has.
Confirming == dev.reset /\ round.blocks # <<>> /\ ~DisableMACCommands

\* A value that the session has as configured is the device's, unless the device has
\* reset, or blind says why not.
ParamInv ==
    /\ \A p \in Params : ds.val[p] = conf[p] => dev.val[p] = conf[p] \/ dev.reset \/ Blind(p)
    /\ Confirming => \A p \in Params : ds.val[p] = Boot \/ Blind(p)

\* Where session and device differ on a channel there is a request left to make: for
\* a channel the session does not have, or against one that is not wanted.
ChannelInv ==
    ~dev.reset \/ Confirming =>
        \A c \in Channels : ~(c \in ds.enabled <=> c \in dev.enabled) =>
            c \in CustomChannels \ ds.extra \/ (c \in ds.enabled /\ c \notin Wanted)

\* The inductive invariant.
IInv ==
    /\ Typed /\ StageInv /\ PendingInv /\ PowerInv /\ AvoidInv /\ BlocksInv
    /\ ReplyFlight /\ ResetInv /\ ParamInv /\ ChannelInv /\ OnlyRepeatedMisread

-----------------------------------------------------------------------------
(* Commands *)

OwnCids == {"LinkADR", "NewChannel", "DevStatusReq", "ResetInd"}

\* The commands are told apart by their CIDs.
LEMMA CidsOK ==
    /\ Params \subseteq {"RejoinParamSetup", "PingSlotChannel", "RXParamSetup",
                         "RXTimingSetup", "TXParamSetup"}
    /\ Asks \subseteq {"LinkCheckReq", "DeviceTimeReq", "PingSlotInfoReq", "DeviceModeInd",
                       "RekeyInd"}
    /\ ExtCids \cap {"RejoinParamSetup", "PingSlotChannel", "RXParamSetup",
                     "RXTimingSetup", "TXParamSetup", "LinkCheckReq", "DeviceTimeReq",
                     "PingSlotInfoReq", "DeviceModeInd", "RekeyInd", "LinkADR", "NewChannel",
                     "DevStatusReq", "ResetInd", "none"} = {}
    /\ "none" \notin Cids /\ ExtCids \cap (Params \cup Asks \cup OwnCids) = {}
    /\ (Params \cup Asks \cup ExtCids \cup OwnCids) = Cids
<1>1. ToSet(SetupCids) = {"RejoinParamSetup", "PingSlotChannel", "RXParamSetup",
                          "RXTimingSetup", "TXParamSetup"}
  BY DEF SetupCids, ToSet
<1>2. Params \subseteq ToSet(SetupCids) /\ Asks \subseteq AskCids
      /\ ExtCids \cap (ToSet(SetupCids) \cup AskCids \cup
             {"LinkADR", "NewChannel", "DevStatusReq", "ResetInd", "none"}) = {}
  BY MacAssumption
<1> QED
  BY <1>1, <1>2 DEF AskCids, Cids, OwnCids

-----------------------------------------------------------------------------
(* What the ADR algorithms ask for *)

Numbers == [dr : Nat, power : Nat, nb : Nat]

\* A step of the default algorithm.
Step(up, x, maxPower, maxDR) == IF up THEN StepUp(x, maxPower, maxDR) ELSE StepDown(x)

\* One step stays within the limits, or at what was there.
LEMMA StepOK ==
    ASSUME NEW up, NEW x \in Numbers, NEW maxPower \in Nat, NEW maxDR \in Nat
    PROVE  /\ Step(up, x, maxPower, maxDR) \in Numbers
           /\ Step(up, x, maxPower, maxDR).nb = x.nb
           /\ x.dr <= maxDR => Step(up, x, maxPower, maxDR).dr <= maxDR
           /\ \/ Step(up, x, maxPower, maxDR).power <= x.power
              \/ Step(up, x, maxPower, maxDR).power <= maxPower
BY DEF Step, StepUp, StepDown, Numbers

\* The number of steps of the default algorithm is any: where they lead to stays
\* within the limits, or at what was there.
LEMMA IdealOK ==
    ASSUME NEW nStep \in Int, NEW start \in Numbers, NEW maxPower \in Nat, NEW maxDR \in Nat,
           start.dr <= maxDR
    PROVE  LET r == getIdealTxPowerIndexAndDR(nStep, start, maxPower, maxDR)
           IN  /\ r \in Numbers /\ r.nb = start.nb /\ r.dr <= maxDR
               /\ r.power <= start.power \/ r.power <= maxPower
<1> DEFINE steps == IF nStep < 0 THEN -nStep ELSE nStep
           X == [dr : Nat, power : Nat, nb : Nat]
           nx(x) == IF nStep > 0 THEN StepUp(x, maxPower, maxDR) ELSE StepDown(x)
           T == [X -> X]
           one(h, k) == [x \in X |-> h[nx(x)]]
           id == [x \in X |-> x]
           D(f) == [n \in 0..steps |-> [x \in X |-> IF n = 0 THEN x ELSE f[n - 1][nx(x)]]]
           ideal == CHOOSE f : f = D(f)
<1>1. getIdealTxPowerIndexAndDR(nStep, start, maxPower, maxDR) = ideal[steps][start]
  BY DEF getIdealTxPowerIndexAndDR
<1>2. steps \in Nat
  OBVIOUS
<1>3. \A x \in X : /\ nx(x) \in X /\ nx(x).nb = x.nb
                   /\ x.dr <= maxDR => nx(x).dr <= maxDR
                   /\ nx(x).power <= x.power \/ nx(x).power <= maxPower
  BY StepOK DEF Step, Numbers
<1> HIDE DEF steps
<1>4. \E f : f = D(f)
  <2> DEFINE step == [k \in 1..steps |-> [h \in T |-> one(h, k)]]
  <2>1. id \in T /\ step \in [1..steps -> [T -> T]]
    <3> HIDE DEF nx, X
    <3> QED BY <1>3
  <2>2. PICK h : IsLoop(h, T, id, step, steps)
    <3> HIDE DEF T, id, step
    <3> QED BY <1>2, <2>1, LoopExists
  <2>3. ASSUME NEW n \in 0..steps
        PROVE  h[n] = [x \in X |-> IF n = 0 THEN x ELSE h[n - 1][nx(x)]]
    <3>1. CASE n = 0
      <4>1. h[0] = id
        BY <2>2 DEF IsLoop
      <4> HIDE DEF nx, X
      <4> QED BY <3>1, <4>1
    <3>2. CASE n # 0
      <4>1. n \in 1..steps /\ n - 1 \in 0..steps
        BY <1>2, <3>2
      <4>2. h[n - 1] \in T /\ h[n] = step[n][h[n - 1]]
        <5> HIDE DEF T, step
        <5> QED BY <2>2, <4>1 DEF IsLoop
      <4>3. h[n] = one(h[n - 1], n)
        <5> HIDE DEF one, T
        <5> QED BY <4>1, <4>2
      <4> HIDE DEF nx, X
      <4> QED BY <3>2, <4>3
    <3> QED BY <3>1, <3>2
  <2>4. h = [n \in 0..steps |-> h[n]]
    BY <2>2 DEF IsLoop
  <2>5. h = D(h)
    <3> HIDE DEF nx, X
    <3> QED BY <2>3, <2>4
  <2> QED BY <2>5
<1>5. ideal = D(ideal)
  BY <1>4
<1> HIDE DEF ideal
<1>6. ASSUME NEW n \in 0..steps, NEW x \in X
      PROVE  ideal[n][x] = IF n = 0 THEN x ELSE ideal[n - 1][nx(x)]
  <2> HIDE DEF nx, X
  <2>1. ideal[n] = D(ideal)[n]
    BY <1>5
  <2> QED BY <2>1
<1> DEFINE OK(x, r) == /\ r \in X /\ r.nb = x.nb
                       /\ x.dr <= maxDR => r.dr <= maxDR
                       /\ r.power <= x.power \/ r.power <= maxPower
           G == {n \in 0..steps : \A x \in X : OK(x, ideal[n][x])}
<1>7. 0 \in G
  <2>1. ASSUME NEW x \in X PROVE OK(x, ideal[0][x])
    <3>1. ideal[0][x] = x
      BY <1>2, <1>6
    <3> QED BY <3>1
  <2> HIDE DEF OK
  <2> QED BY <1>2, <2>1
<1>8. ASSUME NEW n \in 1..steps, n - 1 \in G PROVE n \in G
  <2>1. n \in 0..steps /\ n # 0
    BY <1>2
  <2>2. ASSUME NEW x \in X PROVE OK(x, ideal[n][x])
    <3> DEFINE y == nx(x)
               r == ideal[n - 1][y]
    <3>1. ideal[n][x] = r
      BY <1>6, <2>1
    <3>2. y \in X /\ y.nb = x.nb /\ (x.dr <= maxDR => y.dr <= maxDR)
          /\ (y.power <= x.power \/ y.power <= maxPower)
      BY <1>3
    <3>3. OK(y, r)
      <4> HIDE DEF y, OK
      <4> QED BY <1>8, <3>2
    <3> HIDE DEF r, y
    <3>4. OK(x, r)
      BY <3>2, <3>3
    <3> QED BY <3>1, <3>4
  <2> HIDE DEF OK
  <2> QED BY <2>1, <2>2
<1>9. steps \in G
  <2> HIDE DEF G
  <2> QED BY <1>2, <1>7, <1>8, Induction
<1> QED
  BY <1>1, <1>9 DEF Numbers

\* A finite set of integers that is not empty has a largest element.
LEMMA MaxOK ==
    ASSUME NEW S \in SUBSET Int, IsFiniteSet(S), S # {}
    PROVE  Max(S) \in S /\ \A y \in S : Max(S) >= y
<1> DEFINE Bad == {T \in FiniteSubsetsOf(Int) : T # {} /\ ~\E x \in T : \A y \in T : x >= y}
<1>1. \E x \in S : \A y \in S : x >= y
  <2>1. SUFFICES ASSUME S \in Bad PROVE FALSE
    BY DEF FiniteSubsetsOf
  <2>2. PICK T \in Bad : \A U \in Bad : <<U, T>> \notin StrictSubsetOrdering(Int)
    <3>1. IsWellFoundedOn(StrictSubsetOrdering(Int), FiniteSubsetsOf(Int))
      BY FS_StrictSubsetOrderingWellFounded
    <3>2. Bad \subseteq FiniteSubsetsOf(Int) /\ Bad # {}
      BY <2>1
    <3> QED
      BY <3>1, <3>2, WFMin
  <2>3. PICK x \in T : TRUE
    BY DEF FiniteSubsetsOf
  <2> DEFINE U == T \ {x}
  <2>4. U \in FiniteSubsetsOf(Int) /\ <<U, T>> \in StrictSubsetOrdering(Int)
    BY <2>3, FS_RemoveElement DEF FiniteSubsetsOf, StrictSubsetOrdering
  <2>5. U \notin Bad
    BY <2>2, <2>4
  <2>6. CASE U = {}
    BY <2>3, <2>6 DEF FiniteSubsetsOf
  <2>7. CASE U # {}
    <3>1. PICK m \in U : \A y \in U : m >= y
      BY <2>4, <2>5, <2>7
    <3> QED
      BY <2>3, <3>1 DEF FiniteSubsetsOf
  <2> QED
    BY <2>6, <2>7
<1> QED
  BY <1>1 DEF Max

\* The smaller of two numbers.
LEMMA MinTwo ==
    ASSUME NEW a \in Int, NEW b \in Int
    PROVE  Min({a, b}) \in {a, b} /\ Min({a, b}) <= a /\ Min({a, b}) <= b
<1>1. \E x \in {a, b} : \A y \in {a, b} : x <= y
  OBVIOUS
<1> QED
  BY <1>1 DEF Min

\* The highest data-rate is one of the band.
LEMMA HighestOK ==
    HighestDR \in DOMAIN DataRates /\ HighestDR \in Nat /\ DOMAIN DataRates \subseteq Nat
<1> DEFINE S == {0} \cup {i \in EnabledDataRates : IsLoRa(i)}
<1>1. /\ S \subseteq DOMAIN DataRates /\ DOMAIN DataRates \subseteq Nat /\ MaxDR \in Nat
      /\ \A i \in DOMAIN DataRates : 0..i \subseteq DOMAIN DataRates
  BY AdrAssumption
<1>2. IsFiniteSet(S)
  <2>1. IsFiniteSet({i \in EnabledDataRates : IsLoRa(i)})
    BY AdrAssumption, FS_Subset
  <2> QED BY <2>1, FS_AddElement
<1>3. Max(S) \in S
  <2>1. S \in SUBSET Int /\ S # {}
    BY <1>1
  <2> HIDE DEF S
  <2> QED BY <1>2, <2>1, MaxOK
<1>4. HighestDR = Min({MaxDR, Max(S)})
  BY DEF HighestDR
<1> HIDE DEF S
<1>5. Max(S) \in DOMAIN DataRates /\ Max(S) \in Nat
  BY <1>1, <1>3
<1>6. Min({MaxDR, Max(S)}) <= Max(S) /\ Min({MaxDR, Max(S)}) \in Nat
  <2>1. MaxDR \in Int /\ Max(S) \in Int
    BY <1>1, <1>5
  <2>2. Min({MaxDR, Max(S)}) \in {MaxDR, Max(S)} /\ Min({MaxDR, Max(S)}) <= Max(S)
    BY <2>1, MinTwo, Zenon
  <2> QED BY <1>1, <1>5, <2>2
<1>7. Min({MaxDR, Max(S)}) \in 0..Max(S)
  BY <1>5, <1>6
<1> QED
  BY <1>1, <1>4, <1>5, <1>6, <1>7

\* getNbTrans looks up its table.
LEMMA NbTransOK ==
    ASSUME NEW nb \in 1..3, NEW loss
    PROVE  getNbTrans(nb, loss) \in 1..3
<1> DEFINE class == IF loss < 5 THEN 1 ELSE IF loss < 10 THEN 2
                    ELSE IF loss < 30 THEN 3 ELSE 4
<1>1. class \in {1, 2, 3, 4}
  BY Zenon
<1>2. getNbTrans(nb, loss) = pktLossRateTable[class][nb]
  BY DEF getNbTrans
<1> HIDE DEF class
<1>3. \A c \in {1, 2, 3, 4} : pktLossRateTable[c][nb] \in 1..3
  <2>1. nb \in {1, 2, 3}
    OBVIOUS
  <2>2. /\ pktLossRateTable[1] = <<1, 1, 2>> /\ pktLossRateTable[2] = <<1, 2, 3>>
        /\ pktLossRateTable[3] = <<2, 3, 3>> /\ pktLossRateTable[4] = <<3, 3, 3>>
    BY DEF pktLossRateTable
  <2> QED BY <2>1, <2>2
<1> QED
  BY <1>1, <1>2, <1>3

\* The best SNR of a history is a number.
LEMMA MaxSNROK ==
    ASSUME NEW history \in Seq(Uplinks)
    PROVE  getMaxSNR(history) \in Int
<1> DEFINE S == {history[i].snr : i \in DOMAIN history}
<1>1. DOMAIN history = 1..Len(history) /\ Len(history) \in Nat
  OBVIOUS
<1>2. IsFiniteSet(1..Len(history))
  BY <1>1, FS_Interval
<1>3. IsFiniteSet(S)
  <2> DEFINE f == [i \in 1..Len(history) |-> history[i].snr]
  <2>1. S = {f[i] : i \in 1..Len(history)}
    BY <1>1
  <2>2. f \in Surjection(1..Len(history), S)
    BY <2>1 DEF Surjection
  <2> HIDE DEF f, S
  <2> QED BY <1>2, <2>2, FS_Surjection
<1>4. IsFiniteSet({-1998} \cup S)
  <2> HIDE DEF S
  <2>1. ASSUME NEW x PROVE IsFiniteSet({x} \cup S)
    <3>1. {x} \cup S = S \cup {x}
      OBVIOUS
    <3> QED BY <1>3, <3>1, FS_AddElement
  <2> DEFINE lowest == -1998
  <2>2. IsFiniteSet({lowest} \cup S)
    <3> HIDE DEF lowest
    <3> QED BY <2>1
  <2> QED BY <2>2
<1>5. S \subseteq Int
  <2>1. ASSUME NEW i \in DOMAIN history PROVE history[i].snr \in Int
    <3>1. history[i] \in Uplinks
      OBVIOUS
    <3> QED BY <3>1 DEF Uplinks
  <2> QED BY <2>1
<1>6. getMaxSNR(history) = Max({-1998} \cup S)
  BY DEF getMaxSNR
<1> HIDE DEF S
<1>7. {-1998} \cup S \in SUBSET Int
  BY <1>5
<1> QED
  BY <1>4, <1>6, <1>7, MaxOK

AdrRequests == [adr : BOOLEAN, link : Links, maxPower : 0..BandMaxPower, history : Seq(Uplinks)]

\* The link l is one the algorithms may ask for in place of that of the request.
LinkOK(l, req) ==
    /\ l \in Links
    /\ l.power <= req.link.power \/ l.power <= req.maxPower

\* The default algorithm
LEMMA DefaultOK ==
    ASSUME NEW req \in AdrRequests
    PROVE  LinkOK(DefaultHandle(req), req)
<1> DEFINE resp == [dr |-> Min({req.link.dr, HighestDR}),
                    power |-> req.link.power,
                    nb |-> getNbTrans(req.link.nb, getPacketLossPercentage(req.history))]
           margin == getMaxSNR(req.history)
                       - SpreadFactorToRequiredSNR(DataRates[req.link.dr].sf)
                       - InstallationMargin
           nStep == TowardsZero(margin, 6)
           ideal == getIdealTxPowerIndexAndDR(nStep, resp, req.maxPower, HighestDR)
<1>1. /\ req.link \in Links /\ req.link.dr \in DOMAIN DataRates /\ req.link.dr \in Nat
      /\ req.link.power \in 0..BandMaxPower /\ req.link.nb \in 1..3 /\ req.history \in Seq(Uplinks)
      /\ req.maxPower \in 0..BandMaxPower /\ BandMaxPower \in Nat
  BY HighestOK, MacAssumption DEF AdrRequests, Links
<1>2. /\ HighestDR \in DOMAIN DataRates /\ HighestDR \in Nat /\ DOMAIN DataRates \subseteq Nat
      /\ \A i \in DOMAIN DataRates : 0..i \subseteq DOMAIN DataRates
  BY HighestOK, AdrAssumption
<1>3. LinkOK(req.link, req)
  BY <1>1 DEF LinkOK
<1>4. resp.nb \in 1..3
  BY <1>1, NbTransOK
<1>5. resp.dr \in DOMAIN DataRates /\ resp.dr \in Nat /\ resp.dr <= HighestDR
  <2>1. Min({req.link.dr, HighestDR}) \in {req.link.dr, HighestDR}
        /\ Min({req.link.dr, HighestDR}) <= HighestDR
    <3>1. req.link.dr \in Int /\ HighestDR \in Int
      BY <1>1, <1>2
    <3> QED BY <3>1, MinTwo, Zenon
  <2> QED BY <1>1, <1>2, <2>1
<1>6. resp \in Links /\ resp \in Numbers /\ resp.power = req.link.power
  <2>1. getNbTrans(req.link.nb, getPacketLossPercentage(req.history)) \in 1..3
    BY <1>4
  <2>2. Min({req.link.dr, HighestDR}) \in DOMAIN DataRates \cap Nat
    BY <1>5
  <2> QED BY <1>1, <2>1, <2>2 DEF Links, Numbers
<1>7. nStep \in Int
  <2>1. SpreadFactorToRequiredSNR(DataRates[req.link.dr].sf) \in Int
    BY DEF SpreadFactorToRequiredSNR
  <2>2. margin \in Int
    BY <1>1, <2>1, MaxSNROK, AdrAssumption
  <2> HIDE DEF margin
  <2> QED BY <2>2 DEF TowardsZero
<1> HIDE DEF resp, nStep
<1>8. /\ ideal \in Numbers /\ ideal.nb = resp.nb /\ ideal.dr <= HighestDR
      /\ ideal.power <= resp.power \/ ideal.power <= req.maxPower
  <2>1. req.maxPower \in Nat
    BY <1>1
  <2> QED BY <1>2, <1>5, <1>6, <1>7, <2>1, IdealOK, Zenon
<1>9. LinkOK(ideal, req)
  <2> HIDE DEF ideal
  <2>1. ideal.dr \in 0..HighestDR /\ ideal.power \in Nat /\ ideal.nb \in 1..3
    BY <1>2, <1>4, <1>8 DEF Numbers
  <2>2. ideal.dr \in DOMAIN DataRates /\ ideal.power \in 0..BandMaxPower
    BY <1>1, <1>2, <1>6, <1>8, <2>1
  <2>3. ideal = [dr |-> ideal.dr, power |-> ideal.power, nb |-> ideal.nb]
    BY <1>8 DEF Numbers
  <2>4. ideal \in Links
    BY <2>1, <2>2, <2>3 DEF Links
  <2> QED BY <1>6, <1>8, <2>4 DEF LinkOK
<1>10. LinkOK(resp, req)
  <2>1. resp.power <= req.link.power
    BY <1>1, <1>6
  <2> QED BY <1>6, <2>1 DEF LinkOK
<1>11. DefaultHandle(req) \in {req.link, resp, ideal}
  <2>1. DefaultHandle(req) = IF ~req.adr THEN req.link
        ELSE IF nStep < 0 /\ getHistoryCount(req.history, req.link.power) # RequiredHistory
        THEN resp ELSE ideal
    BY DEF DefaultHandle, resp, nStep
  <2> HIDE DEF ideal
  <2> QED BY <2>1
<1> HIDE DEF ideal
<1> QED
  BY <1>3, <1>9, <1>10, <1>11

\* LR-FHSS
LEMMA LRFHSSOK ==
    ASSUME NEW req \in AdrRequests, NEW l \in LRFHSSHandle(req)
    PROVE  LinkOK(l, req)
<1>1. req.link \in Links /\ req.link.power \in Nat /\ req.maxPower \in Nat
  BY MacAssumption DEF AdrRequests, Links
<1>2. l = req.link \/ \E dr \in EnabledDataRates : l = [dr |-> dr, power |-> 0, nb |-> 1]
  BY DEF LRFHSSHandle, LRFHSSWith
<1>3. CASE l = req.link
  BY <1>1, <1>3 DEF LinkOK
<1>4. ASSUME NEW dr \in EnabledDataRates, l = [dr |-> dr, power |-> 0, nb |-> 1]
      PROVE  LinkOK(l, req)
  <2>1. dr \in DOMAIN DataRates
    BY AdrAssumption
  <2> QED BY <1>1, <1>4, <2>1, MacAssumption DEF LinkOK, Links
<1> QED
  BY <1>2, <1>3, <1>4

\* Whatever the algorithm, it asks for a link of the band with a power index no
\* higher than the one the device has or the one it is known to support.
LEMMA AdrOK ==
    ASSUME NEW req \in AdrRequests, NEW l \in GetHandler(Algorithm, req)
    PROVE  LinkOK(l, req)
<1>1. \/ l \in LRFHSSHandle(req) \/ l = DefaultHandle(req)
  BY DEF GetHandler, LoRaLRFHSSHandle
<1> QED
  BY <1>1, DefaultOK, LRFHSSOK

-----------------------------------------------------------------------------
(* The handlers of answers *)

\* Sessions on their way through the answers of an uplink: any number of errors.
Loose ==
    [val : [Params -> Values], extra : SUBSET Channels, enabled : SUBSET Channels,
     link : Links, maxPower : 0..BandMaxPower, pingSlotNb : {0, 1}, adr : BOOLEAN,
     errors : [Cids -> Nat], history : Seq(Uplinks)]

\* The session t is s but for the errors counted against c, no more than n of them new.
Counted(t, s, c, n) ==
    /\ t \in Loose
    /\ t.val = s.val /\ t.link = s.link /\ t.maxPower = s.maxPower
    /\ t.adr = s.adr /\ t.history = s.history
    /\ t.extra = s.extra /\ t.enabled = s.enabled
    /\ \A k \in Cids \ {c} : t.errors[k] = s.errors[k]
    /\ t.errors[c] <= s.errors[c] + n

\* A refused request is counted against its command only (SetError).
LEMMA CountErrorOK ==
    ASSUME NEW s \in Loose, NEW c \in Cids
    PROVE  Counted(CountError(s, c), s, c, 1)
<1> DEFINE e == [s.errors EXCEPT ![c] = @ + 1]
           t == [s EXCEPT !.errors = e]
<1>1. s.errors \in [Cids -> Nat]
  BY DEF Loose
<1>2. /\ e \in [Cids -> Nat] /\ e[c] <= s.errors[c] + 1
      /\ \A k \in Cids \ {c} : e[k] = s.errors[k]
  BY <1>1
<1>3. CountError(s, c) = t
  BY DEF CountError
<1> HIDE DEF e
<1>4. t \in Loose /\ t.errors = e
  BY <1>2 DEF Loose
<1>5. /\ t.val = s.val /\ t.link = s.link /\ t.maxPower = s.maxPower
      /\ t.adr = s.adr /\ t.history = s.history
      /\ t.extra = s.extra /\ t.enabled = s.enabled
  BY DEF Loose
<1> HIDE DEF t
<1> QED
  BY <1>2, <1>3, <1>4, <1>5 DEF Counted

\* An accepted request resets what is counted against its command only.
LEMMA ResetErrorsOK ==
    ASSUME NEW s \in Loose, NEW c \in Cids
    PROVE  Counted(ResetErrors(s, c), s, c, 0)
<1> DEFINE e == [s.errors EXCEPT ![c] = 0]
           t == [s EXCEPT !.errors = e]
<1>1. s.errors \in [Cids -> Nat]
  BY DEF Loose
<1>2. /\ e \in [Cids -> Nat] /\ e[c] <= s.errors[c] + 0
      /\ \A k \in Cids \ {c} : e[k] = s.errors[k]
  BY <1>1
<1>3. ResetErrors(s, c) = t
  BY DEF ResetErrors
<1> HIDE DEF e
<1>4. t \in Loose /\ t.errors = e
  BY <1>2 DEF Loose
<1>5. /\ t.val = s.val /\ t.link = s.link /\ t.maxPower = s.maxPower
      /\ t.adr = s.adr /\ t.history = s.history
      /\ t.extra = s.extra /\ t.enabled = s.enabled
  BY DEF Loose
<1> HIDE DEF t
<1> QED
  BY <1>2, <1>3, <1>4, <1>5 DEF Counted

\* The session t is s with the channels `got`, of n that were asked for.
Channelled(t, s, got, n) ==
    /\ t \in Loose
    /\ t.val = s.val /\ t.link = s.link /\ t.maxPower = s.maxPower
    /\ t.adr = s.adr /\ t.history = s.history
    /\ t.extra = s.extra \cup got /\ t.enabled = s.enabled \cup got
    /\ \A c \in Cids \ {"NewChannel"} : t.errors[c] = s.errors[c]
    /\ t.errors["NewChannel"] <= s.errors["NewChannel"] + n

\* An answer to one channel.
OneChannel(t, ans, req, i) ==
    IF ans[i].ok
    THEN [ResetErrors(t, "NewChannel") EXCEPT !.extra = @ \cup {req[i]},
                                              !.enabled = @ \cup {req[i]}]
    ELSE CountError(t, "NewChannel")

\* One accepted channel is added, one refused channel is counted (handleNewChannelAns).
LEMMA OneChannelOK ==
    ASSUME NEW t \in Loose, NEW ans, NEW req, NEW i, req[i] \in Channels
    PROVE  Channelled(OneChannel(t, ans, req, i), t, IF ans[i].ok THEN {req[i]} ELSE {}, 1)
<1>1. t.errors \in [Cids -> Nat] /\ "NewChannel" \in Cids
  BY DEF Loose, Cids
<1>2. CASE ans[i].ok
  <2> DEFINE v == ResetErrors(t, "NewChannel")
             u == [v EXCEPT !.extra = @ \cup {req[i]}, !.enabled = @ \cup {req[i]}]
  <2>1. OneChannel(t, ans, req, i) = u
    BY <1>2 DEF OneChannel
  <2>2. Counted(v, t, "NewChannel", 0)
    BY <1>1, ResetErrorsOK
  <2> HIDE DEF v
  <2>3. v \in Loose
    BY <2>2 DEF Counted
  <2>4. u \in Loose /\ u.extra = v.extra \cup {req[i]} /\ u.enabled = v.enabled \cup {req[i]}
    <3>1. v.extra \cup {req[i]} \in SUBSET Channels /\ v.enabled \cup {req[i]} \in SUBSET Channels
      BY <2>3 DEF Loose
    <3> QED BY <2>3, <3>1 DEF Loose
  <2>5. /\ u.val = v.val /\ u.link = v.link /\ u.maxPower = v.maxPower
        /\ u.adr = v.adr /\ u.history = v.history /\ u.errors = v.errors
    BY <2>3 DEF Loose
  <2> HIDE DEF u
  <2>6. t.errors["NewChannel"] \in Nat /\ v.errors["NewChannel"] \in Nat
    BY <1>1, <2>3 DEF Loose
  <2>7. u.errors["NewChannel"] <= t.errors["NewChannel"] + 1
    BY <2>2, <2>5, <2>6 DEF Counted
  <2> QED BY <1>2, <2>1, <2>2, <2>4, <2>5, <2>7 DEF Channelled, Counted
<1>3. CASE ~ans[i].ok
  <2> DEFINE u == CountError(t, "NewChannel")
  <2>1. OneChannel(t, ans, req, i) = u
    BY <1>3 DEF OneChannel
  <2>2. Counted(u, t, "NewChannel", 1)
    BY <1>1, CountErrorOK
  <2> HIDE DEF u
  <2> QED BY <1>3, <2>1, <2>2 DEF Channelled, Counted
<1> QED
  BY <1>2, <1>3

\* handleNewChannelAns adds the channels that are accepted.
LEMMA NewChannelAnsOK ==
    ASSUME NEW s \in Loose, NEW ans \in Seq(Replies), NEW pend \in Blocks, Shape(pend),
           pend.cid = "NewChannel", Len(ans) = Len(pend.req)
    PROVE  Channelled(handleNewChannelAns(s, ans, pend), s,
                      {pend.req[i] : i \in {j \in 1..Len(ans) : ans[j].ok}}, Len(ans))
<1> DEFINE N == Len(ans)
           req == pend.req
           one(t, i) == OneChannel(t, ans, req, i)
           got(n) == {req[i] : i \in {j \in 1..n : ans[j].ok}}
           step == [k \in 1..N |-> [t \in Loose |-> one(t, k)]]
           D(f) == [n \in 0..N |-> IF n = 0 THEN s ELSE one(f[n - 1], n)]
           after == CHOOSE f : f = D(f)
<1>1. N \in Nat /\ \A i \in 1..N : req[i] \in Channels
  <2>1. req \in Seq(CustomChannels) /\ N = Len(req)
    BY DEF Shape
  <2> QED BY <2>1 DEF Channels
<1>2. handleNewChannelAns(s, ans, pend) = after[N]
  <2>1. pend # NoBlock
    BY DEF NoBlock
  <2> QED BY <2>1 DEF handleNewChannelAns, OneChannel
<1>3. \A k \in 1..N, t \in Loose : Channelled(one(t, k), t, IF ans[k].ok THEN {req[k]} ELSE {}, 1)
  BY <1>1, OneChannelOK
<1>4. \A k \in 1..N, t \in Loose : one(t, k) \in Loose
  <2> HIDE DEF one
  <2> QED BY <1>3 DEF Channelled
<1> HIDE DEF one, N
<1>5. step \in [1..N -> [Loose -> Loose]]
  BY <1>4
<1>6. \E f : f = D(f)
  <2>1. PICK f : IsLoop(f, Loose, s, step, N)
    <3> HIDE DEF step
    <3> QED BY <1>1, <1>5, LoopExists
  <2>2. f = [n \in 0..N |-> f[n]] /\ f[0] = s
    BY <2>1 DEF IsLoop
  <2>3. ASSUME NEW k \in 1..N PROVE f[k] = one(f[k - 1], k)
    <3>1. f[k - 1] \in Loose /\ f[k] = step[k][f[k - 1]]
      <4> HIDE DEF step
      <4> QED BY <1>1, <2>1 DEF IsLoop
    <3> QED BY <3>1
  <2>4. \A n \in 0..N : f[n] = IF n = 0 THEN s ELSE one(f[n - 1], n)
    <3> SUFFICES ASSUME NEW n \in 0..N PROVE f[n] = IF n = 0 THEN s ELSE one(f[n - 1], n)
      OBVIOUS
    <3>1. n # 0 => n \in 1..N
      BY <1>1
    <3> QED BY <2>2, <2>3, <3>1
  <2> QED BY <2>2, <2>4
<1>7. after = D(after)
  BY <1>6
<1> HIDE DEF after
<1>8. after[0] = s /\ \A k \in 1..N : after[k] = one(after[k - 1], k)
  <2>1. \A k \in 0..N : after[k] = D(after)[k]
    BY <1>7
  <2> QED BY <1>1, <2>1
<1> DEFINE G == {n \in 0..N : Channelled(after[n], s, got(n), n)}
<1>9. 0 \in G
  <2>1. got(0) = {} /\ s.errors["NewChannel"] \in Nat
    BY DEF Loose, Cids
  <2> QED BY <1>1, <1>8, <2>1 DEF Channelled
<1>10. ASSUME NEW m \in 1..N, m - 1 \in G PROVE m \in G
  <2> DEFINE t == after[m - 1]
             u == after[m]
             new == IF ans[m].ok THEN {req[m]} ELSE {}
  <2>1. Channelled(t, s, got(m - 1), m - 1)
    BY <1>10
  <2>2. Channelled(u, t, new, 1)
    <3>1. t \in Loose
      BY <2>1 DEF Channelled
    <3> QED BY <1>3, <1>8, <3>1
  <2>3. got(m) = got(m - 1) \cup new
    <3>1. \A i \in 1..m : i \in 1..(m - 1) \/ i = m
      BY <1>1
    <3>2. 1..(m - 1) \subseteq 1..m /\ m \in 1..m
      BY <1>1
    <3> HIDE DEF req
    <3> QED BY <3>1, <3>2
  <2>4. Channelled(u, s, got(m), m)
    <3>1. /\ s.errors["NewChannel"] \in Nat /\ t.errors["NewChannel"] \in Nat
          /\ u.errors["NewChannel"] \in Nat
      BY <2>1, <2>2 DEF Channelled, Loose, Cids
    <3> HIDE DEF t, u, new, got
    <3>2. u.errors["NewChannel"] <= s.errors["NewChannel"] + m
      <4>1. t.errors["NewChannel"] <= s.errors["NewChannel"] + (m - 1)
        BY <2>1 DEF Channelled
      <4>2. u.errors["NewChannel"] <= t.errors["NewChannel"] + 1
        BY <2>2 DEF Channelled
      <4> QED BY <1>1, <3>1, <4>1, <4>2
    <3> QED BY <2>1, <2>2, <2>3, <3>2 DEF Channelled
  <2> QED BY <1>1, <2>4
<1>11. N \in G
  <2> HIDE DEF G
  <2> QED BY <1>1, <1>9, <1>10, Induction
<1> QED
  BY <1>2, <1>11 DEF N

\* What a LinkADRAns makes of the link, the highest power and the channels.
AnsLink(s, bits, req) ==
    IF bits = {"mask", "dr", "power"} THEN [dr |-> req[1], power |-> req[2], nb |-> req[3]]
    ELSE IF ~s.adr /\ "mask" \in bits
    THEN [dr |-> IF "dr" \in bits THEN req[1] ELSE s.link.dr,
          power |-> IF "power" \in bits THEN req[2] ELSE s.link.power, nb |-> req[3]]
    ELSE [s.link EXCEPT !.power = IF "power" \notin bits /\ req[2] = 0 THEN 1 ELSE @]

AnsMaxPower(s, bits, req) ==
    IF bits # {"mask", "dr", "power"} /\ (s.adr \/ "mask" \notin bits)
       /\ "power" \notin bits /\ req[2] > 0
    THEN req[2] - 1 ELSE s.maxPower

AnsEnabled(s, bits, mask) ==
    IF bits = {"mask", "dr", "power"} \/ (~s.adr /\ "mask" \in bits) THEN mask ELSE s.enabled

Linked(t, s, bits, b) ==
    /\ t \in Loose
    /\ t.val = s.val /\ t.adr = s.adr /\ t.history = s.history /\ t.extra = s.extra
    /\ t.link = AnsLink(s, bits, b.req)
    /\ t.maxPower = AnsMaxPower(s, bits, b.req)
    /\ t.enabled = AnsEnabled(s, bits, b.mask)
    /\ \A c \in Cids \ {"LinkADR"} : t.errors[c] = s.errors[c]
    /\ t.errors["LinkADR"] <= s.errors["LinkADR"] + 1

\* A LinkADRAns changes the link, the channels and the highest power as its bits say
\* (handleLinkADRAns).
LEMMA LinkADRAnsOK ==
    ASSUME NEW s \in Loose, NEW ans, NEW pend \in Blocks, Shape(pend), pend.cid = "LinkADR"
    PROVE  Linked(handleLinkADRAns(s, ans, pend), s, ans[1].bits, pend)
<1> DEFINE bits == ans[1].bits
           req == pend.req
           reset == ResetErrors(s, "LinkADR")
           count == CountError(s, "LinkADR")
           t == handleLinkADRAns(s, ans, pend)
<1>1. "LinkADR" \in Cids /\ pend # NoBlock
  BY DEF Cids, NoBlock
<1>2. PICK l \in Links : req = <<l.dr, l.power, l.nb>>
  BY DEF Shape
<1>3. /\ req[1] = l.dr /\ req[2] = l.power /\ req[3] = l.nb
      /\ req[1] \in DOMAIN DataRates /\ req[2] \in 0..BandMaxPower /\ req[3] \in 1..3
      /\ BandMaxPower \in Nat \ {0}
  BY <1>2, MacAssumption DEF Links
<1>4. Counted(reset, s, "LinkADR", 0) /\ Counted(count, s, "LinkADR", 1)
  BY <1>1, ResetErrorsOK, CountErrorOK
<1>5. reset \in Loose /\ count \in Loose /\ s.errors["LinkADR"] \in Nat
      /\ reset.errors["LinkADR"] \in Nat
  BY <1>1, <1>4 DEF Counted, Loose
<1>6. s.link \in Links /\ s.adr \in BOOLEAN /\ s.maxPower \in 0..BandMaxPower
  BY DEF Loose
<1>7. pend.mask \in SUBSET Channels
  BY DEF Blocks
<1>8. reset.errors["LinkADR"] <= s.errors["LinkADR"] + 1
  BY <1>4, <1>5 DEF Counted
<1> HIDE DEF bits, req, reset, count, t
<1>9. CASE bits = {"mask", "dr", "power"}
  <2> DEFINE link == [dr |-> req[1], power |-> req[2], nb |-> req[3]]
             u == [reset EXCEPT !.link = link, !.enabled = pend.mask]
  <2>1. t = u
    BY <1>1, <1>9 DEF t, bits, req, reset, handleLinkADRAns
  <2>2. link \in Links
    BY <1>3 DEF Links
  <2> HIDE DEF link
  <2>3. u \in Loose /\ u.link = link /\ u.enabled = pend.mask
    BY <1>5, <1>7, <2>2 DEF Loose
  <2>4. /\ u.val = reset.val /\ u.maxPower = reset.maxPower /\ u.extra = reset.extra
        /\ u.adr = reset.adr /\ u.history = reset.history /\ u.errors = reset.errors
    BY <1>5 DEF Loose
  <2> HIDE DEF u
  <2>5. AnsLink(s, bits, req) = link /\ AnsMaxPower(s, bits, req) = s.maxPower
        /\ AnsEnabled(s, bits, pend.mask) = pend.mask
    BY <1>9 DEF AnsLink, AnsMaxPower, AnsEnabled, link
  <2> QED
    BY <1>4, <1>8, <2>1, <2>3, <2>4, <2>5 DEF Linked, Counted, t, bits, req
<1>10. CASE bits # {"mask", "dr", "power"} /\ ~s.adr /\ "mask" \in bits
  <2> DEFINE link == [dr |-> IF "dr" \in bits THEN req[1] ELSE s.link.dr,
                      power |-> IF "power" \in bits THEN req[2] ELSE s.link.power,
                      nb |-> req[3]]
             u == [reset EXCEPT !.enabled = pend.mask, !.link = link]
  <2>1. t = u
    <3>1. reset.link = s.link
      BY <1>4 DEF Counted
    <3> QED BY <1>1, <1>10, <3>1 DEF t, bits, req, reset, handleLinkADRAns
  <2>2. link \in Links
    BY <1>3, <1>6 DEF Links
  <2> HIDE DEF link
  <2>3. u \in Loose /\ u.link = link /\ u.enabled = pend.mask
    BY <1>5, <1>7, <2>2 DEF Loose
  <2>4. /\ u.val = reset.val /\ u.maxPower = reset.maxPower /\ u.extra = reset.extra
        /\ u.adr = reset.adr /\ u.history = reset.history /\ u.errors = reset.errors
    BY <1>5 DEF Loose
  <2> HIDE DEF u
  <2>5. AnsLink(s, bits, req) = link /\ AnsMaxPower(s, bits, req) = s.maxPower
        /\ AnsEnabled(s, bits, pend.mask) = pend.mask
    BY <1>10 DEF AnsLink, AnsMaxPower, AnsEnabled, link
  <2> QED
    BY <1>4, <1>8, <2>1, <2>3, <2>4, <2>5 DEF Linked, Counted, t, bits, req
<1>11. CASE bits # {"mask", "dr", "power"} /\ ~(~s.adr /\ "mask" \in bits)
  <2> DEFINE link == [s.link EXCEPT !.power = IF "power" \notin bits /\ req[2] = 0 THEN 1 ELSE @]
             maxPower == IF "power" \notin bits /\ req[2] > 0 THEN req[2] - 1 ELSE s.maxPower
             u == [count EXCEPT !.link = link, !.maxPower = maxPower]
  <2>1. t = u
    <3>1. count.link = s.link /\ count.maxPower = s.maxPower
      BY <1>4 DEF Counted
    <3> QED BY <1>1, <1>11, <3>1 DEF t, bits, req, count, handleLinkADRAns
  <2>2. link \in Links /\ maxPower \in 0..BandMaxPower
    BY <1>3, <1>6 DEF Links
  <2> HIDE DEF link, maxPower
  <2>3. u \in Loose /\ u.link = link /\ u.maxPower = maxPower
    BY <1>5, <2>2 DEF Loose
  <2>4. /\ u.val = count.val /\ u.enabled = count.enabled /\ u.extra = count.extra
        /\ u.adr = count.adr /\ u.history = count.history /\ u.errors = count.errors
    BY <1>5 DEF Loose
  <2> HIDE DEF u
  <2>5. AnsLink(s, bits, req) = link /\ AnsMaxPower(s, bits, req) = maxPower
        /\ AnsEnabled(s, bits, pend.mask) = s.enabled
    BY <1>6, <1>11 DEF AnsLink, AnsMaxPower, AnsEnabled, link, maxPower
  <2> QED
    BY <1>4, <2>1, <2>3, <2>4, <2>5 DEF Linked, Counted, t, bits, req
<1> QED
  BY <1>9, <1>10, <1>11 DEF t, bits, req

\* An answer about the parameter p: the requested value, if the device accepts it.
Valued(t, s, p, pend) ==
    /\ t \in Loose
    /\ t.val = IF pend # NoBlock /\ p \notin RefusedParams
               THEN [s.val EXCEPT ![p] = pend.req[1]] ELSE s.val
    /\ t.link = s.link /\ t.maxPower = s.maxPower
    /\ t.adr = s.adr /\ t.history = s.history
    /\ t.extra = s.extra /\ t.enabled = s.enabled
    /\ \A c \in Cids \ {p} : t.errors[c] = s.errors[c]
    /\ t.errors[p] = s.errors[p] \/ (pend # NoBlock /\ t.errors[p] <= s.errors[p] + 1)

\* The request of a pending block, or none.
PendingOK(pend, cid) ==
    pend = NoBlock \/ (pend \in Blocks /\ Shape(pend) /\ pend.cid = cid)

\* The answer to the request of a parameter sets the value that was asked for.
LEMMA SetParamOK ==
    ASSUME NEW s \in Loose, NEW p \in Params, NEW pend \in Blocks, Shape(pend), pend.cid = p,
           NEW r \in Loose, Counted(r, s, p, 0), p \notin RefusedParams, NEW t,
           t = SetParam(r, p, pend)
    PROVE  Valued(t, s, p, pend)
<1>1. PICK v \in Values : pend.req = <<v>>
  BY DEF Shape
<1>2. pend.req[1] = v /\ pend # NoBlock /\ p \in Cids
  <2>1. pend # NoBlock
    BY CidsOK DEF NoBlock, Cids
  <2> QED BY <1>1, <2>1 DEF Cids
<1> DEFINE val == [r.val EXCEPT ![p] = v]
           u == [r EXCEPT !.val = val]
<1>3. t = u
  BY <1>2 DEF SetParam
<1>4. val \in [Params -> Values]
  BY DEF Loose
<1> HIDE DEF val
<1>5. u \in Loose /\ u.val = val
  BY <1>4 DEF Loose
<1>6. /\ u.link = r.link /\ u.maxPower = r.maxPower /\ u.adr = r.adr /\ u.history = r.history
      /\ u.extra = r.extra /\ u.enabled = r.enabled /\ u.errors = r.errors
  BY DEF Loose
<1> HIDE DEF u
<1>7. r.val = s.val
  BY DEF Counted
<1>8. val = [s.val EXCEPT ![p] = pend.req[1]]
  BY <1>2, <1>7 DEF val
<1>9. u.errors[p] <= s.errors[p] + 1
  <2>1. r.errors[p] \in Nat /\ s.errors[p] \in Nat /\ r.errors[p] <= s.errors[p] + 0
    BY <1>2 DEF Loose, Counted
  <2> QED BY <1>6, <2>1
<1> QED
  BY <1>2, <1>3, <1>5, <1>6, <1>8, <1>9 DEF Valued, Counted

\* The handlers of the answers about the parameters.
LEMMA ParamAnsOK ==
    ASSUME NEW s \in Loose, NEW p \in Params, NEW ans, Len(ans) = 1,
           ans[1].ok <=> p \notin RefusedParams, NEW pend, PendingOK(pend, p)
    PROVE  Valued(Handle(s, p, ans, pend), s, p, pend)
<1>1. p \in Cids /\ p \in {"RejoinParamSetup", "PingSlotChannel", "RXParamSetup",
                           "RXTimingSetup", "TXParamSetup"}
  BY CidsOK DEF Cids
<1>2. /\ p = "RXParamSetup" => Handle(s, p, ans, pend) = handleRXParamSetupAns(s, ans, pend)
      /\ p = "RXTimingSetup" => Handle(s, p, ans, pend) = handleRXTimingSetupAns(s, pend)
      /\ p = "TXParamSetup" => Handle(s, p, ans, pend) = handleTXParamSetupAns(s, pend)
      /\ p = "PingSlotChannel" => Handle(s, p, ans, pend) = handlePingSlotChannelAns(s, ans, pend)
      /\ p = "RejoinParamSetup" => Handle(s, p, ans, pend) = handleRejoinParamSetupAns(s, ans, pend)
  BY DEF Handle
<1>3. CASE pend = NoBlock
  <2>1. Handle(s, p, ans, pend) = s
    BY <1>1, <1>2, <1>3 DEF handleRXParamSetupAns, handleRXTimingSetupAns, handleTXParamSetupAns,
          handlePingSlotChannelAns, handleRejoinParamSetupAns
  <2> QED BY <1>3, <2>1 DEF Valued
<1>4. CASE pend # NoBlock /\ p \in RefusedParams
  <2>1. p \in {"RXParamSetup", "PingSlotChannel"}
    BY <1>4, MacAssumption
  <2>2. Handle(s, p, ans, pend) = CountError(s, p)
    BY <1>2, <1>4, <2>1 DEF handleRXParamSetupAns, handlePingSlotChannelAns
  <2>3. Counted(CountError(s, p), s, p, 1)
    BY <1>1, CountErrorOK
  <2> QED BY <1>4, <2>2, <2>3 DEF Valued, Counted
<1>5. CASE pend # NoBlock /\ p \notin RefusedParams
  <2>1. pend \in Blocks /\ Shape(pend) /\ pend.cid = p
    BY <1>5 DEF PendingOK
  <2>2. Counted(ResetErrors(s, p), s, p, 0) /\ ResetErrors(s, p) \in Loose
    BY <1>1, ResetErrorsOK DEF Counted
  <2>3. Counted(s, s, p, 0)
    <3>1. s.errors[p] \in Nat
      BY <1>1 DEF Loose
    <3> QED BY <3>1 DEF Counted
  <2>4. Handle(s, p, ans, pend) \in {SetParam(s, p, pend), SetParam(ResetErrors(s, p), p, pend)}
    BY <1>1, <1>2, <1>5 DEF handleRXParamSetupAns, handleRXTimingSetupAns, handleTXParamSetupAns,
          handlePingSlotChannelAns, handleRejoinParamSetupAns
  <2> QED BY <1>5, <2>1, <2>2, <2>3, <2>4, SetParamOK
<1> QED
  BY <1>3, <1>4, <1>5

\* The other commands: the number of ping slots, if anything.
Other(t, s) ==
    /\ t \in Loose
    /\ t.val = s.val /\ t.link = s.link /\ t.maxPower = s.maxPower
    /\ t.adr = s.adr /\ t.history = s.history /\ t.errors = s.errors
    /\ t.extra = s.extra /\ t.enabled = s.enabled

\* The requests of a device and the other answers leave its settings alone (Handle).
LEMMA OtherOK ==
    ASSUME NEW s \in Loose, NEW cid \in Asks \cup ExtCids \cup {"DevStatusReq"}, NEW ans, NEW pend
    PROVE  Other(Handle(s, cid, ans, pend), s)
<1>1. \/ Handle(s, cid, ans, pend) = s
      \/ Handle(s, cid, ans, pend) = [s EXCEPT !.pingSlotNb = 1]
  <2>1. cid \notin {"LinkADR", "NewChannel", "RXParamSetup", "RXTimingSetup", "TXParamSetup",
                    "PingSlotChannel", "RejoinParamSetup", "ResetInd"}
    BY CidsOK
  <2> QED BY <2>1 DEF Handle, handlePingSlotInfoReq, handleDevStatusAns
<1>2. CASE Handle(s, cid, ans, pend) = s
  BY <1>2 DEF Other
<1>3. CASE Handle(s, cid, ans, pend) = [s EXCEPT !.pingSlotNb = 1]
  <2> DEFINE u == [s EXCEPT !.pingSlotNb = 1]
  <2>1. u \in Loose
    BY DEF Loose
  <2>2. /\ u.val = s.val /\ u.link = s.link /\ u.maxPower = s.maxPower
        /\ u.adr = s.adr /\ u.history = s.history /\ u.errors = s.errors
        /\ u.extra = s.extra /\ u.enabled = s.enabled
    BY DEF Loose
  <2> HIDE DEF u
  <2> QED BY <1>3, <2>1, <2>2 DEF Other, u
<1> QED
  BY <1>1, <1>2, <1>3

-----------------------------------------------------------------------------
(* The answers of an uplink *)

\* What the answers say of the link, and the channels they say the device has.
LinkBits == Group(round.cmds, "LinkADR")[1].bits
NewChannels == ToSet(pending["NewChannel"].req) \ RefusedChannels

\* The answers of an uplink are read with the pending requests.
LEMMA AnswerOK ==
    ASSUME Typed, PendingInv, ReplyFlight, "ResetInd" \notin CidsOf(round.cmds),
           NEW t \in Loose, NEW i \in DOMAIN round.cmds, NEW c, c = round.cmds[i].cid, NEW u,
           u = Handle(t, c, Group(round.cmds, c), pending[c])
    PROVE  /\ c \in Params => Valued(u, t, c, pending[c])
           /\ c = "LinkADR" => Linked(u, t, LinkBits, pending["LinkADR"])
           /\ c = "NewChannel" => Channelled(u, t, NewChannels, MaxNewChannels)
           /\ c \notin Params \cup {"LinkADR", "NewChannel"} => Other(u, t)
<1> DEFINE cmds == round.cmds
           ans == Group(cmds, c)
<1>1. cmds \in Seq(Replies) /\ cmds[i] \in Replies /\ c \in Cids
  <2>1. cmds \in Seq(Replies)
    BY DEF Typed, Rounds
  <2>2. cmds[i] \in Replies
    BY <2>1
  <2> QED BY <2>1, <2>2 DEF Replies
<1>2. ReplyInv(cmds, cmds[i]) /\ OneEach(cmds)
  BY DEF ReplyFlight, Replied
<1>3. PendingOK(pending[c], c)
  <2>1. pending[c] \in Blocks \cup {NoBlock}
    BY <1>1 DEF Typed
  <2>2. pending[c] # NoBlock => pending[c].cid = c /\ Shape(pending[c])
    BY <1>1 DEF PendingInv
  <2> QED BY <2>1, <2>2 DEF PendingOK
<1>4. ASSUME c \in Params \cup {"LinkADR"}
      PROVE  Len(ans) = 1 /\ ans[1] = cmds[i]
  <2>1. \A j \in DOMAIN cmds : cmds[j].cid = cmds[i].cid => j = i
    BY <1>2, <1>4 DEF OneEach
  <2> QED BY <1>1, <2>1, GroupOne
<1>5. CASE c \in Params
  <2>1. c \notin {"LinkADR", "NewChannel"}
    BY <1>5, CidsOK
  <2>2. ans[1].ok <=> c \notin RefusedParams
    BY <1>2, <1>4, <1>5 DEF ReplyInv
  <2>3. Valued(u, t, c, pending[c])
    <3> HIDE DEF ans
    <3>1. u = Handle(t, c, ans, pending[c]) /\ Len(ans) = 1
      BY <1>4, <1>5 DEF ans
    <3> QED BY <1>3, <1>5, <2>2, <3>1, ParamAnsOK
  <2> QED BY <1>5, <2>1, <2>3
<1>6. CASE c = "LinkADR"
  <2>1. pending[c] \in Blocks /\ Shape(pending[c]) /\ pending[c].cid = "LinkADR"
    BY <1>2, <1>3, <1>6 DEF PendingOK, ReplyInv
  <2>2. Linked(handleLinkADRAns(t, ans, pending[c]), t, ans[1].bits, pending[c])
    <3> HIDE DEF ans
    <3> QED BY <2>1, LinkADRAnsOK
  <2>3. u = handleLinkADRAns(t, ans, pending[c])
    BY <1>6 DEF Handle
  <2> QED BY <1>6, <2>2, <2>3, CidsOK DEF LinkBits
<1>7. CASE c = "NewChannel"
  <2> DEFINE b == pending["NewChannel"]
             n == Len(b.req)
  <2>1. b # NoBlock /\ ChannelAnswers(cmds, b)
    BY <1>2, <1>7 DEF ReplyInv
  <2>2. b \in Blocks /\ Shape(b) /\ b.cid = "NewChannel"
    BY <1>3, <1>7, <2>1 DEF PendingOK
  <2>3. b.req \in Seq(CustomChannels) /\ n \in 1..MaxNewChannels
    BY <2>2 DEF Shape
  <2> HIDE DEF b
  <2>4. PICK a \in 0..Len(cmds) :
            /\ {j \in DOMAIN cmds : cmds[j].cid = "NewChannel"} = (a + 1)..(a + n)
            /\ \A j \in 1..n : cmds[a + j].ok = (b.req[j] \notin RefusedChannels)
    BY <2>1 DEF ChannelAnswers
  <2>5. a \in Nat /\ n \in Nat /\ a + n <= Len(cmds)
    <3>1. a + n \in (a + 1)..(a + n)
      <4>1. Len(cmds) \in Nat
        BY <1>1
      <4>2. a \in Nat /\ n \in Nat /\ n >= 1
        <5>1. MaxNewChannels = 3
          BY DEF MaxNewChannels
        <5> HIDE DEF n, cmds
        <5>2. a \in Nat
          BY <4>1
        <5> QED BY <2>3, <5>1, <5>2
      <4> HIDE DEF n
      <4> QED BY <4>2
    <3>2. a + n \in DOMAIN cmds /\ DOMAIN cmds = 1..Len(cmds)
      BY <1>1, <2>4, <3>1
    <3> QED BY <1>1, <2>3, <3>2 DEF MaxNewChannels
  <2>6. ans = Pick(cmds, (a + 1)..(a + n))
    BY <1>7, <2>4 DEF Group
  <2>7. ans \in Seq(Replies) /\ Len(ans) = n /\ \A j \in 1..n : ans[j] = cmds[a + j]
    <3> HIDE DEF ans, cmds, n
    <3> QED BY <1>1, <2>5, <2>6, PickInterval, PickElements
  <2> DEFINE got == {b.req[j] : j \in {k \in 1..Len(ans) : ans[k].ok}}
  <2>8. got = ToSet(b.req) \ RefusedChannels
    <3>1. DOMAIN b.req = 1..n
      BY <2>3
    <3>2. \A k \in 1..n : ans[k].ok <=> b.req[k] \notin RefusedChannels
      BY <2>4, <2>7
    <3> HIDE DEF n
    <3>3. got = {b.req[j] : j \in {k \in 1..n : b.req[k] \notin RefusedChannels}}
      BY <2>7, <3>2
    <3>4. ToSet(b.req) = {b.req[j] : j \in 1..n}
      BY <3>1 DEF ToSet
    <3> HIDE DEF got
    <3> QED BY <3>3, <3>4
  <2>9. Channelled(handleNewChannelAns(t, ans, b), t, got, n)
    <3>1. \A x \in Seq(Replies) : Len(x) = Len(b.req) =>
              Channelled(handleNewChannelAns(t, x, b), t,
                         {b.req[j] : j \in {k \in 1..Len(x) : x[k].ok}}, Len(x))
      BY <2>2, NewChannelAnsOK
    <3> HIDE DEF ans
    <3> QED BY <2>7, <3>1
  <2>10. u = handleNewChannelAns(t, ans, b)
    BY <1>7 DEF Handle, b
  <2>11. Channelled(u, t, NewChannels, MaxNewChannels)
    <3> HIDE DEF got, n
    <3>1. t.errors["NewChannel"] \in Nat /\ n <= MaxNewChannels /\ n \in Nat
      BY <1>1, <1>7, <2>3 DEF Loose, MaxNewChannels
    <3>2. u.errors["NewChannel"] \in Nat
      BY <1>1, <1>7, <2>9, <2>10 DEF Channelled, Loose
    <3>3. u.errors["NewChannel"] <= t.errors["NewChannel"] + MaxNewChannels
      BY <2>9, <2>10, <3>1, <3>2 DEF Channelled, MaxNewChannels
    <3> QED BY <2>8, <2>9, <2>10, <3>3 DEF Channelled, NewChannels, b
  <2> QED BY <1>7, <2>11, CidsOK
<1>8. CASE c \notin Params \cup {"LinkADR", "NewChannel"}
  <2>1. c # "ResetInd"
    BY DEF CidsOf
  <2>2. c \in Asks \cup ExtCids \cup {"DevStatusReq"}
    BY <1>1, <1>8, <2>1 DEF Cids
  <2> QED BY <1>8, <2>2, OtherOK
<1> QED
  BY <1>5, <1>6, <1>7, <1>8

\* The session t is s after answers with the CIDs A.
Answered(t, s, A) ==
    /\ t \in Loose /\ t.adr = s.adr /\ t.history = s.history
    /\ \A p \in Params :
           t.val[p] = IF p \in A /\ p \notin RefusedParams /\ pending[p] # NoBlock
                      THEN pending[p].req[1] ELSE s.val[p]
    /\ \A c \in Cids :
           \/ t.errors[c] = s.errors[c]
           \/ /\ c \in A /\ c \in Special /\ pending[c] # NoBlock
              /\ t.errors[c] <= s.errors[c] + MaxNewChannels
    /\ "LinkADR" \in A =>
           /\ t.link = AnsLink(s, LinkBits, pending["LinkADR"].req)
           /\ t.maxPower = AnsMaxPower(s, LinkBits, pending["LinkADR"].req)
           /\ t.extra = s.extra /\ t.enabled = AnsEnabled(s, LinkBits, pending["LinkADR"].mask)
    /\ "LinkADR" \notin A => t.link = s.link /\ t.maxPower = s.maxPower
    /\ "NewChannel" \in A =>
           t.extra = s.extra \cup NewChannels /\ t.enabled = s.enabled \cup NewChannels
    /\ {"LinkADR", "NewChannel"} \cap A = {} => t.extra = s.extra /\ t.enabled = s.enabled

\* One more group of answers.
LEMMA AnsweredStep ==
    ASSUME Typed, PendingInv, ReplyFlight, "ResetInd" \notin CidsOf(round.cmds),
           NEW s \in Loose, NEW A, NEW t, Answered(t, s, A),
           NEW i \in DOMAIN round.cmds, NEW c, c = round.cmds[i].cid, c \notin A,
           ~{"LinkADR", "NewChannel"} \subseteq A \cup {c},
           NEW u, u = Handle(t, c, Group(round.cmds, c), pending[c])
    PROVE  Answered(u, s, A \cup {c})
<1>1. t \in Loose
  BY DEF Answered
<1>2. /\ c \in Params => Valued(u, t, c, pending[c])
      /\ c = "LinkADR" => Linked(u, t, LinkBits, pending["LinkADR"])
      /\ c = "NewChannel" => Channelled(u, t, NewChannels, MaxNewChannels)
      /\ c \notin Params \cup {"LinkADR", "NewChannel"} => Other(u, t)
  BY <1>1, AnswerOK
<1>3. c \in Cids /\ round.cmds[i] \in Replies
  <2>1. round.cmds \in Seq(Replies)
    BY DEF Typed, Rounds
  <2>2. round.cmds[i] \in Replies
    BY <2>1
  <2> QED BY <2>2 DEF Replies
<1>4. c \in {"LinkADR", "NewChannel"} => pending[c] # NoBlock
  BY DEF ReplyFlight, Replied, ReplyInv
<1>5. t.errors[c] = s.errors[c] /\ s.errors[c] \in Nat
  BY <1>3 DEF Answered, Loose
<1>6. CASE c \in Params
  <2>1. c \notin {"LinkADR", "NewChannel"} /\ Valued(u, t, c, pending[c])
    BY <1>2, <1>6, CidsOK
  <2>2. u \in Loose /\ t.val \in [Params -> Values]
    BY <1>1, <2>1 DEF Valued, Loose
  <2>3. ASSUME NEW p \in Params
        PROVE  u.val[p] = IF p \in A \cup {c} /\ p \notin RefusedParams /\ pending[p] # NoBlock
                          THEN pending[p].req[1] ELSE s.val[p]
    <3>1. p # c => u.val[p] = t.val[p]
      BY <2>1, <2>2 DEF Valued
    <3>2. p = c => u.val[p] = IF p \notin RefusedParams /\ pending[p] # NoBlock
                              THEN pending[p].req[1] ELSE t.val[p]
      <4> DEFINE v == pending[c].req[1]
      <4>1. u.val = IF pending[c] # NoBlock /\ c \notin RefusedParams
                    THEN [t.val EXCEPT ![c] = v] ELSE t.val
        BY <2>1 DEF Valued
      <4> HIDE DEF v
      <4>2. [t.val EXCEPT ![c] = v][c] = v
        BY <1>6, <2>2
      <4> QED BY <4>1, <4>2 DEF v
    <3> QED BY <3>1, <3>2 DEF Answered
  <2>4. ASSUME NEW k \in Cids
        PROVE  \/ u.errors[k] = s.errors[k]
               \/ /\ k \in A \cup {c} /\ k \in Special /\ pending[k] # NoBlock
                  /\ u.errors[k] <= s.errors[k] + MaxNewChannels
    <3>1. CASE k # c
      <4>1. u.errors[k] = t.errors[k]
        BY <2>1, <3>1 DEF Valued
      <4> QED BY <4>1 DEF Answered
    <3>2. CASE k = c
      <4>1. \/ u.errors[c] = s.errors[c]
            \/ pending[c] # NoBlock /\ u.errors[c] <= s.errors[c] + 1
        BY <1>5, <2>1 DEF Valued
      <4>2. u.errors[c] \in Nat
        BY <1>3, <2>2 DEF Loose
      <4> QED BY <1>5, <1>6, <3>2, <4>1, <4>2 DEF Special, MaxNewChannels
    <3> QED BY <3>1, <3>2
  <2>5. u.adr = t.adr /\ u.history = t.history /\ u.link = t.link /\ u.maxPower = t.maxPower
        /\ u.extra = t.extra /\ u.enabled = t.enabled
    BY <2>1 DEF Valued
  <2> QED
    BY <2>1, <2>2, <2>3, <2>4, <2>5 DEF Answered
<1>7. CASE c = "LinkADR"
  <2>1. Linked(u, t, LinkBits, pending["LinkADR"]) /\ c \notin Params
        /\ "NewChannel" \notin A /\ "LinkADR" \notin A
    BY <1>2, <1>7, CidsOK
  <2>2. t.adr = s.adr /\ t.link = s.link /\ t.maxPower = s.maxPower
        /\ t.extra = s.extra /\ t.enabled = s.enabled
    BY <2>1 DEF Answered
  <2>3. u.link = AnsLink(s, LinkBits, pending["LinkADR"].req)
        /\ u.maxPower = AnsMaxPower(s, LinkBits, pending["LinkADR"].req)
        /\ u.extra = s.extra /\ u.enabled = AnsEnabled(s, LinkBits, pending["LinkADR"].mask)
    BY <2>1, <2>2 DEF Linked, AnsLink, AnsMaxPower, AnsEnabled
  <2>4. u \in Loose /\ u.val = t.val /\ u.adr = t.adr /\ u.history = t.history
    BY <2>1 DEF Linked
  <2>5. ASSUME NEW k \in Cids
        PROVE  \/ u.errors[k] = s.errors[k]
               \/ /\ k \in A \cup {c} /\ k \in Special /\ pending[k] # NoBlock
                  /\ u.errors[k] <= s.errors[k] + MaxNewChannels
    <3>1. CASE k # c
      <4>1. u.errors[k] = t.errors[k]
        BY <1>7, <2>1, <3>1 DEF Linked
      <4> QED BY <4>1 DEF Answered
    <3>2. CASE k = c
      <4>1. u.errors[c] <= s.errors[c] + 1
        BY <1>5, <1>7, <2>1 DEF Linked
      <4>2. u.errors[c] \in Nat
        BY <1>3, <2>4 DEF Loose
      <4> QED BY <1>4, <1>5, <1>7, <3>2, <4>1, <4>2 DEF Special, MaxNewChannels
    <3> QED BY <3>1, <3>2
  <2>6. ASSUME NEW p \in Params
        PROVE  u.val[p] = IF p \in A \cup {c} /\ p \notin RefusedParams /\ pending[p] # NoBlock
                          THEN pending[p].req[1] ELSE s.val[p]
    BY <1>7, <2>1, <2>4 DEF Answered
  <2>7. u.adr = s.adr /\ u.history = s.history
    BY <2>4 DEF Answered
  <2> QED
    BY <1>7, <2>1, <2>3, <2>4, <2>5, <2>6, <2>7 DEF Answered
<1>8. CASE c = "NewChannel"
  <2>1. Channelled(u, t, NewChannels, MaxNewChannels) /\ c \notin Params
        /\ "NewChannel" \notin A /\ "LinkADR" \notin A
    BY <1>2, <1>8, CidsOK
  <2>2. t.adr = s.adr /\ t.link = s.link /\ t.maxPower = s.maxPower
        /\ t.extra = s.extra /\ t.enabled = s.enabled /\ t.history = s.history
    BY <2>1 DEF Answered
  <2>3. u \in Loose /\ u.val = t.val /\ u.adr = s.adr /\ u.history = s.history
        /\ u.link = s.link /\ u.maxPower = s.maxPower
        /\ u.extra = s.extra \cup NewChannels /\ u.enabled = s.enabled \cup NewChannels
    BY <2>1, <2>2 DEF Channelled
  <2>4. ASSUME NEW k \in Cids
        PROVE  \/ u.errors[k] = s.errors[k]
               \/ /\ k \in A \cup {c} /\ k \in Special /\ pending[k] # NoBlock
                  /\ u.errors[k] <= s.errors[k] + MaxNewChannels
    <3>1. CASE k # c
      <4>1. u.errors[k] = t.errors[k]
        BY <1>8, <2>1, <3>1 DEF Channelled
      <4> QED BY <4>1 DEF Answered
    <3>2. CASE k = c
      <4>1. u.errors[c] <= s.errors[c] + MaxNewChannels
        BY <1>5, <1>8, <2>1 DEF Channelled
      <4> QED BY <1>4, <1>8, <3>2, <4>1 DEF Special
    <3> QED BY <3>1, <3>2
  <2>5. ASSUME NEW p \in Params
        PROVE  u.val[p] = IF p \in A \cup {c} /\ p \notin RefusedParams /\ pending[p] # NoBlock
                          THEN pending[p].req[1] ELSE s.val[p]
    BY <1>8, <2>1, <2>3 DEF Answered
  <2> QED
    BY <1>8, <2>1, <2>3, <2>4, <2>5 DEF Answered
<1>9. CASE c \notin Params \cup {"LinkADR", "NewChannel"}
  <2>1. Other(u, t)
    BY <1>2, <1>9
  <2> QED
    BY <1>9, <2>1 DEF Answered, Other
<1> QED
  BY <1>6, <1>7, <1>8, <1>9

\* The command i of an uplink is handled: with it all of the same CID, once.
HandleOne(t, cmds, i) ==
    IF ~IsFirst(cmds, i) THEN t
    ELSE Handle(t, cmds[i].cid, Group(cmds, cmds[i].cid), pending[cmds[i].cid])

\* The loop of handleUplinkMACCommands.
LEMMA UplinkLoop ==
    ASSUME NEW cmds \in Seq(Replies), NEW s \in Loose, ~DisableMACCommands,
           \A i \in DOMAIN cmds, t \in Loose : HandleOne(t, cmds, i) \in Loose
    PROVE  \E f : /\ f \in [0..Len(cmds) -> Loose] /\ f[0] = s
                  /\ \A k \in 1..Len(cmds) : f[k] = HandleOne(f[k - 1], cmds, k)
                  /\ handleUplinkMACCommands(s, pending, cmds) = f[Len(cmds)]
<1> DEFINE N == Len(cmds)
           one(t, i) == HandleOne(t, cmds, i)
           step == [k \in 1..N |-> [t \in Loose |-> one(t, k)]]
           D(f) == [n \in 0..N |-> IF n = 0 THEN s ELSE one(f[n - 1], n)]
           after == CHOOSE f : f = D(f)
<1>1. N \in Nat /\ DOMAIN cmds = 1..N
  OBVIOUS
<1>2. handleUplinkMACCommands(s, pending, cmds) = after[N]
  BY DEF handleUplinkMACCommands, HandleOne
<1>3. \A k \in 1..N, t \in Loose : one(t, k) \in Loose
  BY <1>1
<1> HIDE DEF one, N
<1>4. step \in [1..N -> [Loose -> Loose]]
  BY <1>3
<1>5. \E f : f = D(f)
  <2>1. PICK f : IsLoop(f, Loose, s, step, N)
    <3> HIDE DEF step
    <3> QED BY <1>1, <1>4, LoopExists
  <2>2. f = [n \in 0..N |-> f[n]] /\ f[0] = s
    BY <2>1 DEF IsLoop
  <2>3. ASSUME NEW k \in 1..N PROVE f[k] = one(f[k - 1], k)
    <3>1. f[k - 1] \in Loose /\ f[k] = step[k][f[k - 1]]
      <4> HIDE DEF step
      <4> QED BY <1>1, <2>1 DEF IsLoop
    <3> QED BY <3>1
  <2>4. \A n \in 0..N : f[n] = IF n = 0 THEN s ELSE one(f[n - 1], n)
    <3> SUFFICES ASSUME NEW n \in 0..N PROVE f[n] = IF n = 0 THEN s ELSE one(f[n - 1], n)
      OBVIOUS
    <3>1. n # 0 => n \in 1..N
      BY <1>1
    <3> QED BY <2>2, <2>3, <3>1
  <2> QED BY <2>2, <2>4
<1>6. after = D(after)
  BY <1>5
<1> HIDE DEF after
<1>7. after[0] = s /\ \A k \in 1..N : after[k] = one(after[k - 1], k)
  <2>1. \A k \in 0..N : after[k] = D(after)[k]
    BY <1>6
  <2> QED BY <1>1, <2>1
<1>8. after \in [0..N -> Loose]
  <2>1. after = [k \in 0..N |-> after[k]]
    BY <1>6
  <2>2. \A k \in 1..N : after[k - 1] \in Loose => after[k] = step[k][after[k - 1]]
    BY <1>7
  <2> HIDE DEF step
  <2>3. IsLoop(after, Loose, s, step, N)
    BY <1>1, <1>4, <1>7, <2>1, <2>2, LoopTyped
  <2> QED BY <2>3 DEF IsLoop
<1> QED
  BY <1>2, <1>7, <1>8 DEF one, N

\* The answers of an uplink without a ResetInd.
LEMMA HandleAnswers ==
    ASSUME Typed, PendingInv, ReplyFlight, "ResetInd" \notin CidsOf(round.cmds),
           NEW s \in Loose, ~DisableMACCommands
    PROVE  Answered(handleUplinkMACCommands(s, pending, round.cmds), s, CidsOf(round.cmds))
<1> DEFINE cmds == round.cmds
           N == Len(cmds)
           A(n) == {cmds[i].cid : i \in 1..n}
<1>1. cmds \in Seq(Replies) /\ N \in Nat /\ DOMAIN cmds = 1..N
  <2>1. cmds \in Seq(Replies)
    BY DEF Typed, Rounds
  <2> HIDE DEF cmds
  <2> QED BY <2>1
<1>2. \A i \in DOMAIN cmds, t \in Loose : HandleOne(t, cmds, i) \in Loose
  <2> SUFFICES ASSUME NEW i \in DOMAIN cmds, NEW t \in Loose PROVE HandleOne(t, cmds, i) \in Loose
    OBVIOUS
  <2> DEFINE c == cmds[i].cid
             u == Handle(t, c, Group(cmds, c), pending[c])
  <2>1. /\ c \in Params => Valued(u, t, c, pending[c])
        /\ c = "LinkADR" => Linked(u, t, LinkBits, pending["LinkADR"])
        /\ c = "NewChannel" => Channelled(u, t, NewChannels, MaxNewChannels)
        /\ c \notin Params \cup {"LinkADR", "NewChannel"} => Other(u, t)
    BY AnswerOK
  <2>2. u \in Loose
    <3> HIDE DEF c, u
    <3> QED BY <2>1 DEF Valued, Linked, Channelled, Other
  <2> QED BY <2>2 DEF HandleOne
<1>3. PICK f : /\ f \in [0..N -> Loose] /\ f[0] = s
               /\ \A k \in 1..N : f[k] = HandleOne(f[k - 1], cmds, k)
               /\ handleUplinkMACCommands(s, pending, cmds) = f[N]
  <2> HIDE DEF cmds
  <2> QED BY <1>1, <1>2, UplinkLoop
<1> DEFINE G == {n \in 0..N : Answered(f[n], s, A(n))}
<1>4. 0 \in G
  <2>1. A(0) = {}
    OBVIOUS
  <2>2. Answered(s, s, {})
    BY DEF Answered
  <2>3. 0 \in 0..N
    BY <1>1
  <2> HIDE DEF A, N
  <2>4. Answered(f[0], s, A(0))
    BY <1>3, <2>1, <2>2
  <2> QED BY <2>3, <2>4
<1>5. ASSUME NEW m \in 1..N, m - 1 \in G PROVE m \in G
  <2> DEFINE c == cmds[m].cid
             t == f[m - 1]
  <2>1. m \in DOMAIN cmds /\ m - 1 \in 0..N /\ m \in 0..N /\ m \in Nat
    BY <1>1
  <2>2. A(m) = A(m - 1) \cup {c}
    <3>1. 1..m = (1..(m - 1)) \cup {m}
      BY <2>1
    <3> QED BY <3>1
  <2>3. Answered(t, s, A(m - 1))
    BY <1>5
  <2>4. f[m] = HandleOne(t, cmds, m)
    BY <1>3
  <2>5. IsFirst(cmds, m) <=> c \notin A(m - 1)
    BY DEF IsFirst
  <2>6. CASE ~IsFirst(cmds, m)
    <3>1. A(m) = A(m - 1)
      BY <2>2, <2>5, <2>6
    <3>2. f[m] = t
      BY <2>4, <2>6 DEF HandleOne
    <3> HIDE DEF A, t
    <3> QED BY <2>1, <2>3, <3>1, <3>2
  <2>7. CASE IsFirst(cmds, m)
    <3>1. ~{"LinkADR", "NewChannel"} \subseteq A(m - 1) \cup {c}
      <4>1. A(m) \subseteq CidsOf(cmds)
        <5>1. \A i \in 1..m : i \in DOMAIN cmds
          BY <1>1, <2>1
        <5> QED BY <5>1 DEF CidsOf
      <4>2. ~{"LinkADR", "NewChannel"} \subseteq CidsOf(cmds)
        BY DEF ReplyFlight, Replied, Apart
      <4> HIDE DEF A, cmds, c
      <4> QED BY <2>2, <4>1, <4>2
    <3>2. f[m] = Handle(t, c, Group(cmds, c), pending[c])
      BY <2>4, <2>7 DEF HandleOne
    <3>3. Answered(f[m], s, A(m - 1) \cup {c})
      <4> HIDE DEF A, t, G
      <4>1. c = round.cmds[m].cid /\ m \in DOMAIN round.cmds
        BY <2>1
      <4>2. f[m] = Handle(t, c, Group(round.cmds, c), pending[c])
        BY <3>2
      <4> HIDE DEF cmds, c
      <4> QED BY <2>3, <2>5, <2>7, <3>1, <4>1, <4>2, AnsweredStep
    <3> HIDE DEF A
    <3> QED BY <2>1, <2>2, <3>3
  <2> QED BY <2>6, <2>7
<1>6. N \in G
  <2> HIDE DEF G, N
  <2> QED BY <1>1, <1>4, <1>5, Induction
<1>7. A(N) = CidsOf(cmds)
  BY <1>1 DEF CidsOf
<1> HIDE DEF A, cmds
<1>8. Answered(f[N], s, CidsOf(cmds))
  BY <1>6, <1>7
<1> QED
  BY <1>3, <1>8 DEF cmds

\* What a reset makes of the session.
Rebooted(t, s) ==
    /\ t \in Loose /\ t.adr = s.adr /\ t.history = s.history /\ t.errors = s.errors
    /\ t.val = [p \in Params |-> IF p \in BootParams THEN Boot ELSE s.val[p]]
    /\ t.extra = {} /\ t.enabled = StandardChannels
    /\ t.link = [s.link EXCEPT !.power = 0, !.nb = 1] /\ t.maxPower = 0

\* ResetInd of a device that does not join: the session is as Rebooted says
\* (ResetToBootParameters).
LEMMA RebootOK ==
    ASSUME NEW s \in Loose, ~SupportsJoin
    PROVE  Rebooted(ResetToBootParameters(s), s)
<1> DEFINE val == [p \in Params |-> IF p \in BootParams THEN Boot ELSE s.val[p]]
           link == [s.link EXCEPT !.power = 0, !.nb = 1]
           u == [s EXCEPT !.val = val, !.extra = {}, !.enabled = StandardChannels,
                          !.link = link, !.maxPower = 0]
<1>1. s.val \in [Params -> Values] /\ s.link \in Links
  BY DEF Loose
<1>2. Boot \in Values /\ BandMaxPower \in Nat
  BY MacAssumption
<1>3. val \in [Params -> Values] /\ link \in Links
  <2>1. \A p \in Params : s.val[p] \in Values
    BY <1>1
  <2>2. val \in [Params -> Values]
    BY <1>2, <2>1
  <2> DEFINE powers == 0..BandMaxPower
             nbs == 1..3
  <2>3. s.link \in [dr : DOMAIN DataRates, power : powers, nb : nbs]
        /\ 0 \in powers /\ 1 \in nbs
    BY <1>1, <1>2 DEF Links
  <2>4. link \in [dr : DOMAIN DataRates, power : powers, nb : nbs]
    <3> HIDE DEF powers, nbs
    <3> QED BY <2>3
  <2>5. link \in Links
    BY <2>4 DEF Links
  <2> QED BY <2>2, <2>5
<1>4. ResetToBootParameters(s) = u
  BY DEF ResetToBootParameters
<1> HIDE DEF val, link
<1> DEFINE v == [s EXCEPT !.val = val, !.extra = {}, !.enabled = StandardChannels]
<1>5. v \in Loose
  <2>1. StandardChannels \in SUBSET Channels /\ {} \in SUBSET Channels
    BY DEF Channels
  <2> QED BY <1>3, <2>1 DEF Loose
<1>6. u = [v EXCEPT !.link = link, !.maxPower = 0]
  OBVIOUS
<1>7. /\ v.val = val /\ v.extra = {} /\ v.enabled = StandardChannels
      /\ v.adr = s.adr /\ v.history = s.history /\ v.errors = s.errors
  BY DEF Loose
<1> HIDE DEF u, v
<1>8. u \in Loose
  <2>1. 0 \in 0..BandMaxPower
    BY <1>2
  <2> QED BY <1>3, <1>5, <1>6, <2>1 DEF Loose
<1>9. /\ u.val = v.val /\ u.extra = v.extra /\ u.enabled = v.enabled
      /\ u.link = link /\ u.maxPower = 0
      /\ u.adr = v.adr /\ u.history = v.history /\ u.errors = v.errors
  BY <1>5, <1>6 DEF Loose
<1> QED
  BY <1>4, <1>7, <1>8, <1>9 DEF Rebooted, val, link

\* A ResetInd comes with answers to the external controller only.
LEMMA HandleReset ==
    ASSUME Typed, StageInv, ResetInv, "ResetInd" \in CidsOf(round.cmds),
           NEW s \in Loose, ~DisableMACCommands
    PROVE  handleUplinkMACCommands(s, pending, round.cmds) = ResetToBootParameters(s)
<1> DEFINE cmds == round.cmds
           N == Len(cmds)
<1>1. cmds \in Seq(Replies) /\ N \in Nat \ {0} /\ DOMAIN cmds = 1..N
  <2>1. cmds \in Seq(Replies)
    BY DEF Typed, Rounds
  <2>2. cmds # <<>>
    BY DEF CidsOf
  <2> HIDE DEF cmds
  <2> QED BY <2>1, <2>2
<1>2. dev.reset /\ round.at = "uplink"
  <2>1. cmds # <<>>
    BY <1>1
  <2> QED BY <2>1 DEF StageInv
<1>3. ~SupportsJoin /\ cmds[N].cid = "ResetInd"
      /\ \A i \in 1..(N - 1) : cmds[i].cid \in ExtCids
  <2>1. cmds[N].cid = "ResetInd"
    BY <1>2 DEF ResetInv, Last
  <2> QED BY <1>1, <1>2, <2>1 DEF ResetInv
<1>4. "ResetInd" \notin ExtCids
  BY CidsOK
<1> HIDE DEF cmds, N
<1>5. ASSUME NEW t \in Loose, NEW i \in 1..(N - 1) PROVE HandleOne(t, cmds, i) = t
  <2> DEFINE c == cmds[i].cid
  <2>1. c \in ExtCids
    BY <1>3
  <2>2. Handle(t, c, Group(cmds, c), pending[c]) = t
    <3> HIDE DEF c
    <3> QED BY <2>1, CidsOK DEF Handle, handleDevStatusAns
  <2> QED BY <2>2 DEF HandleOne
<1>6. ASSUME NEW t \in Loose PROVE HandleOne(t, cmds, N) = ResetToBootParameters(t)
  <2>1. IsFirst(cmds, N)
    BY <1>3, <1>4 DEF IsFirst
  <2>2. Handle(t, "ResetInd", Group(cmds, "ResetInd"), pending["ResetInd"])
            = ResetToBootParameters(t)
    BY DEF Handle, handleResetInd
  <2> QED BY <1>3, <2>1, <2>2 DEF HandleOne
<1>7. \A i \in DOMAIN cmds, t \in Loose : HandleOne(t, cmds, i) \in Loose
  <2> SUFFICES ASSUME NEW i \in DOMAIN cmds, NEW t \in Loose PROVE HandleOne(t, cmds, i) \in Loose
    OBVIOUS
  <2>1. i = N \/ i \in 1..(N - 1)
    BY <1>1
  <2>2. ResetToBootParameters(t) \in Loose
    BY <1>3, RebootOK DEF Rebooted
  <2> QED BY <1>5, <1>6, <2>1, <2>2
<1>8. PICK f : /\ f \in [0..N -> Loose] /\ f[0] = s
               /\ \A k \in 1..N : f[k] = HandleOne(f[k - 1], cmds, k)
               /\ handleUplinkMACCommands(s, pending, cmds) = f[N]
  BY <1>1, <1>7, UplinkLoop DEF N
<1> DEFINE G == {n \in 0..(N - 1) : f[n] = s}
<1>9. 0 \in G
  BY <1>1, <1>8
<1>10. ASSUME NEW m \in 1..(N - 1), m - 1 \in G PROVE m \in G
  <2>1. m \in 1..N /\ f[m - 1] = s
    BY <1>1, <1>10
  <2> QED BY <1>5, <1>8, <2>1
<1>11. N - 1 \in G
  <2>1. N - 1 \in Nat
    BY <1>1
  <2> HIDE DEF G
  <2> QED BY <1>9, <1>10, <2>1, Induction
<1>12. f[N] = ResetToBootParameters(s)
  <2>1. f[N - 1] = s /\ N \in 1..N
    BY <1>1, <1>11
  <2> QED BY <1>6, <1>8, <2>1
<1> QED
  BY <1>8, <1>12 DEF cmds

-----------------------------------------------------------------------------
(* The session after an uplink *)

\* The session as the mac-commands of an uplink find it.
Started == setUplinkDataRate([ds EXCEPT !.adr = dev.adr], dev.link.dr)
Commanded == handleUplinkMACCommands(Started, pending, round.cmds)

\* Before its mac-commands are handled an uplink changes the ADR bit and the
\* data-rate, and with it the power, only (setUplinkDataRate).
LEMMA StartedOK ==
    ASSUME Typed
    PROVE  /\ Started \in Loose /\ Started.adr = dev.adr
           /\ Len(Started.history) \in Nat /\ Len(Started.history) <= RequiredHistory
           /\ Started.val = ds.val /\ Started.extra = ds.extra /\ Started.enabled = ds.enabled
           /\ Started.errors = ds.errors /\ Started.maxPower = ds.maxPower
           /\ Started.link.power \in {0, ds.link.power}
<1> DEFINE e == [ds EXCEPT !.adr = dev.adr]
           dr == dev.link.dr
<1>1. ds \in Sessions /\ dev.adr \in BOOLEAN /\ dev.link \in Links
      /\ Len(ds.history) <= RequiredHistory
  BY DEF Typed, SessionOK, Nodes
<1>2. ds \in Loose
  <2>1. ds.errors \in [Cids -> Nat]
    <3>1. ds.errors \in [Cids -> 0..(MaxErrors + MaxNewChannels)]
      BY <1>1 DEF Sessions
    <3>2. 0..(MaxErrors + MaxNewChannels) \subseteq Nat
      BY MacAssumption DEF MaxNewChannels
    <3> QED BY <3>1, <3>2
  <2> QED BY <1>1, <2>1 DEF Sessions, Loose
<1>3. e \in Loose /\ e.adr = dev.adr
  BY <1>1, <1>2 DEF Loose
<1>4. /\ e.val = ds.val /\ e.extra = ds.extra /\ e.enabled = ds.enabled /\ e.errors = ds.errors
      /\ e.maxPower = ds.maxPower /\ e.link = ds.link /\ e.history = ds.history
  BY <1>2 DEF Loose
<1>5. ds.history \in Seq(Uplinks) /\ Len(ds.history) \in Nat /\ ds.link \in Links
  BY <1>2 DEF Loose
<1>6. Started = IF e.link.dr = dr THEN e
                ELSE [e EXCEPT !.link.dr = dr, !.link.power = 0, !.history = <<>>]
  BY DEF Started, setUplinkDataRate
<1> HIDE DEF e
<1>7. CASE e.link.dr = dr
  BY <1>1, <1>3, <1>4, <1>5, <1>6, <1>7
<1>8. CASE e.link.dr # dr
  <2> DEFINE link == [e.link EXCEPT !.dr = dr, !.power = 0]
             u == [e EXCEPT !.link = link, !.history = <<>>]
             drs == DOMAIN DataRates
             powers == 0..BandMaxPower
             nbs == 1..3
  <2>1. Started = u
    BY <1>6, <1>8
  <2>2. ds.link \in [dr : drs, power : powers, nb : nbs] /\ dr \in drs /\ 0 \in powers
    BY <1>1, <1>5, MacAssumption DEF Links
  <2>3. link \in [dr : drs, power : powers, nb : nbs] /\ link.power = 0
    <3> HIDE DEF drs, powers, nbs, dr
    <3> QED BY <1>4, <2>2
  <2>4. link \in Links
    BY <2>3 DEF Links
  <2> HIDE DEF link, drs, powers, nbs
  <2>5. <<>> \in Seq(Uplinks) /\ Len(<<>>) = 0
    OBVIOUS
  <2>6. u \in Loose /\ u.link = link /\ u.history = <<>>
    BY <1>3, <2>4, <2>5 DEF Loose
  <2>7. /\ u.val = e.val /\ u.extra = e.extra /\ u.enabled = e.enabled /\ u.errors = e.errors
        /\ u.maxPower = e.maxPower /\ u.adr = e.adr
    BY <1>3 DEF Loose
  <2> HIDE DEF u
  <2>8. RequiredHistory \in Nat
    BY AdrAssumption
  <2> QED BY <1>3, <1>4, <2>1, <2>3, <2>5, <2>6, <2>7, <2>8
<1> QED
  BY <1>7, <1>8

\* The CIDs whose answers are looked at.
ReadCids == IF DisableMACCommands THEN {} ELSE CidsOf(round.cmds)

\* The commands answer requests, or reboot the session.
LEMMA CommandedOK ==
    ASSUME Typed, StageInv, PendingInv, ReplyFlight, ResetInv
    PROVE  /\ Commanded \in Loose /\ Commanded.adr = dev.adr
           /\ Commanded.history = Started.history
           /\ "ResetInd" \notin ReadCids => Answered(Commanded, Started, ReadCids)
           /\ "ResetInd" \in ReadCids => Rebooted(Commanded, Started)
<1>1. Started \in Loose /\ Started.adr = dev.adr
  BY StartedOK
<1>2. CASE DisableMACCommands
  <2>1. Commanded = Started
    BY <1>2 DEF Commanded, handleUplinkMACCommands
  <2>2. Answered(Started, Started, {})
    BY <1>1 DEF Answered
  <2> QED BY <1>1, <1>2, <2>1, <2>2 DEF ReadCids
<1>3. CASE ~DisableMACCommands /\ "ResetInd" \notin CidsOf(round.cmds)
  <2>1. Answered(Commanded, Started, CidsOf(round.cmds))
    BY <1>1, <1>3, HandleAnswers DEF Commanded
  <2>2. Commanded \in Loose /\ Commanded.adr = Started.adr
        /\ Commanded.history = Started.history
    BY <2>1 DEF Answered
  <2> QED BY <1>1, <1>3, <2>1, <2>2 DEF ReadCids
<1>4. CASE ~DisableMACCommands /\ "ResetInd" \in CidsOf(round.cmds)
  <2>1. Commanded = ResetToBootParameters(Started)
    BY <1>1, <1>4, HandleReset DEF Commanded
  <2>2. ~SupportsJoin
    <3>1. round.cmds # <<>>
      BY <1>4 DEF CidsOf
    <3> QED BY <1>4, <3>1 DEF StageInv, ResetInv
  <2>3. Rebooted(Commanded, Started)
    BY <1>1, <2>1, <2>2, RebootOK
  <2> QED BY <1>1, <1>4, <2>3 DEF ReadCids, Rebooted
<1> QED
  BY <1>2, <1>3, <1>4

\* The record of the uplink in the history.
LEMMA RecordedOK ==
    ASSUME NEW s \in Loose, Len(s.history) <= RequiredHistory, NEW gap \in 0..MaxMissed,
           NEW snr \in Int, NEW h, h = appendMetaDataToUplinkHistory(s, gap, snr)
    PROVE  /\ h \in Loose /\ Len(h.history) <= RequiredHistory
           /\ h.val = s.val /\ h.extra = s.extra /\ h.enabled = s.enabled /\ h.link = s.link
           /\ h.maxPower = s.maxPower /\ h.adr = s.adr /\ h.errors = s.errors
<1> DEFINE item == [gap |-> gap, snr |-> snr, rssi |-> 0, power |-> s.link.power]
           kept == IF Len(s.history) = RequiredHistory THEN Tail(s.history) ELSE s.history
           history == Append(kept, item)
<1>1. h = [s EXCEPT !.history = history]
  BY DEF appendMetaDataToUplinkHistory
<1>2. item \in Uplinks
  BY DEF Uplinks, Loose, Links
<1>3. s.history \in Seq(Uplinks) /\ RequiredHistory \in Nat \ {0}
  BY AdrAssumption DEF Loose
<1> HIDE DEF item
<1>4. kept \in Seq(Uplinks) /\ Len(kept) <= RequiredHistory - 1
  <2>1. CASE Len(s.history) = RequiredHistory
    <3>1. s.history # <<>>
      BY <1>3, <2>1
    <3>2. Tail(s.history) \in Seq(Uplinks) /\ Len(Tail(s.history)) = Len(s.history) - 1
      BY <1>3, <3>1
    <3> QED BY <1>3, <2>1, <3>2
  <2>2. CASE Len(s.history) # RequiredHistory
    BY <1>3, <2>2
  <2> QED BY <2>1, <2>2
<1> HIDE DEF kept
<1>5. history \in Seq(Uplinks) /\ Len(history) <= RequiredHistory
  <2>1. history \in Seq(Uplinks) /\ Len(history) = Len(kept) + 1 /\ Len(kept) \in Nat
    BY <1>2, <1>4
  <2> QED BY <1>3, <1>4, <2>1
<1> HIDE DEF history
<1>6. h \in Loose /\ h.history = history
  BY <1>1, <1>5 DEF Loose
<1>7. /\ h.val = s.val /\ h.extra = s.extra /\ h.enabled = s.enabled /\ h.link = s.link
      /\ h.maxPower = s.maxPower /\ h.adr = s.adr /\ h.errors = s.errors
  BY <1>1 DEF Loose
<1> QED
  BY <1>5, <1>6, <1>7

\* The session that is saved is that of the commands, with one record more.
LEMMA HandledFields ==
    ASSUME Typed, StageInv, PendingInv, ReplyFlight, ResetInv
    PROVE  /\ Handled \in Loose /\ Len(Handled.history) <= RequiredHistory
           /\ Handled.val = Commanded.val /\ Handled.extra = Commanded.extra
           /\ Handled.enabled = Commanded.enabled /\ Handled.link = Commanded.link
           /\ Handled.maxPower = Commanded.maxPower /\ Handled.adr = dev.adr
           /\ Handled.errors = Commanded.errors
<1>1. Commanded \in Loose /\ Commanded.adr = dev.adr /\ Commanded.history = Started.history
      /\ Len(Started.history) <= RequiredHistory
  BY CommandedOK, StartedOK
<1>2. dev.missed \in 0..MaxMissed /\ dev.snr - 4 * dev.link.power \in Int
  <2>1. dev \in Nodes
    BY DEF Typed
  <2>2. dev.link \in Links /\ dev.snr \in Int /\ dev.missed \in 0..MaxMissed
    BY <2>1 DEF Nodes
  <2>3. dev.link.power \in 0..BandMaxPower
    BY <2>2 DEF Links
  <2>4. dev.link.power \in Int
    BY <2>3
  <2> QED BY <2>2, <2>4
<1>3. Handled = appendMetaDataToUplinkHistory(Commanded, dev.missed, dev.snr - 4 * dev.link.power)
  BY DEF Handled, Commanded, Started
<1> DEFINE snr == dev.snr - 4 * dev.link.power
<1> HIDE DEF snr
<1>4. snr \in Int /\ Handled = appendMetaDataToUplinkHistory(Commanded, dev.missed, snr)
  BY <1>2, <1>3 DEF snr
<1> QED
  BY <1>1, <1>2, <1>4, RecordedOK

\* Old channels are switched off by a mask, no others.
LEMMA MaskKeeps ==
    ASSUME NEW mask, MaskOK(mask), Typed
    PROVE  ds.extra \subseteq mask \cup OldChannels
<1>1. ds.extra \subseteq ds.enabled \cup OldChannels /\ ds.enabled \subseteq Channels
  BY DEF Typed, SessionOK, Sessions
<1> QED
  BY <1>1 DEF MaskOK, Channels, Wanted

\* What a LinkADRAns in flight is about.
LEMMA LinkReply ==
    ASSUME Typed, PendingInv, ReplyFlight, "LinkADR" \in CidsOf(round.cmds)
    PROVE  /\ pending["LinkADR"] # NoBlock /\ pending["LinkADR"] \in Blocks
           /\ pending["LinkADR"].cid = "LinkADR" /\ Shape(pending["LinkADR"])
           /\ Len(Group(round.cmds, "LinkADR")) = 1
           /\ LinkAnswer(Group(round.cmds, "LinkADR")[1], pending["LinkADR"])
<1>1. PICK i \in DOMAIN round.cmds : round.cmds[i].cid = "LinkADR"
  BY DEF CidsOf
<1>2. round.cmds \in Seq(Replies)
  BY DEF Typed, Rounds
<1>3. ReplyInv(round.cmds, round.cmds[i]) /\ OneEach(round.cmds)
  BY DEF ReplyFlight, Replied
<1>4. \A j \in DOMAIN round.cmds : round.cmds[j].cid = round.cmds[i].cid => j = i
  BY <1>1, <1>3 DEF OneEach
<1>5. Len(Group(round.cmds, "LinkADR")) = 1 /\ Group(round.cmds, "LinkADR")[1] = round.cmds[i]
  BY <1>1, <1>2, <1>4, GroupOne
<1>6. pending["LinkADR"] # NoBlock /\ LinkAnswer(round.cmds[i], pending["LinkADR"])
  BY <1>1, <1>3 DEF ReplyInv
<1>7. "LinkADR" \in Cids
  BY DEF Cids
<1> QED
  BY <1>5, <1>6, <1>7 DEF Typed, PendingInv

\* The session that is saved is as sessions are.
LEMMA HandledOK ==
    ASSUME Typed, StageInv, PendingInv, ReplyFlight, ResetInv
    PROVE  SessionOK(Handled)
<1> DEFINE h == Handled
           t == Commanded
           A == ReadCids
<1>1. /\ h \in Loose /\ Len(h.history) <= RequiredHistory /\ h.extra = t.extra
      /\ h.enabled = t.enabled /\ h.errors = t.errors /\ t \in Loose
  BY HandledFields, CommandedOK
<1>2. /\ "ResetInd" \notin A => Answered(t, Started, A)
      /\ "ResetInd" \in A => Rebooted(t, Started)
  BY CommandedOK
<1>3. /\ Started.extra = ds.extra /\ Started.enabled = ds.enabled /\ Started.errors = ds.errors
  BY StartedOK
<1>4. /\ ds.extra \subseteq ds.enabled \cup OldChannels /\ ds.errors["ResetInd"] = 0
      /\ ds.errors \in [Cids -> 0..(MaxErrors + MaxNewChannels)]
  BY DEF Typed, SessionOK, Sessions
<1>5. A \subseteq CidsOf(round.cmds)
  BY DEF ReadCids
<1> HIDE DEF h, t, A
<1>6. t.errors \in [Cids -> 0..(MaxErrors + MaxNewChannels)] /\ t.errors["ResetInd"] = 0
  <2>1. CASE "ResetInd" \in A
    BY <1>2, <1>3, <1>4, <2>1 DEF Rebooted
  <2>2. CASE "ResetInd" \notin A
    <3>1. ASSUME NEW c \in Cids
          PROVE  t.errors[c] \in 0..(MaxErrors + MaxNewChannels)
      <4>1. \/ t.errors[c] = ds.errors[c]
            \/ pending[c] # NoBlock /\ t.errors[c] <= ds.errors[c] + MaxNewChannels
        BY <1>2, <1>3, <2>2 DEF Answered
      <4>2. t.errors[c] \in Nat /\ MaxErrors \in Nat /\ ds.errors[c] \in Nat
        <5>1. ds.errors[c] \in 0..(MaxErrors + MaxNewChannels)
          BY <1>4
        <5> QED BY <1>1, <5>1, MacAssumption DEF Loose, MaxNewChannels
      <4>3. pending[c] # NoBlock => ds.errors[c] <= MaxErrors
        BY DEF PendingInv
      <4> QED BY <1>4, <4>1, <4>2, <4>3 DEF MaxNewChannels
    <3>2. t.errors["ResetInd"] = 0
      <4>1. "ResetInd" \in Cids /\ "ResetInd" \notin Special
        BY CidsOK DEF Cids, Special
      <4> QED BY <1>2, <1>3, <1>4, <2>2, <4>1 DEF Answered
    <3>3. t.errors \in [Cids -> Nat]
      BY <1>1 DEF Loose
    <3> QED BY <3>1, <3>2, <3>3
  <2> QED BY <2>1, <2>2
<1>7. t.extra \subseteq t.enabled \cup OldChannels
  <2>1. CASE "ResetInd" \in A
    BY <1>2, <2>1 DEF Rebooted
  <2>2. CASE "ResetInd" \notin A /\ "LinkADR" \in A
    <3>1. t.extra = ds.extra /\ t.enabled \in {pending["LinkADR"].mask, ds.enabled}
      BY <1>2, <1>3, <2>2 DEF Answered, AnsEnabled
    <3>2. MaskOK(pending["LinkADR"].mask)
      BY <1>5, <2>2, LinkReply DEF LinkAnswer
    <3>3. ds.extra \subseteq pending["LinkADR"].mask \cup OldChannels
      BY <3>2, MaskKeeps
    <3> QED BY <1>4, <3>1, <3>3
  <2>3. CASE "ResetInd" \notin A /\ "LinkADR" \notin A
    BY <1>2, <1>3, <1>4, <2>3 DEF Answered
  <2> QED BY <2>1, <2>2, <2>3
<1>8. h \in Sessions
  BY <1>1, <1>6 DEF Loose, Sessions
<1> QED
  BY <1>1, <1>6, <1>7, <1>8 DEF SessionOK, h

-----------------------------------------------------------------------------
(* HandleUplink *)

\* What HandleUplink writes.
LEMMA HandleState ==
    ASSUME Typed, HandleUplink
    PROVE  /\ round.at = "uplink" /\ round' \in [at : {"commit"}, cmds : {<<>>}, must : BOOLEAN,
                                                 blocks : {round'.blocks}]
           /\ ds' = Handled /\ pending' = DeletePendingMACCommand(pending, round.cmds)
           /\ mode' = handleDeviceModeInd(mode, round.cmds)
           /\ \E due \in BOOLEAN :
                 round'.blocks \in Collected(Handled,
                                       MACCommandResponses(round.cmds, dev.link.dr), due)
           /\ blind' = BlindAfter(round.cmds)
           /\ refused' = IF "ResetInd" \in CidsOf(round.cmds) THEN {}
                         ELSE IF /\ Group(round.cmds, "LinkADR") # <<>> /\ dev.adr
                                 /\ "power" \notin Group(round.cmds, "LinkADR")[1].bits
                         THEN refused \cup {Group(round.cmds, "LinkADR")[1].of[2]} ELSE refused
           /\ dev' \in Nodes
           /\ dev'.val = dev.val /\ dev'.extra = dev.extra /\ dev'.enabled = dev.enabled
           /\ dev'.link = dev.link /\ dev'.answers = dev.answers /\ dev'.reset = dev.reset
           /\ dev'.adr = dev.adr
           /\ changes' \in 0..MaxChanges /\ changes <= changes'
           /\ queue' = queue /\ conf' = conf /\ calm' = calm
<1>1. PICK due \in {FALSE, DevStatus /\ changes < MaxChanges} :
        /\ ds' = Handled
        /\ changes' = changes + (IF due THEN 1 ELSE 0)
        /\ pending' = DeletePendingMACCommand(pending, round.cmds)
        /\ mode' = handleDeviceModeInd(mode, round.cmds)
        /\ \E blocks \in Collected(Handled, MACCommandResponses(round.cmds, dev.link.dr), due) :
              round' = [round EXCEPT !.at = "commit", !.cmds = <<>>,
                           !.must = mustRespondWithDownlink(round.cmds), !.blocks = blocks]
        /\ blind' = BlindAfter(round.cmds)
        /\ refused' = IF "ResetInd" \in CidsOf(round.cmds) THEN {}
                      ELSE IF /\ Group(round.cmds, "LinkADR") # <<>> /\ dev.adr
                              /\ "power" \notin Group(round.cmds, "LinkADR")[1].bits
                      THEN refused \cup {Group(round.cmds, "LinkADR")[1].of[2]} ELSE refused
  BY DEF HandleUplink
<1>2. /\ round.at = "uplink" /\ dev' = [dev EXCEPT !.missed = 0]
      /\ queue' = queue /\ conf' = conf /\ calm' = calm
  BY DEF HandleUplink
<1>3. due \in BOOLEAN /\ (due => changes < MaxChanges)
  BY <1>1, MacAssumption
<1>4. changes' \in 0..MaxChanges /\ changes <= changes'
  <2>1. changes \in 0..MaxChanges /\ MaxChanges \in Nat
    BY MacAssumption DEF Typed
  <2> QED BY <1>1, <1>3, <2>1
<1>5. dev \in Nodes /\ round \in Rounds /\ 0 \in 0..MaxMissed
  BY MacAssumption DEF Typed
<1>6. dev' \in Nodes
  BY <1>2, <1>5 DEF Nodes
<1>7. /\ dev'.val = dev.val /\ dev'.extra = dev.extra /\ dev'.enabled = dev.enabled
      /\ dev'.link = dev.link /\ dev'.answers = dev.answers /\ dev'.reset = dev.reset
      /\ dev'.adr = dev.adr
  BY <1>2, <1>5 DEF Nodes
<1>8. PICK blocks \in Collected(Handled, MACCommandResponses(round.cmds, dev.link.dr), due) :
          round' = [round EXCEPT !.at = "commit", !.cmds = <<>>,
                       !.must = mustRespondWithDownlink(round.cmds), !.blocks = blocks]
  BY <1>1
<1> DEFINE must == mustRespondWithDownlink(round.cmds)
<1>9. must \in BOOLEAN
  BY DEF mustRespondWithDownlink
<1>10. round' = [round EXCEPT !.at = "commit", !.cmds = <<>>, !.must = must, !.blocks = blocks]
  BY <1>8
<1> HIDE DEF must
<1>11. round'.blocks = blocks
  BY <1>5, <1>10 DEF Rounds
<1>12. round' \in [at : {"commit"}, cmds : {<<>>}, must : BOOLEAN, blocks : {blocks}]
  BY <1>5, <1>9, <1>10 DEF Rounds
<1> QED
  BY <1>1, <1>2, <1>3, <1>4, <1>6, <1>7, <1>8, <1>11, <1>12

\* The pending requests that remain.
LEMMA HandlePending ==
    ASSUME Typed, StageInv, PendingInv, ReplyFlight, ResetInv, HandleUplink
    PROVE  /\ \A c \in Cids : pending'[c] = IF c \in ReadCids THEN NoBlock ELSE pending[c]
           /\ pending' \in [Cids -> Blocks \cup {NoBlock}]
           /\ PendingInv'
<1>1. ds' = Handled /\ pending' = DeletePendingMACCommand(pending, round.cmds)
  BY HandleState
<1>2. \A c \in Cids : pending'[c] = IF c \in ReadCids THEN NoBlock ELSE pending[c]
  BY <1>1 DEF DeletePendingMACCommand, ReadCids
<1>3. pending' \in [Cids -> Blocks \cup {NoBlock}]
  <2>1. pending' = [c \in Cids |-> pending'[c]]
    BY <1>1 DEF DeletePendingMACCommand
  <2>2. \A c \in Cids : pending'[c] \in Blocks \cup {NoBlock}
    BY <1>2 DEF Typed
  <2> QED BY <2>1, <2>2
<1>4. ASSUME NEW c \in Cids, pending'[c] # NoBlock
      PROVE  /\ pending'[c].cid = c /\ Shape(pending'[c])
             /\ ds'.errors[c] <= MaxErrors
             /\ DisableMACCommands => pending'[c].ext
  <2>1. c \notin ReadCids /\ pending'[c] = pending[c]
    BY <1>2, <1>4
  <2>2. /\ pending[c].cid = c /\ Shape(pending[c]) /\ ds.errors[c] <= MaxErrors
        /\ DisableMACCommands => pending[c].ext
    BY <1>4, <2>1 DEF PendingInv
  <2>3. Handled.errors = Commanded.errors /\ Started.errors = ds.errors
    BY HandledFields, StartedOK
  <2>4. Commanded.errors[c] = Started.errors[c]
    BY <2>1, CommandedOK DEF Answered, Rebooted
  <2> QED BY <1>1, <2>1, <2>2, <2>3, <2>4
<1>5. PendingInv'
  BY <1>4 DEF PendingInv, Shape
<1> QED
  BY <1>2, <1>3, <1>5

\* The refused indices, and what is known of them, after an uplink.
LEMMA HandlePower ==
    ASSUME Typed, StageInv, PendingInv, PowerInv, AvoidInv, ReplyFlight, ResetInv, HandleUplink
    PROVE  refused' \subseteq Nat /\ PowerInv' /\ AvoidInv'
<1> DEFINE b == pending["LinkADR"]
           A == ReadCids
           s == Started
           t == Commanded
           adr == Group(round.cmds, "LinkADR")
<1>1. /\ ds' = Handled /\ dev'.adr = dev.adr
      /\ refused' = IF "ResetInd" \in CidsOf(round.cmds) THEN {}
                    ELSE IF adr # <<>> /\ dev.adr /\ "power" \notin adr[1].bits
                    THEN refused \cup {adr[1].of[2]} ELSE refused
  BY HandleState
<1>2. /\ Handled.link = t.link /\ Handled.maxPower = t.maxPower
      /\ "ResetInd" \notin A => Answered(t, s, A)
      /\ "ResetInd" \in A => Rebooted(t, s)
  BY HandledFields, CommandedOK
<1>3. /\ s.adr = dev.adr /\ s.maxPower = ds.maxPower /\ s.link.power \in {0, ds.link.power}
      /\ s.link \in Links
  BY StartedOK DEF Loose
<1>4. /\ refused \subseteq Nat /\ \A k \in refused : k > DevMaxPower
      /\ ~dev.adr => refused = {}
      /\ dev.adr => ds.link.power <= DevMaxPower
      /\ 1 \notin refused => \A k \in refused : ds.maxPower # 0 /\ ds.maxPower < k
      /\ DevMaxPower \in Nat /\ dev.adr \in BOOLEAN
      /\ ds.link.power \in Nat /\ ds.maxPower \in Nat
  <2>1. ds \in Sessions /\ dev \in Nodes
    BY DEF Typed, SessionOK
  <2>2. ds.link \in Links /\ ds.maxPower \in 0..BandMaxPower /\ dev.adr \in BOOLEAN
    BY <2>1 DEF Sessions, Nodes
  <2> QED BY <2>2, MacAssumption DEF Typed, PowerInv, Links
<1>5. "LinkADR" \in Cids /\ "ResetInd" \in Cids
      /\ pending'["LinkADR"] = IF "LinkADR" \in A THEN NoBlock ELSE b
  <2>1. "LinkADR" \in Cids /\ "ResetInd" \in Cids
    BY DEF Cids
  <2> QED BY <2>1, HandlePending
<1>6. ("LinkADR" \in CidsOf(round.cmds) \/ adr # <<>>) => "LinkADR" \in A
  <2>1. adr # <<>> => "LinkADR" \in CidsOf(round.cmds)
    <3>1. round.cmds \in Seq(Replies)
      BY DEF Typed, Rounds
    <3> QED BY <3>1, GroupEmpty
  <2>2. DisableMACCommands => "LinkADR" \notin CidsOf(round.cmds)
    BY CidsOK DEF ReplyFlight, Replied, OwnCids
  <2> QED BY <2>1, <2>2 DEF ReadCids
<1> HIDE DEF t, s, A, adr
<1>7. CASE "ResetInd" \in CidsOf(round.cmds)
  <2>1. refused' = {}
    BY <1>1, <1>7
  <2>2. dev.adr => ds'.link.power <= DevMaxPower
    <3>1. CASE "ResetInd" \in A
      <4>1. t.link = [s.link EXCEPT !.power = 0, !.nb = 1]
        BY <1>2, <3>1 DEF Rebooted
      <4>2. t.link.power = 0
        BY <1>3, <4>1 DEF Links
      <4> QED BY <1>1, <1>2, <1>4, <4>2
    <3>2. CASE "ResetInd" \notin A
      <4>1. A = {}
        BY <1>7, <3>2 DEF A, ReadCids
      <4>2. t.link = s.link
        BY <1>2, <4>1 DEF Answered
      <4> QED BY <1>1, <1>2, <1>3, <1>4, <4>2
    <3> QED BY <3>1, <3>2
  <2>3. PowerInv'
    BY <1>1, <2>1, <2>2 DEF PowerInv
  <2>4. AvoidInv'
    BY <2>1 DEF AvoidInv, Avoids
  <2> QED BY <2>1, <2>3, <2>4
<1>8. CASE "ResetInd" \notin CidsOf(round.cmds) /\ "LinkADR" \notin A
  <2>1. refused' = refused
    BY <1>1, <1>6, <1>8
  <2>2. "ResetInd" \notin A
    BY <1>8 DEF A, ReadCids
  <2>3. t.link = s.link /\ t.maxPower = ds.maxPower
    BY <1>2, <1>3, <1>8, <2>2 DEF Answered
  <2>4. PowerInv'
    <3>1. ds'.maxPower = ds.maxPower /\ ds'.link.power \in {0, ds.link.power}
      BY <1>1, <1>2, <1>3, <2>3
    <3>2. dev.adr => ds'.link.power <= DevMaxPower
      BY <1>4, <3>1
    <3> QED BY <1>1, <1>4, <2>1, <3>1, <3>2 DEF PowerInv
  <2>5. AvoidInv'
    BY <1>5, <1>8, <2>1 DEF AvoidInv, Avoids
  <2> QED BY <1>4, <2>1, <2>4, <2>5
<1>9. CASE "ResetInd" \notin CidsOf(round.cmds) /\ "LinkADR" \in A
  <2> DEFINE bits == adr[1].bits
             req == b.req
             reached == s.link.power
  <2>1. "LinkADR" \in CidsOf(round.cmds) /\ "ResetInd" \notin A
    BY <1>9 DEF A, ReadCids
  <2>2. /\ b # NoBlock /\ b \in Blocks /\ Shape(b) /\ b.cid = "LinkADR"
        /\ Len(adr) = 1 /\ LinkAnswer(adr[1], b)
    BY <2>1, LinkReply DEF adr
  <2>3. PICK l \in Links : req = <<l.dr, l.power, l.nb>>
    BY <2>2 DEF Shape
  <2>4. req[2] = l.power /\ req[2] \in Nat /\ req[3] = l.nb
    BY <2>3, MacAssumption DEF Links
  <2>5. /\ req = adr[1].of
        /\ "power" \in bits <=> (dev.adr /\ req[2] <= DevMaxPower)
        /\ "dr" \in bits <=> dev.adr
        /\ bits \subseteq {"mask", "dr", "power"}
    BY <2>2 DEF LinkAnswer
  <2>6. t.link = AnsLink(s, bits, req) /\ t.maxPower = AnsMaxPower(s, bits, req)
    BY <1>2, <1>9, <2>1 DEF Answered, LinkBits, adr
  <2>7. pending'["LinkADR"] = NoBlock
    BY <1>5, <1>9
  <2>8. AvoidInv'
    BY <2>7 DEF AvoidInv
  <2>9. adr # <<>>
    BY <2>2
  <2> HIDE DEF bits, req, b
  <2>10. CASE ~dev.adr
    <3>1. refused' = refused /\ refused = {}
      BY <1>1, <1>4, <1>9, <2>10
    <3> QED BY <1>1, <2>8, <2>10, <3>1 DEF PowerInv
  <2>11. CASE dev.adr /\ "power" \in bits
    <3>1. refused' = refused
      BY <1>1, <1>9, <2>11 DEF bits
    <3>2. t.maxPower = ds.maxPower
      BY <1>3, <2>6, <2>11 DEF AnsMaxPower
    <3>3. t.link.power <= DevMaxPower
      <4>1. CASE bits = {"mask", "dr", "power"}
        <5>1. t.link.power = req[2]
          BY <2>6, <4>1 DEF AnsLink
        <5> QED BY <2>5, <2>11, <5>1
      <4>2. CASE bits # {"mask", "dr", "power"}
        <5>1. t.link = [s.link EXCEPT !.power = @]
          BY <1>3, <2>6, <2>11, <4>2 DEF AnsLink
        <5>2. t.link.power = s.link.power
          BY <1>3, <5>1 DEF Links
        <5> QED BY <1>3, <1>4, <2>11, <5>2
      <4> QED BY <4>1, <4>2
    <3>4. PowerInv'
      BY <1>1, <1>2, <1>4, <3>1, <3>2, <3>3 DEF PowerInv
    <3> QED BY <1>4, <2>8, <3>1, <3>4
  <2>12. CASE dev.adr /\ "power" \notin bits
    <3>1. refused' = refused \cup {req[2]}
      BY <1>1, <1>9, <2>5, <2>9, <2>12 DEF bits
    <3>2. req[2] > DevMaxPower /\ req[2] > 0
      BY <1>4, <2>4, <2>5, <2>12
    <3>3. bits # {"mask", "dr", "power"} /\ s.adr
      BY <1>3, <2>12
    <3>4. t.maxPower = req[2] - 1
      BY <2>6, <2>12, <3>2, <3>3 DEF AnsMaxPower
    <3>5. t.link.power = s.link.power
      <4>1. t.link = [s.link EXCEPT !.power = @]
        <5>1. req[2] # 0
          BY <2>4, <3>2
        <5> QED BY <2>6, <2>12, <3>3, <5>1 DEF AnsLink
      <4> QED BY <1>3, <4>1 DEF Links
    <3>6. AvoidInv => (1 \notin refused => \A k \in refused : req[2] < k)
      BY <2>2 DEF AvoidInv, Avoids, b, req
    <3>7. 1 \notin refused' => \A k \in refused' : t.maxPower # 0 /\ t.maxPower < k
      <4> SUFFICES ASSUME 1 \notin refused', NEW k \in refused'
                   PROVE  t.maxPower # 0 /\ t.maxPower < k
        OBVIOUS
      <4>1. 1 \notin refused /\ req[2] # 1
        BY <3>1
      <4>2. k = req[2] \/ (k \in refused /\ req[2] < k /\ k \in Nat)
        BY <1>4, <3>1, <3>6, <4>1
      <4> QED BY <2>4, <3>2, <3>4, <4>1, <4>2
    <3>8. t.link.power <= DevMaxPower
      BY <1>3, <1>4, <2>12, <3>5
    <3>9. \A k \in refused' : k > DevMaxPower
      BY <1>4, <3>1, <3>2
    <3>10. PowerInv'
      BY <1>1, <1>2, <2>12, <3>7, <3>8, <3>9 DEF PowerInv
    <3> QED BY <1>4, <2>4, <2>8, <3>1, <3>10
  <2> QED BY <1>4, <2>10, <2>11, <2>12
<1> QED
  BY <1>7, <1>8, <1>9

\* A device that has reset has said so in this uplink.
LEMMA ResetSaid ==
    ASSUME Typed, ResetInv, round.at = "uplink", dev.reset
    PROVE  "ResetInd" \in CidsOf(round.cmds)
<1>1. round.cmds \in Seq(Replies)
  BY DEF Typed, Rounds
<1>2. round.cmds # <<>> /\ Last(round.cmds).cid = "ResetInd"
  BY DEF ResetInv
<1>3. Len(round.cmds) \in DOMAIN round.cmds
  BY <1>1, <1>2
<1> QED
  BY <1>2, <1>3 DEF CidsOf, Last

\* Which parameters an uplink is read to settle.
LEMMA ReadOK ==
    ASSUME Typed, PendingInv, ReplyFlight, NEW p \in Params, NEW same \in BOOLEAN
    PROVE  p \in Read(round.cmds, same) <=>
               /\ p \in ReadCids /\ p \notin RefusedParams /\ pending[p] # NoBlock
               /\ same <=> pending[p].req = <<dev.val[p]>>
<1> DEFINE cmds == round.cmds
           ans == Group(cmds, p)
<1>1. cmds \in Seq(Replies)
  BY DEF Typed, Rounds
<1>2. p \in Read(cmds, same) <=>
          Len(ans) = 1 /\ ans[1].ok /\ pending[p] # NoBlock /\ (pending[p].req = ans[1].of) = same
  BY DEF Read
<1>3. CASE p \notin CidsOf(cmds)
  <2>1. ans = <<>>
    BY <1>1, <1>3, GroupEmpty
  <2> QED BY <1>2, <1>3, <2>1 DEF ReadCids
<1>4. CASE p \in CidsOf(cmds)
  <2>1. PICK i \in DOMAIN cmds : cmds[i].cid = p
    BY <1>4 DEF CidsOf
  <2>2. ReplyInv(cmds, cmds[i]) /\ OneEach(cmds)
        /\ (DisableMACCommands => CidsOf(cmds) \subseteq ExtCids \cup Asks \cup {"ResetInd"})
    BY DEF ReplyFlight, Replied
  <2>3. \A j \in DOMAIN cmds : cmds[j].cid = cmds[i].cid => j = i
    BY <2>1, <2>2 DEF OneEach
  <2>4. Len(ans) = 1 /\ ans[1] = cmds[i]
    BY <1>1, <2>1, <2>3, GroupOne
  <2>5. ~DisableMACCommands
    <3>1. p \notin ExtCids \cup Asks \cup {"ResetInd"}
      BY CidsOK
    <3> QED BY <1>4, <2>2, <3>1
  <2>6. /\ cmds[i].ok <=> p \notin RefusedParams
        /\ cmds[i].ok => cmds[i].of = <<dev.val[p]>>
    BY <2>1, <2>2 DEF ReplyInv
  <2> HIDE DEF ans, cmds
  <2> QED BY <1>2, <1>4, <2>4, <2>5, <2>6 DEF ReadCids, cmds
<1> QED
  BY <1>3, <1>4

\* The requests of parameters that an uplink answers, and how they are read.
LEMMA HandleMisread ==
    ASSUME Typed, PendingInv, ReplyFlight, OnlyRepeatedMisread, HandleUplink
    PROVE  /\ blind' \subseteq Cids \X {"repeated", "reset", "withdrawn"}
           /\ OnlyRepeatedMisread'
           /\ \A p \in Params : Blind(p) /\ ~Blind(p)' => p \in Read(round.cmds, TRUE)
           /\ \A p \in Read(round.cmds, FALSE) : Blind(p)'
           /\ "ResetInd" \in CidsOf(round.cmds) => \A p \in Kept(ds) : Blind(p)'
<1>1. blind' = BlindAfter(round.cmds)
  BY HandleState
<1>2. blind \subseteq Cids \X {"repeated", "reset", "withdrawn"}
  BY DEF Typed
<1>3. Read(round.cmds, FALSE) \subseteq Cids /\ Kept(ds) \subseteq Cids
  BY DEF Read, Kept, Cids
<1>4. Read(round.cmds, FALSE) \subseteq Sticky
  <2> SUFFICES ASSUME NEW p \in Read(round.cmds, FALSE), p \notin Sticky PROVE FALSE
    OBVIOUS
  <2>1. p \in Params
    BY DEF Read
  <2>2. p \in CidsOf(round.cmds) /\ pending[p].req # <<dev.val[p]>> /\ p \notin RefusedParams
    BY <2>1, ReadOK DEF ReadCids
  <2>3. PICK i \in DOMAIN round.cmds : round.cmds[i].cid = p
    BY <2>2 DEF CidsOf
  <2>4. ReplyInv(round.cmds, round.cmds[i])
    BY DEF ReplyFlight, Replied
  <2> QED BY <2>1, <2>2, <2>3, <2>4 DEF ReplyInv
<1>5. blind' = {x \in blind : x[1] \notin Read(round.cmds, TRUE)}
                  \cup (Read(round.cmds, FALSE) \X {"repeated"})
                  \cup (IF "ResetInd" \in CidsOf(round.cmds) THEN Kept(ds) \X {"reset"} ELSE {})
  BY <1>1 DEF BlindAfter
<1>6. blind' \subseteq Cids \X {"repeated", "reset", "withdrawn"}
  BY <1>2, <1>3, <1>5
<1>7. OnlyRepeatedMisread'
  <2> SUFFICES ASSUME NEW x \in blind', x[2] = "repeated" PROVE x[1] \in Sticky
    BY DEF OnlyRepeatedMisread
  <2>1. \/ x \in blind
        \/ x \in Read(round.cmds, FALSE) \X {"repeated"}
        \/ x \in Kept(ds) \X {"reset"}
    BY <1>5
  <2> QED BY <1>4, <2>1 DEF OnlyRepeatedMisread
<1>8. ASSUME NEW p \in Params, Blind(p), ~Blind(p)' PROVE p \in Read(round.cmds, TRUE)
  BY <1>5, <1>8 DEF Blind
<1>9. ASSUME NEW p \in Read(round.cmds, FALSE) PROVE Blind(p)'
  <2>1. <<p, "repeated">> \in blind'
    BY <1>5
  <2> QED BY <2>1 DEF Blind
<1>10. ASSUME "ResetInd" \in CidsOf(round.cmds), NEW p \in Kept(ds) PROVE Blind(p)'
  <2>1. <<p, "reset">> \in blind'
    BY <1>5, <1>10
  <2> QED BY <2>1 DEF Blind
<1> QED
  BY <1>6, <1>7, <1>8, <1>9, <1>10

\* What an uplink settles is what the device has, or the session is blind to it.
LEMMA HandleParams ==
    ASSUME Typed, StageInv, PendingInv, ReplyFlight, ResetInv, ParamInv, OnlyRepeatedMisread,
           HandleUplink
    PROVE  ParamInv'
<1> DEFINE A == ReadCids
           t == Commanded
<1>1. /\ ds' = Handled /\ conf' = conf /\ dev'.val = dev.val /\ dev'.reset = dev.reset
      /\ round.at = "uplink"
  BY HandleState
<1>2. /\ Handled.val = t.val /\ Started.val = ds.val
      /\ "ResetInd" \notin A => Answered(t, Started, A)
      /\ "ResetInd" \in A => Rebooted(t, Started)
  BY HandledFields, CommandedOK, StartedOK
<1> HIDE DEF A, t
<1>3. ASSUME NEW p \in Params, ds'.val[p] = conf'[p], ~dev.reset
      PROVE  dev.val[p] = conf[p] \/ Blind(p)'
  <2>1. "ResetInd" \notin A
    BY <1>1, <1>3 DEF StageInv, A, ReadCids
  <2>2. Answered(t, Started, A)
    BY <1>2, <2>1
  <2>3. CASE p \in A /\ p \notin RefusedParams /\ pending[p] # NoBlock
    <3>1. t.val[p] = pending[p].req[1]
      BY <2>2, <2>3 DEF Answered
    <3>2. CASE pending[p].req = <<dev.val[p]>>
      BY <1>1, <1>2, <1>3, <3>1, <3>2
    <3>3. CASE pending[p].req # <<dev.val[p]>>
      <4>1. p \in Read(round.cmds, FALSE)
        BY <2>3, <3>3, ReadOK DEF A
      <4> QED BY <4>1, HandleMisread
    <3> QED BY <3>2, <3>3
  <2>4. CASE ~(p \in A /\ p \notin RefusedParams /\ pending[p] # NoBlock)
    <3>1. t.val[p] = ds.val[p]
      BY <1>2, <2>2, <2>4 DEF Answered
    <3>2. dev.val[p] = conf[p] \/ Blind(p)
      BY <1>1, <1>2, <1>3, <3>1 DEF ParamInv
    <3>3. p \notin Read(round.cmds, TRUE)
      BY <2>4, ReadOK DEF A
    <3> QED BY <3>2, <3>3, HandleMisread
  <2> QED BY <2>3, <2>4
<1>4. ASSUME Confirming', NEW p \in Params PROVE ds'.val[p] = Boot \/ Blind(p)'
  <2>1. dev.reset /\ ~DisableMACCommands
    BY <1>1, <1>4 DEF Confirming
  <2>2. "ResetInd" \in CidsOf(round.cmds)
    BY <1>1, <2>1, ResetSaid
  <2>3. Rebooted(t, Started)
    BY <1>2, <2>1, <2>2 DEF A, ReadCids
  <2>4. t.val[p] = IF p \in BootParams THEN Boot ELSE ds.val[p]
    BY <1>2, <2>3 DEF Rebooted
  <2>5. CASE p \in BootParams \/ ds.val[p] = Boot
    BY <1>1, <1>2, <2>4, <2>5
  <2>6. CASE p \notin BootParams /\ ds.val[p] # Boot
    <3>1. p \in Kept(ds)
      BY <2>6 DEF Kept
    <3> QED BY <2>2, <3>1, HandleMisread
  <2> QED BY <2>5, <2>6
<1> QED
  BY <1>1, <1>3, <1>4 DEF ParamInv

\* The channels of a NewChannelReq that are accepted are in use on the device.
LEMMA ChannelReply ==
    ASSUME ReplyFlight, "NewChannel" \in CidsOf(round.cmds)
    PROVE  NewChannels \subseteq dev.enabled /\ "LinkADR" \notin CidsOf(round.cmds)
<1>1. PICK i \in DOMAIN round.cmds : round.cmds[i].cid = "NewChannel"
  BY DEF CidsOf
<1>2. ReplyInv(round.cmds, round.cmds[i]) /\ Apart(round.cmds)
  BY DEF ReplyFlight, Replied
<1>3. ChannelAnswers(round.cmds, pending["NewChannel"])
  BY <1>1, <1>2 DEF ReplyInv
<1>4. NewChannels \subseteq dev.enabled
  BY <1>3 DEF ChannelAnswers, NewChannels
<1> QED
  BY <1>2, <1>4 DEF Apart

\* After an uplink the channels differ from those of the device no more than before.
LEMMA HandleChannels ==
    ASSUME Typed, StageInv, PendingInv, ReplyFlight, ResetInv, ChannelInv, HandleUplink
    PROVE  ChannelInv'
<1> DEFINE A == ReadCids
           t == Commanded
           b == pending["LinkADR"]
           adr == Group(round.cmds, "LinkADR")
<1>1. /\ ds' = Handled /\ dev'.enabled = dev.enabled /\ dev'.reset = dev.reset
      /\ round.at = "uplink"
  BY HandleState
<1>2. /\ Handled.extra = t.extra /\ Handled.enabled = t.enabled
      /\ Started.extra = ds.extra /\ Started.enabled = ds.enabled /\ Started.adr = dev.adr
      /\ "ResetInd" \notin A => Answered(t, Started, A)
      /\ "ResetInd" \in A => Rebooted(t, Started)
  BY HandledFields, CommandedOK, StartedOK
<1>3. A = IF DisableMACCommands THEN {} ELSE CidsOf(round.cmds)
  BY DEF ReadCids
<1> HIDE DEF A, t
<1>4. CASE dev.reset
  <2> SUFFICES ASSUME Confirming' PROVE ChannelInv'
    BY <1>1, <1>4 DEF ChannelInv
  <2>1. "ResetInd" \in A
    BY <1>1, <1>3, <1>4, ResetSaid DEF Confirming
  <2>2. t.enabled = StandardChannels
    BY <1>2, <2>1 DEF Rebooted
  <2>3. dev.enabled = StandardChannels
    BY <1>4 DEF ResetInv
  <2> QED BY <1>1, <1>2, <2>2, <2>3 DEF ChannelInv
<1>5. CASE ~dev.reset
  <2>1. "ResetInd" \notin A
    BY <1>3, <1>5 DEF StageInv
  <2>2. Answered(t, Started, A)
    BY <1>2, <2>1
  <2>3. \A c \in Channels : ~(c \in ds.enabled <=> c \in dev.enabled) =>
            c \in CustomChannels \ ds.extra \/ (c \in ds.enabled /\ c \notin Wanted)
    BY <1>5 DEF ChannelInv
  <2>4. CASE "LinkADR" \in A
    <3>1. LinkAnswer(adr[1], b)
      BY <1>3, <2>4, LinkReply
    <3>2. t.extra = ds.extra /\ t.enabled = AnsEnabled(Started, adr[1].bits, b.mask)
      BY <1>2, <2>2, <2>4 DEF Answered, LinkBits
    <3>3. t.enabled = ds.enabled \/ t.enabled = dev.enabled
      BY <1>2, <3>1, <3>2 DEF AnsEnabled, LinkAnswer
    <3> QED BY <1>1, <1>2, <2>3, <3>2, <3>3 DEF ChannelInv
  <2>5. CASE "NewChannel" \in A
    <3>1. NewChannels \subseteq dev.enabled
      BY <1>3, <2>5, ChannelReply
    <3>2. t.extra = ds.extra \cup NewChannels /\ t.enabled = ds.enabled \cup NewChannels
      BY <1>2, <2>2, <2>5 DEF Answered
    <3> QED BY <1>1, <1>2, <2>3, <3>1, <3>2 DEF ChannelInv
  <2>6. CASE {"LinkADR", "NewChannel"} \cap A = {}
    <3>1. t.extra = ds.extra /\ t.enabled = ds.enabled
      BY <1>2, <2>2, <2>6 DEF Answered
    <3> QED BY <1>1, <1>2, <2>3, <3>1 DEF ChannelInv
  <2> QED BY <2>4, <2>5, <2>6
<1> QED
  BY <1>4, <1>5

\* What the device will repeat is about the device only.
LEMMA StickyReplied ==
    ASSUME Typed, dev'.val = dev.val, CidsOf(dev'.answers) \subseteq Sticky,
           OneEach(dev'.answers), ~DisableMACCommands \/ dev'.answers = <<>>,
           \A i \in DOMAIN dev'.answers : dev'.answers[i].cid \in Params =>
               /\ dev'.answers[i].ok <=> dev'.answers[i].cid \notin RefusedParams
               /\ dev'.answers[i].ok =>
                      dev'.answers[i].of = <<dev.val[dev'.answers[i].cid]>>
    PROVE  Replied(dev.answers)'
<1>1. "LinkADR" \notin Sticky /\ "NewChannel" \notin Sticky /\ "DeviceModeInd" \notin Sticky
  BY DEF Sticky
<1>2. \A i \in DOMAIN dev'.answers : dev'.answers[i].cid \in Sticky
  BY DEF CidsOf
<1>3. \A i \in DOMAIN dev'.answers : ReplyInv(dev.answers, dev.answers[i])'
  BY <1>1, <1>2 DEF ReplyInv
<1>4. Apart(dev.answers)'
  BY <1>1 DEF Apart
<1>5. DisableMACCommands => CidsOf(dev'.answers) \subseteq ExtCids \cup Asks \cup {"ResetInd"}
  BY DEF CidsOf
<1> QED
  BY <1>3, <1>4, <1>5 DEF Replied

\* With its answers disabled the device has none to repeat.
LEMMA NoneRepeated ==
    ASSUME NEW s \in Seq(Replies), CidsOf(s) \subseteq Sticky,
           DisableMACCommands => CidsOf(s) \subseteq ExtCids \cup Asks \cup {"ResetInd"}
    PROVE  ~DisableMACCommands \/ s = <<>>
<1> SUFFICES ASSUME DisableMACCommands, s # <<>> PROVE FALSE
  OBVIOUS
<1>1. 1 \in DOMAIN s
  OBVIOUS
<1>2. s[1].cid \in CidsOf(s)
  BY <1>1 DEF CidsOf
<1>3. s[1].cid \in {"RXParamSetup", "RXTimingSetup"} \cap (ExtCids \cup Asks \cup {"ResetInd"})
  BY <1>2 DEF Sticky
<1> QED
  BY <1>3, CidsOK

\* What remains of the exchange.
LEMMA HandleStage ==
    ASSUME Typed, StageInv, ReplyFlight, ResetInv, HandleUplink
    PROVE  StageInv' /\ ResetInv' /\ ReplyFlight' /\ mode' \in {"A", "C"}
<1>1. /\ dev'.val = dev.val /\ dev'.enabled = dev.enabled /\ dev'.answers = dev.answers
      /\ dev'.reset = dev.reset /\ round.at = "uplink"
      /\ round'.at = "commit" /\ round'.cmds = <<>>
      /\ mode' = handleDeviceModeInd(mode, round.cmds)
  BY HandleState
<1>2. CidsOf(dev.answers) \subseteq Sticky /\ dev.answers \in Seq(Replies)
  <2>1. CidsOf(dev.answers) \subseteq Sticky
    BY <1>1 DEF StageInv
  <2> QED BY <2>1 DEF Typed, Nodes
<1>3. CidsOf(<<>>) = {}
  BY DEF CidsOf
<1>4. StageInv'
  BY <1>1, <1>2, <1>3 DEF StageInv
<1>5. ResetInv'
  BY <1>1 DEF ResetInv
<1>6. ReplyFlight'
  <2>1. Replied(dev.answers) /\ CidsOf(dev.answers) \cap (Asks \cup {"ResetInd"}) = {}
    BY DEF ReplyFlight
  <2>2. ~DisableMACCommands \/ dev.answers = <<>>
    BY <1>2, <2>1, NoneRepeated DEF Replied
  <2>3. ASSUME NEW i \in DOMAIN dev.answers, dev.answers[i].cid \in Params
        PROVE  /\ dev.answers[i].ok <=> dev.answers[i].cid \notin RefusedParams
               /\ dev.answers[i].ok => dev.answers[i].of = <<dev.val[dev.answers[i].cid]>>
    BY <2>1, <2>3 DEF Replied, ReplyInv
  <2>4. OneEach(dev.answers)
    BY <2>1 DEF Replied
  <2>5. Replied(dev.answers)'
    BY <1>1, <1>2, <2>2, <2>3, <2>4, StickyReplied
  <2>6. round'.cmds = <<>>
    BY <1>1
  <2>7. Replied(round.cmds)'
    BY <2>6 DEF Replied, ReplyInv, OneEach, Apart, CidsOf
  <2> QED BY <1>1, <2>1, <2>5, <2>7 DEF ReplyFlight
<1>7. mode' \in {"A", "C"}
  <2>1. CASE ~\E i \in DOMAIN round.cmds : round.cmds[i].cid = "DeviceModeInd"
    BY <1>1, <2>1 DEF handleDeviceModeInd, Typed
  <2>2. CASE \E i \in DOMAIN round.cmds : round.cmds[i].cid = "DeviceModeInd"
    <3>1. PICK i \in DOMAIN round.cmds : round.cmds[i].cid = "DeviceModeInd"
      BY <2>2
    <3>2. round.cmds[i].bits \in {{"A"}, {"C"}}
      BY <3>1 DEF ReplyFlight, Replied, ReplyInv
    <3>3. \E c \in {"A", "C"} : \E j \in DOMAIN round.cmds :
              round.cmds[j].cid = "DeviceModeInd" /\ round.cmds[j].bits = {c}
      BY <3>1, <3>2
    <3> QED BY <1>1, <2>2, <3>3 DEF handleDeviceModeInd
  <2> QED BY <2>1, <2>2
<1> QED
  BY <1>4, <1>5, <1>6, <1>7

-----------------------------------------------------------------------------
(* The requests of a response *)

\* The set of power indices r has been refused; l is not among what follows them.
Below(power, r) == 1 \notin r => \A k \in r : power < k

\* A request that the session s calls for.
Called(b, s, r) ==
    /\ b \in Blocks /\ Shape(b)
    /\ b.cid \in Params => b.req = <<conf[b.cid]>> /\ s.val[b.cid] # conf[b.cid]
    /\ b.cid = "NewChannel" => ToSet(b.req) \cap s.extra = {}
    /\ b.cid = "LinkADR" =>
           /\ b.mask \subseteq s.enabled /\ (s.enabled \ b.mask) \cap Wanted = {}
           /\ Below(b.req[2], r)

\* Requests with CIDs in C, those of the server one of each.
Offer(q, s, r, C) ==
    /\ q \in Seq(Blocks) /\ CidsOf(q) \subseteq C /\ Single(q)
    /\ \A i \in DOMAIN q : Called(q[i], s, r)

\* The first request confirms a reset.
Opens(q) == q # <<>> /\ q[1].cid = "ResetInd"

\* Nothing is offered.
LEMMA NoOffer ==
    ASSUME NEW s, NEW r, NEW C
    PROVE  Offer(<<>>, s, r, C)
BY DEF Offer, CidsOf, Single

\* One request.
LEMMA OneOffer ==
    ASSUME NEW s, NEW r, NEW C, NEW b, Called(b, s, r), b.cid \in C
    PROVE  Offer(<<b>>, s, r, C)
<1> DEFINE q == <<b>>
<1>1. DOMAIN q = {1} /\ q[1] = b /\ b \in Blocks
  BY DEF Called
<1>2. q \in Seq(Blocks)
  BY <1>1
<1> HIDE DEF q
<1> QED
  BY <1>1, <1>2 DEF Offer, CidsOf, Single, q

\* Requests after others.
LEMMA BothOffers ==
    ASSUME NEW s, NEW r, NEW C, NEW D, C \cap D \cap Special = {},
           NEW p, NEW q, Offer(p, s, r, C), Offer(q, s, r, D)
    PROVE  /\ Offer(p \o q, s, r, C \cup D)
           /\ Opens(p) => Opens(p \o q)
<1> DEFINE t == p \o q
           m == Len(p)
           n == Len(q)
<1>1. p \in Seq(Blocks) /\ q \in Seq(Blocks) /\ m \in Nat /\ n \in Nat
      /\ DOMAIN p = 1..m /\ DOMAIN q = 1..n
  BY DEF Offer
<1>2. t \in Seq(Blocks) /\ DOMAIN t = 1..(m + n)
      /\ (\A i \in 1..m : t[i] = p[i]) /\ (\A i \in (m + 1)..(m + n) : t[i] = q[i - m])
  BY <1>1
<1>8. m >= 1 => 1 \in DOMAIN t /\ t[1] = p[1]
  BY <1>1
<1> HIDE DEF t, m, n
<1>3. ASSUME NEW i \in DOMAIN t
      PROVE  \/ i \in 1..m /\ t[i] = p[i] /\ t[i].cid \in C /\ Called(t[i], s, r)
             \/ /\ i \notin 1..m /\ i - m \in 1..n /\ t[i] = q[i - m] /\ t[i].cid \in D
                /\ Called(t[i], s, r)
  <2>1. CASE i \in 1..m
    BY <1>1, <1>2, <2>1 DEF Offer, CidsOf
  <2>2. CASE i \notin 1..m
    <3>1. i - m \in 1..n /\ i \in (m + 1)..(m + n)
      BY <1>1, <1>2, <2>2
    <3> QED BY <1>1, <1>2, <3>1 DEF Offer, CidsOf
  <2> QED BY <2>1, <2>2
<1>4. CidsOf(t) \subseteq C \cup D
  BY <1>3 DEF CidsOf
<1>5. ASSUME NEW i \in DOMAIN t, NEW j \in DOMAIN t, t[i].cid = t[j].cid, t[i].cid \in Special
      PROVE  i = j
  <2>1. CASE i \in 1..m /\ j \in 1..m
    BY <1>1, <1>2, <1>5, <2>1 DEF Offer, Single
  <2>2. CASE i \notin 1..m /\ j \notin 1..m
    <3>1. i - m = j - m
      BY <1>1, <1>3, <1>5, <2>2 DEF Offer, Single
    <3> QED BY <1>1, <1>2, <3>1
  <2>3. CASE ~(i \in 1..m <=> j \in 1..m)
    <3>1. CASE i \in 1..m /\ j \notin 1..m
      <4>1. t[i].cid \in C /\ t[j].cid \in D
        BY <1>3, <3>1
      <4> QED BY <1>5, <4>1
    <3>2. CASE i \notin 1..m /\ j \in 1..m
      <4>1. t[j].cid \in C /\ t[i].cid \in D
        BY <1>3, <3>2
      <4> QED BY <1>5, <4>1
    <3> QED BY <2>3, <3>1, <3>2
  <2> QED BY <2>1, <2>2, <2>3
<1>6. Offer(t, s, r, C \cup D)
  BY <1>2, <1>3, <1>4, <1>5 DEF Offer, Single
<1>7. ASSUME Opens(p) PROVE Opens(t)
  <2>1. m >= 1
    BY <1>1, <1>7 DEF Opens, m
  <2>2. 1 \in DOMAIN t /\ t[1] = p[1]
    BY <1>8, <2>1
  <2>3. t # <<>>
    BY <2>2
  <2>4. p[1].cid = "ResetInd"
    BY <1>7 DEF Opens
  <2> QED BY <2>2, <2>3, <2>4 DEF Opens
<1> QED
  BY <1>6, <1>7 DEF t

\* Some of the requests.
LEMMA SomeOffer ==
    ASSUME NEW s, NEW r, NEW C, NEW q, Offer(q, s, r, C), NEW I
    PROVE  /\ Offer(Pick(q, I), s, r, C)
           /\ Opens(q) /\ 1 \in I => Opens(Pick(q, I))
           /\ \A j \in DOMAIN Pick(q, I) : \E i \in DOMAIN q : i \in I /\ Pick(q, I)[j] = q[i]
<1> DEFINE t == Pick(q, I)
<1>1. /\ q \in Seq(Blocks)
      /\ \A i, j \in DOMAIN q : q[i].cid = q[j].cid /\ q[i].cid \in Special => i = j
  BY DEF Offer, Single
<1>2. t \in Seq(Blocks) /\ \A j \in DOMAIN t : \E i \in DOMAIN q : i \in I /\ t[j] = q[i]
  BY <1>1, PickElements
<1>3. \A i, j \in DOMAIN t : t[i].cid = t[j].cid /\ t[i].cid \in Special => i = j
  BY <1>1, PickSingle
<1>4. Opens(q) /\ 1 \in I => Opens(t)
  BY <1>1, PickFirst DEF Opens
<1> HIDE DEF t
<1>5. \A j \in DOMAIN t : Called(t[j], s, r) /\ t[j].cid \in C
  BY <1>2 DEF Offer, CidsOf
<1>6. Offer(t, s, r, C)
  BY <1>2, <1>3, <1>5 DEF Offer, Single, CidsOf
<1> QED
  BY <1>2, <1>4, <1>6 DEF t

\* The requests of a device that get a response, one command each.
Confirmations == {Block(c, <<>>) : c \in Asks \cup {"ResetInd"}}

\* One more response, if there is one.
RespondOne(out, cmds, dr, i) ==
    IF IsFirst(cmds, i) THEN out \o Responses(cmds[i].cid, dr) ELSE out

\* The loop of MACCommandResponses.
LEMMA ResponseLoop ==
    ASSUME NEW cmds \in Seq(Replies), NEW dr, ~DisableMACCommands
    PROVE  \E f : /\ f \in [0..Len(cmds) -> Seq(Confirmations)] /\ f[0] = <<>>
                  /\ \A k \in 1..Len(cmds) : f[k] = RespondOne(f[k - 1], cmds, dr, k)
                  /\ MACCommandResponses(cmds, dr) = f[Len(cmds)]
<1> DEFINE N == Len(cmds)
           T == Seq(Confirmations)
           one(out, i) == RespondOne(out, cmds, dr, i)
           step == [k \in 1..N |-> [out \in T |-> one(out, k)]]
           D(f) == [n \in 0..N |-> IF n = 0 THEN <<>> ELSE one(f[n - 1], n)]
           upTo == CHOOSE f : f = D(f)
<1>1. MACCommandResponses(cmds, dr) = upTo[N]
  BY DEF MACCommandResponses, RespondOne
<1>2. ASSUME NEW k \in 1..N, NEW out \in T PROVE one(out, k) \in T
  <2>1. cmds[k] \in Replies
    OBVIOUS
  <2>2. cmds[k].cid \in Cids
    BY <2>1 DEF Replies
  <2> DEFINE c == cmds[k].cid
  <2>3. Responses(c, dr) \in {<<>>} \cup {<<b>> : b \in Confirmations}
    <3>1. c \in {"RekeyInd", "LinkCheckReq", "DeviceTimeReq", "PingSlotInfoReq",
                 "DeviceModeInd"} => c \in Asks
      BY <2>2, CidsOK DEF OwnCids
    <3>2. \A a \in Asks \cup {"ResetInd"} : Block(a, <<>>) \in Confirmations
      BY DEF Confirmations
    <3>3. CASE c \notin {"ResetInd", "RekeyInd", "LinkCheckReq", "DeviceTimeReq",
                         "PingSlotInfoReq", "DeviceModeInd"}
      <4>1. Responses(c, dr) = <<>>
        BY <3>3 DEF Responses
      <4> QED BY <4>1
    <3>4. CASE c \in {"ResetInd", "RekeyInd", "LinkCheckReq", "DeviceTimeReq",
                      "PingSlotInfoReq", "DeviceModeInd"}
      <4> HIDE DEF c
      <4>1. Responses(c, dr) \in {<<>>, <<Block(c, <<>>)>>}
        BY <3>4 DEF Responses, ResetConf, handleRekeyInd, handleLinkCheckReq, Response,
           handleDeviceTimeReq, PingSlotInfoAns, DeviceModeConf
      <4>2. c \in Asks \cup {"ResetInd"}
        BY <3>1, <3>4
      <4> QED BY <3>2, <4>1, <4>2
    <3> QED BY <3>3, <3>4
  <2>4. Responses(c, dr) \in Seq(Confirmations)
    <3> HIDE DEF c
    <3>1. CASE Responses(c, dr) = <<>>
      BY <3>1
    <3>2. CASE Responses(c, dr) # <<>>
      <4>1. PICK b \in Confirmations : Responses(c, dr) = <<b>>
        BY <2>3, <3>2
      <4> QED BY <4>1
    <3> QED BY <3>1, <3>2
  <2>5. out \o Responses(c, dr) \in Seq(Confirmations)
    <3> HIDE DEF c
    <3> QED BY <2>4
  <2> QED BY <2>5 DEF RespondOne
<1> HIDE DEF one
<1>3. N \in Nat /\ <<>> \in T
  OBVIOUS
<1>4. step \in [1..N -> [T -> T]]
  <2> HIDE DEF T, N
  <2> QED BY <1>2
<1>5. PICK h : IsLoop(h, T, <<>>, step, N)
  <2> HIDE DEF step, T, N
  <2> QED BY <1>3, <1>4, LoopExists
<1>6. h = D(h)
  <2>1. h = [n \in 0..N |-> h[n]] /\ h[0] = <<>>
    BY <1>5 DEF IsLoop
  <2>2. ASSUME NEW k \in 1..N PROVE h[k] = one(h[k - 1], k)
    <3>1. h[k - 1] \in T /\ h[k] = step[k][h[k - 1]]
      <4> HIDE DEF step, T, N
      <4> QED BY <1>3, <1>5 DEF IsLoop
    <3> HIDE DEF T
    <3> QED BY <3>1
  <2>3. \A k \in 0..N : h[k] = IF k = 0 THEN <<>> ELSE one(h[k - 1], k)
    BY <2>1, <2>2
  <2> QED BY <2>1, <2>3
<1>7. upTo = D(upTo)
  BY <1>6
<1> HIDE DEF upTo
<1>8. upTo[0] = <<>> /\ \A k \in 1..N : upTo[k] = one(upTo[k - 1], k)
  <2>1. \A k \in 0..N : upTo[k] = D(upTo)[k]
    BY <1>7
  <2> QED BY <1>3, <2>1
<1>9. upTo \in [0..N -> T]
  <2>1. upTo = [k \in 0..N |-> upTo[k]]
    BY <1>7
  <2>2. \A k \in 1..N : upTo[k - 1] \in T => upTo[k] = step[k][upTo[k - 1]]
    <3> HIDE DEF T
    <3> QED BY <1>8
  <2> HIDE DEF step, T, N
  <2>3. IsLoop(upTo, T, <<>>, step, N)
    BY <1>3, <1>4, <1>8, <2>1, <2>2, LoopTyped
  <2> QED BY <2>3 DEF IsLoop
<1> QED
  BY <1>1, <1>8, <1>9 DEF one

\* The responses to the requests of the device come first.
LEMMA ResponsesOK ==
    ASSUME Typed, StageInv, ResetInv, round.at = "uplink", NEW dr, NEW s, NEW r
    PROVE  LET q == MACCommandResponses(round.cmds, dr)
           IN  /\ Offer(q, s, r, Asks \cup {"ResetInd"})
               /\ dev.reset /\ ~DisableMACCommands => Opens(q)
<1> DEFINE cmds == round.cmds
           N == Len(cmds)
           q == MACCommandResponses(cmds, dr)
<1>1. cmds \in Seq(Replies)
  BY DEF Typed, Rounds
<1>2. CASE DisableMACCommands
  <2>1. q = <<>>
    BY <1>2 DEF MACCommandResponses
  <2> QED BY <1>2, <2>1, NoOffer
<1>3. CASE ~DisableMACCommands
  <2>1. PICK f : /\ f \in [0..N -> Seq(Confirmations)] /\ f[0] = <<>>
                 /\ \A k \in 1..N : f[k] = RespondOne(f[k - 1], cmds, dr, k)
                 /\ q = f[N]
    BY <1>1, <1>3, ResponseLoop
  <2>2. N \in Nat /\ DOMAIN cmds = 1..N
    BY <1>1
  <2> HIDE DEF q, N
  <2>3. q \in Seq(Confirmations)
    BY <2>1, <2>2
  <2>4. ASSUME NEW b \in Confirmations
        PROVE  Called(b, s, r) /\ b.cid \in Asks \cup {"ResetInd"} /\ b.cid \notin Special
    <3>1. PICK c \in Asks \cup {"ResetInd"} : b = Block(c, <<>>)
      BY DEF Confirmations
    <3>2. b.cid = c /\ b.ext = FALSE /\ b.req = <<>> /\ b.mask = {}
      BY <3>1 DEF Block, NoBlock
    <3>3. c \notin Params /\ c # "NewChannel" /\ c # "LinkADR" /\ c \notin ExtCids /\ c \in Cids
      BY CidsOK DEF OwnCids
    <3>4. b \in Blocks
      <4>1. <<>> \in Requests
        BY DEF Requests
      <4> HIDE DEF Requests
      <4> QED BY <3>1, <3>3, <4>1 DEF Blocks, Block, NoBlock
    <3> QED BY <3>2, <3>3, <3>4 DEF Called, Shape, Special
  <2>5. Confirmations \subseteq Blocks
    BY <2>4 DEF Called
  <2>6. q \in Seq(Blocks) /\ \A i \in DOMAIN q : q[i] \in Confirmations
    BY <2>3, <2>5
  <2>7. Offer(q, s, r, Asks \cup {"ResetInd"})
    BY <2>4, <2>6 DEF Offer, CidsOf, Single
  <2>8. ASSUME dev.reset PROVE Opens(q)
    <3>1. /\ cmds # <<>> /\ cmds[N].cid = "ResetInd"
          /\ \A i \in DOMAIN cmds : i < N => cmds[i].cid \in ExtCids
      BY <2>8 DEF ResetInv, Last, N
    <3>2. N \in 1..N
      BY <1>1, <2>2, <3>1 DEF N
    <3> DEFINE G == {k \in 0..(N - 1) : f[k] = <<>>}
    <3>3. 0 \in G
      BY <2>1, <3>2
    <3>4. ASSUME NEW k \in 1..(N - 1), k - 1 \in G PROVE k \in G
      <4>1. k \in 1..N /\ cmds[k].cid \in ExtCids
        BY <2>2, <3>1
      <4>2. Responses(cmds[k].cid, dr) = <<>>
        BY <4>1, CidsOK DEF Responses
      <4>3. f[k] = RespondOne(<<>>, cmds, dr, k)
        BY <2>1, <3>4, <4>1
      <4>4. f[k] = <<>>
        BY <4>2, <4>3 DEF RespondOne
      <4> QED BY <4>4
    <3>5. N - 1 \in G
      <4> HIDE DEF G
      <4>1. N - 1 \in Nat
        BY <3>2
      <4> QED BY <3>3, <3>4, <4>1, Induction
    <3>6. IsFirst(cmds, N)
      BY <2>2, <3>1, CidsOK DEF IsFirst
    <3>7. f[N] = <<>> \o Responses("ResetInd", dr)
      BY <2>1, <3>1, <3>2, <3>5, <3>6 DEF RespondOne
    <3>8. Responses("ResetInd", dr) = <<Block("ResetInd", <<>>)>>
      BY DEF Responses, ResetConf, Response
    <3>9. q = <<Block("ResetInd", <<>>)>>
      BY <2>1, <3>7, <3>8
    <3>10. Block("ResetInd", <<>>).cid = "ResetInd"
      BY DEF Block, NoBlock
    <3> QED BY <3>9, <3>10 DEF Opens
  <2> QED BY <2>7, <2>8 DEF q
<1> QED
  BY <1>2, <1>3

\* The request for new channels.
LEMMA NewChannelsOK ==
    ASSUME NEW s \in Sessions, NEW r
    PROVE  Offer(requestCustomChannelReconfiguration(s), s, r, {"NewChannel"})
<1> DEFINE current == CleanChannels(s).extra
           I == {i \in DOMAIN CustomChannelIndices : CustomChannelIndices[i] \notin current}
           wanted == Pick(CustomChannelIndices, I)
           n == Min({MaxNewChannels, Len(wanted)})
           out == SubSeq(wanted, 1, n)
           b == Block("NewChannel", out)
<1>1. CustomChannelIndices \in Seq(Nat)
  BY MacAssumption
<1>2. wanted \in Seq(Nat)
      /\ \A j \in DOMAIN wanted : \E i \in DOMAIN CustomChannelIndices :
             i \in I /\ wanted[j] = CustomChannelIndices[i]
  <2> HIDE DEF I
  <2> QED BY <1>1, PickElements
<1>3. \A j \in DOMAIN wanted : wanted[j] \in CustomChannels \ current
  BY <1>2 DEF CustomChannels, ToSet
<1> HIDE DEF wanted
<1>4. MaxNewChannels = 3
  BY DEF MaxNewChannels
<1>5. n \in Nat /\ n <= 3 /\ n <= Len(wanted)
  <2>1. Len(wanted) \in Nat
    BY <1>2
  <2>2. MaxNewChannels \in Int /\ Len(wanted) \in Int
    BY <1>4, <2>1
  <2>3. n \in {MaxNewChannels, Len(wanted)} /\ n <= MaxNewChannels /\ n <= Len(wanted)
    BY <2>2, MinTwo
  <2> QED BY <1>4, <2>1, <2>3
<1> HIDE DEF n
<1>6. out \in Seq(Nat) /\ Len(out) = n /\ DOMAIN out = 1..n /\ \A i \in 1..n : out[i] = wanted[i]
  BY <1>2, <1>5
<1> HIDE DEF out
<1>7. \A i \in 1..n : out[i] \in CustomChannels \ current
  <2>1. Len(wanted) \in Nat /\ DOMAIN wanted = 1..Len(wanted)
    BY <1>2
  <2>2. \A i \in 1..n : i \in DOMAIN wanted
    BY <1>5, <2>1
  <2> QED BY <1>3, <1>6, <2>2
<1>8. requestCustomChannelReconfiguration(s) = IF out = <<>> THEN <<>> ELSE <<b>>
  BY DEF requestCustomChannelReconfiguration, RequestNewChannels, out, n, wanted
<1>9. CASE out = <<>>
  BY <1>8, <1>9, NoOffer
<1>10. CASE out # <<>>
  <2>1. b.cid = "NewChannel" /\ b.req = out /\ b.ext = FALSE /\ b.mask = {}
    BY DEF Block, NoBlock
  <2>2. out \in Seq(CustomChannels)
    BY <1>6, <1>7
  <2>3. Len(out) \in 1..MaxNewChannels
    <3>1. n # 0
      BY <1>6, <1>10
    <3> QED BY <1>4, <1>5, <1>6, <3>1
  <2>4. ToSet(out) \cap s.extra = {}
    <3> SUFFICES ASSUME NEW c \in ToSet(out), c \in s.extra PROVE FALSE
      OBVIOUS
    <3>1. PICK i \in 1..n : c = out[i]
      BY <1>6 DEF ToSet
    <3>2. c \in CustomChannels /\ c \notin current
      BY <1>7, <3>1
    <3>3. current = s.extra \cap CustomChannels
      BY DEF CleanChannels, Sessions
    <3> QED BY <3>2, <3>3
  <2>5. out \in Requests
    BY <1>6 DEF Requests
  <2>6. b \in Blocks /\ "NewChannel" \notin Params /\ "NewChannel" \notin ExtCids
    <3>1. "NewChannel" \in Cids /\ "NewChannel" \notin Params /\ "NewChannel" \notin ExtCids
      BY CidsOK DEF OwnCids
    <3>2. b \in Blocks
      <4> HIDE DEF Requests
      <4> QED BY <2>5, <3>1 DEF Blocks, Block, NoBlock
    <3> QED BY <3>1, <3>2
  <2>7. Called(b, s, r)
    <3> HIDE DEF b
    <3> QED BY <2>1, <2>2, <2>3, <2>4, <2>6 DEF Called, Shape
  <2>8. Offer(<<b>>, s, r, {"NewChannel"})
    <3> HIDE DEF b
    <3> QED BY <2>1, <2>7, OneOffer
  <2> QED BY <1>8, <1>10, <2>8
<1> QED
  BY <1>9, <1>10

\* What is known of the refused indices r keeps the requests of the session s below them.
Heeds(s, r) ==
    /\ r \subseteq Nat
    /\ \A k \in r : s.link.power < k
    /\ 1 \notin r => \A k \in r : s.maxPower # 0 /\ s.maxPower < k

\* A LinkADRReq.
LEMMA LinkRequestOK ==
    ASSUME NEW s, NEW r, NEW l \in Links, NEW mask \in SUBSET Channels,
           mask \subseteq s.enabled, (s.enabled \ mask) \cap Wanted = {}, Below(l.power, r)
    PROVE  Called(LinkADRReq(l, mask), s, r) /\ LinkADRReq(l, mask).cid = "LinkADR"
<1> DEFINE b == LinkADRReq(l, mask)
           req == <<l.dr, l.power, l.nb>>
<1>1. b.cid = "LinkADR" /\ b.req = req /\ b.ext = FALSE /\ b.mask = mask
  BY DEF LinkADRReq, Block, NoBlock
<1>2. req[2] = l.power
  OBVIOUS
<1>3. req \in Requests
  <2>1. l.dr \in Nat /\ l.power \in Nat /\ l.nb \in Nat
    BY AdrAssumption, MacAssumption DEF Links
  <2> QED BY <2>1 DEF Requests
<1>4. "LinkADR" \in Cids /\ "LinkADR" \notin Params /\ "LinkADR" \notin ExtCids
  BY CidsOK DEF OwnCids
<1>5. b \in Blocks
  <2> HIDE DEF req, Requests
  <2>1. [Block("LinkADR", req) EXCEPT !.mask = mask] \in Blocks
    BY <1>3, <1>4 DEF Blocks, Block, NoBlock
  <2> QED BY <2>1 DEF LinkADRReq, req
<1>6. Shape(b)
  <2>1. \E k \in Links : b.req = <<k.dr, k.power, k.nb>>
    BY <1>1
  <2> HIDE DEF b
  <2> QED BY <1>1, <1>4, <2>1 DEF Shape
<1> HIDE DEF b, req
<1> QED
  BY <1>1, <1>2, <1>4, <1>5, <1>6 DEF Called, b

\* The request for another mask.
LEMMA MaskRequestOK ==
    ASSUME NEW s, SessionOK(s), NEW r, Heeds(s, r)
    PROVE  Offer(requestChannelMaskReconfiguration(s), s, r, {"LinkADR"})
<1> DEFINE mask == s.enabled \cap (StandardChannels \cup CustomChannels)
           b == LinkADRReq(s.link, mask)
<1>1. requestChannelMaskReconfiguration(s) \in {<<>>, <<b>>}
  BY DEF requestChannelMaskReconfiguration, HandleChannelReconfigure
<1>2. s.link \in Links /\ s.enabled \subseteq Channels
  BY DEF SessionOK, Sessions
<1>3. Called(b, s, r) /\ b.cid = "LinkADR"
  <2>1. mask \in SUBSET Channels /\ mask \subseteq s.enabled /\ (s.enabled \ mask) \cap Wanted = {}
    BY <1>2 DEF Wanted
  <2>2. Below(s.link.power, r)
    BY DEF Heeds, Below
  <2> HIDE DEF mask
  <2> QED BY <1>2, <2>1, <2>2, LinkRequestOK
<1> HIDE DEF b
<1>4. Offer(<<b>>, s, r, {"LinkADR"}) /\ Offer(<<>>, s, r, {"LinkADR"})
  BY <1>3, OneOffer, NoOffer
<1> QED
  BY <1>1, <1>4

\* The ADR algorithm adds a request, or changes the one for the mask.
LEMMA AdrChangeOK ==
    ASSUME NEW s, SessionOK(s), NEW r, Heeds(s, r), NEW C, NEW q, Offer(q, s, r, C),
           NEW t \in requestADRChange(s, q)
    PROVE  Offer(t, s, r, C \cup {"LinkADR"}) /\ (Opens(q) => Opens(t))
<1> DEFINE req == [adr |-> s.adr, link |-> s.link, maxPower |-> MaxTxPowerIndex(s),
                   history |-> s.history]
           has == \E i \in DOMAIN q : q[i].cid = "LinkADR"
<1>1. /\ s.adr \in BOOLEAN /\ s.link \in Links /\ s.maxPower \in 0..BandMaxPower
      /\ s.history \in Seq(Uplinks) /\ s.enabled \subseteq Channels
  BY DEF SessionOK, Sessions
<1>2. PICK l \in GetHandler(Algorithm, req) :
        t = IF l = s.link THEN q
            ELSE IF has
            THEN [i \in DOMAIN q |-> IF q[i].cid = "LinkADR"
                                     THEN LinkADRReq(l, q[i].mask) ELSE q[i]]
            ELSE Append(q, LinkADRReq(l, s.enabled))
  BY DEF requestADRChange
<1>3. l \in Links /\ (l.power <= s.link.power \/ l.power <= MaxTxPowerIndex(s))
  <2>1. MaxTxPowerIndex(s) \in 0..BandMaxPower
    BY <1>1, MacAssumption DEF MaxTxPowerIndex
  <2>2. req \in AdrRequests
    BY <1>1, <2>1 DEF AdrRequests
  <2>3. LinkOK(l, req)
    <3> HIDE DEF req
    <3> QED BY <2>2, AdrOK
  <2> QED BY <2>3 DEF LinkOK
<1> HIDE DEF req
<1>4. Below(l.power, r)
  <2> SUFFICES ASSUME 1 \notin r, NEW k \in r PROVE l.power < k
    BY DEF Below
  <2>1. s.link.power < k /\ s.maxPower # 0 /\ s.maxPower < k /\ k \in Nat
    BY DEF Heeds
  <2>2. s.link.power \in Nat /\ l.power \in Nat /\ s.maxPower \in Nat
    BY <1>1, <1>3, MacAssumption DEF Links
  <2> QED BY <1>3, <2>1, <2>2 DEF MaxTxPowerIndex
<1>5. q \in Seq(Blocks) /\ \A i \in DOMAIN q : q[i] \in Blocks
  BY DEF Offer
<1>6. CASE l = s.link
  <2>1. t = q
    BY <1>2, <1>6
  <2> QED BY <2>1 DEF Offer
<1>7. CASE l # s.link /\ has
  <2> DEFINE u == [i \in DOMAIN q |-> IF q[i].cid = "LinkADR"
                                      THEN LinkADRReq(l, q[i].mask) ELSE q[i]]
  <2>1. t = u
    BY <1>2, <1>7
  <2>2. ASSUME NEW i \in DOMAIN q
        PROVE  Called(t[i], s, r) /\ t[i].cid = q[i].cid /\ t[i] \in Blocks
    <3>1. CASE q[i].cid = "LinkADR"
      <4>1. t[i] = LinkADRReq(l, q[i].mask)
        BY <2>1, <3>1
      <4>2. q[i].mask \in SUBSET Channels /\ q[i].mask \subseteq s.enabled
            /\ (s.enabled \ q[i].mask) \cap Wanted = {}
        BY <1>1, <3>1 DEF Offer, Called
      <4>3. Called(t[i], s, r) /\ t[i].cid = "LinkADR"
        BY <1>3, <1>4, <4>1, <4>2, LinkRequestOK
      <4> QED BY <3>1, <4>3 DEF Called
    <3>2. CASE q[i].cid # "LinkADR"
      BY <1>5, <2>1, <3>2 DEF Offer
    <3> QED BY <3>1, <3>2
  <2>3. t \in Seq(Blocks) /\ DOMAIN t = DOMAIN q
    <3>1. DOMAIN t = DOMAIN q /\ DOMAIN q = 1..Len(q) /\ Len(q) \in Nat
      BY <1>5, <2>1
    <3>2. t = [i \in 1..Len(q) |-> t[i]]
      <4> DEFINE e(i) == IF q[i].cid = "LinkADR" THEN LinkADRReq(l, q[i].mask) ELSE q[i]
      <4>1. t = [i \in DOMAIN q |-> e(i)]
        BY <2>1
      <4> HIDE DEF e
      <4>2. t = [i \in DOMAIN q |-> t[i]]
        BY <4>1
      <4> QED BY <3>1, <4>2
    <3>3. t \in [1..Len(q) -> Blocks]
      BY <2>2, <3>1, <3>2
    <3> QED BY <3>1, <3>3
  <2> HIDE DEF u
  <2>4. \A i \in DOMAIN q : t[i].cid = q[i].cid
    BY <2>2
  <2>5. Single(t)
    BY <2>3, <2>4 DEF Single, Offer
  <2>6. CidsOf(t) \subseteq C
    BY <2>3, <2>4 DEF CidsOf, Offer
  <2>7. Offer(t, s, r, C \cup {"LinkADR"})
    BY <2>2, <2>3, <2>5, <2>6 DEF Offer
  <2>8. ASSUME Opens(q) PROVE Opens(t)
    <3>1. 1 \in DOMAIN q /\ q[1].cid = "ResetInd"
      BY <1>5, <2>8 DEF Opens
    <3>2. 1 \in DOMAIN t /\ t[1].cid = "ResetInd"
      BY <2>3, <2>4, <3>1
    <3>3. t # <<>>
      BY <3>2
    <3> QED BY <3>2, <3>3 DEF Opens
  <2> QED BY <2>7, <2>8
<1>8. CASE l # s.link /\ ~has
  <2> DEFINE b == LinkADRReq(l, s.enabled)
  <2>1. t = Append(q, b)
    BY <1>2, <1>8
  <2>2. Called(b, s, r) /\ b.cid = "LinkADR"
    BY <1>1, <1>3, <1>4, LinkRequestOK
  <2>3. Offer(q, s, r, C \ {"LinkADR"})
    BY <1>8 DEF Offer, CidsOf
  <2> HIDE DEF b
  <2>4. Offer(<<b>>, s, r, {"LinkADR"})
    BY <2>2, OneOffer
  <2>5. t = q \o <<b>>
    <3>1. b \in Blocks
      BY <2>2 DEF Called
    <3> QED BY <1>5, <2>1, <3>1
  <2>6. Offer(t, s, r, (C \ {"LinkADR"}) \cup {"LinkADR"}) /\ (Opens(q) => Opens(t))
    <3>1. (C \ {"LinkADR"}) \cap {"LinkADR"} \cap Special = {}
      OBVIOUS
    <3> QED BY <2>3, <2>4, <2>5, <3>1, BothOffers
  <2>7. (C \ {"LinkADR"}) \cup {"LinkADR"} = C \cup {"LinkADR"}
    OBVIOUS
  <2> QED BY <2>6, <2>7
<1> QED
  BY <1>6, <1>7, <1>8

\* The request for a parameter that is not the configured one.
LEMMA ParamRequestOK ==
    ASSUME Typed, NEW s, NEW r, NEW p, NEW q,
           q \in IF Unset(s, p) THEN {<<Block(p, <<conf[p]>>)>>} ELSE {<<>>}
    PROVE  Offer(q, s, r, {p})
<1> DEFINE b == Block(p, <<conf[p]>>)
<1>1. CASE ~Unset(s, p)
  BY <1>1, NoOffer
<1>2. CASE Unset(s, p)
  <2>1. p \in Params /\ s.val[p] # conf[p] /\ q = <<b>>
    BY <1>2 DEF Unset
  <2>2. conf[p] \in Values
    BY <2>1 DEF Typed
  <2>3. p \in Cids /\ p \notin ExtCids /\ p # "NewChannel" /\ p # "LinkADR"
    BY <2>1, CidsOK DEF OwnCids
  <2>4. <<conf[p]>> \in Requests
    BY <2>2 DEF Requests
  <2>5. b \in Blocks
    <3> DEFINE req == <<conf[p]>>
    <3> HIDE DEF Requests, req
    <3>1. Block(p, req) \in Blocks
      BY <2>3, <2>4 DEF Blocks, Block, NoBlock, req
    <3> QED BY <3>1 DEF req
  <2>6. b.cid = p /\ b.req = <<conf[p]>> /\ b.ext = FALSE
    BY DEF Block, NoBlock
  <2> HIDE DEF b
  <2>7. Called(b, s, r)
    BY <2>1, <2>2, <2>3, <2>5, <2>6 DEF Called, Shape
  <2> QED BY <2>1, <2>6, <2>7, OneOffer
<1> QED
  BY <1>1, <1>2

RestCids == {"DevStatusReq", "RejoinParamSetup", "PingSlotChannel", "RXParamSetup",
             "RXTimingSetup", "TXParamSetup"} \cup ExtCids

\* The other requests: the status of the device, the parameters and the queue.
LEMMA RestOK ==
    ASSUME Typed, NEW s, NEW r, NEW due
    PROVE  Offer(requestDevStatus(due) \o requestRejoinParamSetup(s)
                    \o setPingSlotParameters(s) \o setRXParameters(s)
                    \o setTXParameters(s) \o getMACCommandsFromQueue, s, r, RestCids)
<1> DEFINE q1 == requestDevStatus(due)
           q2 == requestRejoinParamSetup(s)
           q3 == setPingSlotParameters(s)
           one(p) == IF Unset(s, p) THEN <<Block(p, <<conf[p]>>)>> ELSE <<>>
           q4 == one("RXParamSetup")
           q5 == one("RXTimingSetup")
           q6 == setTXParameters(s)
           q7 == getMACCommandsFromQueue
<1>1. Offer(q1, s, r, {"DevStatusReq"})
  <2> DEFINE b == Block("DevStatusReq", <<>>)
  <2>1. b.cid = "DevStatusReq" /\ b.ext = FALSE
    BY DEF Block, NoBlock
  <2>2. "DevStatusReq" \in Cids /\ "DevStatusReq" \notin Params \cup ExtCids
    BY CidsOK DEF OwnCids
  <2>3. b \in Blocks
    <3>1. <<>> \in Requests
      BY DEF Requests
    <3> HIDE DEF Requests
    <3> QED BY <2>2, <3>1 DEF Blocks, Block, NoBlock
  <2>4. q1 \in {<<b>>, <<>>}
    BY DEF requestDevStatus, RequestDevStatus
  <2> HIDE DEF b
  <2>5. Called(b, s, r)
    BY <2>1, <2>2, <2>3 DEF Called, Shape
  <2> QED BY <2>1, <2>4, <2>5, OneOffer, NoOffer
<1>2. ASSUME NEW p PROVE Offer(one(p), s, r, {p})
  BY ParamRequestOK
<1>3. /\ q2 = one("RejoinParamSetup") /\ q3 = one("PingSlotChannel")
      /\ setRXParameters(s) = q4 \o q5 /\ q6 = one("TXParamSetup")
  BY DEF requestRejoinParamSetup, setPingSlotParameters, setRXParameters, setTXParameters,
     RequestRejoinParamSetup, RequestPingSlotChannel, RequestRXParamSetup,
     RequestRXTimingSetup, RequestTXParamSetup
<1>4. Offer(q7, s, r, ExtCids)
  <2>1. queue \in Seq(Blocks) /\ \A i \in DOMAIN queue : queue[i].ext /\ queue[i].cid \in ExtCids
    BY DEF Typed
  <2>2. ASSUME NEW i \in DOMAIN queue PROVE Called(queue[i], s, r)
    <3>1. queue[i] \in Blocks /\ queue[i].cid \in ExtCids /\ queue[i].ext
      BY <2>1
    <3>2. queue[i].cid \notin Params \cup {"NewChannel", "LinkADR"}
      BY <3>1, CidsOK DEF OwnCids
    <3> QED BY <3>1, <3>2 DEF Called, Shape
  <2>3. \A i \in DOMAIN queue : queue[i].cid \notin Special
    BY <2>1, CidsOK DEF OwnCids, Special
  <2> QED BY <2>1, <2>2, <2>3 DEF Offer, CidsOf, Single, getMACCommandsFromQueue
<1> HIDE DEF q1, q2, q3, one, q4, q5, q6, q7
<1>5. /\ Offer(q2, s, r, {"RejoinParamSetup"}) /\ Offer(q3, s, r, {"PingSlotChannel"})
      /\ Offer(q4, s, r, {"RXParamSetup"}) /\ Offer(q5, s, r, {"RXTimingSetup"})
      /\ Offer(q6, s, r, {"TXParamSetup"})
  BY <1>2, <1>3 DEF q4, q5
<1> DEFINE C2 == {"DevStatusReq"} \cup {"RejoinParamSetup"}
           C3 == C2 \cup {"PingSlotChannel"}
           C5 == {"RXParamSetup"} \cup {"RXTimingSetup"}
           C6 == C3 \cup C5
           C7 == C6 \cup {"TXParamSetup"}
<1>6. Offer(q1 \o q2, s, r, C2)
  <2>1. {"DevStatusReq"} \cap {"RejoinParamSetup"} \cap Special = {}
    OBVIOUS
  <2> QED BY <1>1, <1>5, <2>1, BothOffers
<1>7. Offer(q1 \o q2 \o q3, s, r, C3)
  <2>1. C2 \cap {"PingSlotChannel"} \cap Special = {}
    OBVIOUS
  <2> QED BY <1>5, <1>6, <2>1, BothOffers
<1>8. Offer(q4 \o q5, s, r, C5)
  <2>1. {"RXParamSetup"} \cap {"RXTimingSetup"} \cap Special = {}
    OBVIOUS
  <2> QED BY <1>5, <2>1, BothOffers
<1>9. Offer((q1 \o q2 \o q3) \o (q4 \o q5), s, r, C6)
  <2>1. C3 \cap C5 \cap Special = {}
    OBVIOUS
  <2> QED BY <1>7, <1>8, <2>1, BothOffers
<1>10. Offer((q1 \o q2 \o q3) \o (q4 \o q5) \o q6, s, r, C7)
  <2>1. C6 \cap {"TXParamSetup"} \cap Special = {}
    OBVIOUS
  <2> QED BY <1>5, <1>9, <2>1, BothOffers
<1>11. Offer((q1 \o q2 \o q3) \o (q4 \o q5) \o q6 \o q7, s, r, C7 \cup ExtCids)
  <2>1. C7 \cap ExtCids \cap Special = {}
    BY CidsOK DEF Special
  <2> QED BY <1>4, <1>10, <2>1, BothOffers
<1>12. C7 \cup ExtCids = RestCids
  BY DEF RestCids
<1>13. Offer(q1 \o q2 \o q3 \o setRXParameters(s) \o q6 \o q7, s, r, RestCids)
  <2> HIDE DEF C7
  <2> QED BY <1>3, <1>11, <1>12
<1> QED
  BY <1>13 DEF q1, q2, q3, q6, q7

\* The response: what the session calls for, with no command that was given up, none
\* of the server's when they are disabled, and no LinkADRReq with a NewChannelReq.
LEMMA CollectedOK ==
    ASSUME Typed, NEW s, SessionOK(s), NEW r, Heeds(s, r), NEW due, NEW responses,
           Offer(responses, s, r, Asks \cup {"ResetInd"}),
           NEW q \in Collected(s, responses, due)
    PROVE  /\ Offer(q, s, r, Cids) /\ Apart(q)
           /\ \A i \in DOMAIN q : /\ s.errors[q[i].cid] <= MaxErrors
                                  /\ DisableMACCommands => q[i].ext
           /\ Opens(responses) /\ ~DisableMACCommands => Opens(q)
<1> DEFINE new == requestCustomChannelReconfiguration(s)
           mask == requestChannelMaskReconfiguration(s)
           channels == responses \o new \o mask
           rest == requestDevStatus(due) \o requestRejoinParamSetup(s)
                      \o setPingSlotParameters(s) \o setRXParameters(s)
                      \o setTXParameters(s) \o getMACCommandsFromQueue
           C1 == Asks \cup {"ResetInd"}
           C2 == C1 \cup {"NewChannel"}
           C3 == C2 \cup {"LinkADR"}
<1>1. PICK adr \in requestADRChange(s, channels) :
        q = filterIncompatibleMACCommands(FilterErrors(s, OnlyExternal(adr \o rest)))
  BY DEF Collected
<1>2. Offer(new, s, r, {"NewChannel"}) /\ Offer(mask, s, r, {"LinkADR"})
  BY NewChannelsOK, MaskRequestOK DEF SessionOK
<1>3. Offer(rest, s, r, RestCids)
  BY RestOK
<1> HIDE DEF new, mask, rest
<1>4. Offer(responses \o new, s, r, C2) /\ (Opens(responses) => Opens(responses \o new))
  <2>1. C1 \cap {"NewChannel"} \cap Special = {}
    BY CidsOK
  <2> QED BY <1>2, <2>1, BothOffers
<1>5. Offer(channels, s, r, C3) /\ (Opens(responses) => Opens(channels))
  <2>1. C2 \cap {"LinkADR"} \cap Special = {}
    BY CidsOK
  <2> QED BY <1>2, <1>4, <2>1, BothOffers
<1> HIDE DEF channels
<1>6. Offer(adr, s, r, C3 \cup {"LinkADR"}) /\ (Opens(responses) => Opens(adr))
  BY <1>5, AdrChangeOK
<1> DEFINE C4 == C3 \cup {"LinkADR"}
           all == adr \o rest
           own == OnlyExternal(all)
           few == FilterErrors(s, own)
<1>7. Offer(all, s, r, C4 \cup RestCids) /\ (Opens(responses) => Opens(all))
  <2>1. C4 \cap RestCids \cap Special = {}
    BY CidsOK DEF RestCids, Special
  <2>2. Offer(adr, s, r, C4)
    BY <1>6
  <2> HIDE DEF C4
  <2> QED BY <1>3, <1>6, <2>1, <2>2, BothOffers
<1> DEFINE C == C4 \cup RestCids
<1> HIDE DEF all, C
<1>8. /\ Offer(own, s, r, C) /\ (Opens(responses) /\ ~DisableMACCommands => Opens(own))
      /\ \A i \in DOMAIN own : DisableMACCommands => own[i].ext
  <2>1. CASE ~DisableMACCommands
    <3>1. own = all
      BY <2>1 DEF OnlyExternal
    <3> QED BY <1>7, <2>1, <3>1 DEF C
  <2>2. CASE DisableMACCommands
    <3> DEFINE I == {i \in DOMAIN all : all[i].ext}
    <3>1. own = Pick(all, I)
      BY <2>2 DEF OnlyExternal
    <3>2. Offer(all, s, r, C)
      BY <1>7 DEF C
    <3> HIDE DEF I
    <3>3. /\ Offer(own, s, r, C)
          /\ \A j \in DOMAIN own : \E i \in DOMAIN all : i \in I /\ own[j] = all[i]
      BY <3>1, <3>2, SomeOffer
    <3> QED BY <2>2, <3>3 DEF I
  <2> QED BY <2>1, <2>2
<1> HIDE DEF own
<1>9. /\ Offer(few, s, r, C) /\ (Opens(responses) /\ ~DisableMACCommands => Opens(few))
      /\ \A i \in DOMAIN few : /\ s.errors[few[i].cid] <= MaxErrors
                               /\ DisableMACCommands => few[i].ext
  <2> DEFINE I == {i \in DOMAIN own : s.errors[own[i].cid] <= MaxErrors}
  <2>1. few = Pick(own, I)
    BY DEF FilterErrors
  <2>2. Opens(own) => 1 \in I
    <3>1. s.errors["ResetInd"] <= MaxErrors
      BY MacAssumption DEF SessionOK
    <3>2. own \in Seq(Blocks)
      BY <1>8 DEF Offer
    <3>3. own # <<>> => 1 \in DOMAIN own
      BY <3>2
    <3> QED BY <3>1, <3>3 DEF Opens
  <2> HIDE DEF I
  <2>3. /\ Offer(few, s, r, C) /\ (Opens(own) /\ 1 \in I => Opens(few))
        /\ \A j \in DOMAIN few : \E i \in DOMAIN own : i \in I /\ few[j] = own[i]
    BY <1>8, <2>1, SomeOffer
  <2> QED BY <1>8, <2>2, <2>3 DEF I
<1> HIDE DEF few
<1>10. /\ Offer(q, s, r, C) /\ (Opens(few) => Opens(q)) /\ Apart(q)
       /\ \A j \in DOMAIN q : \E i \in DOMAIN few : q[j] = few[i]
  <2>1. q = filterIncompatibleMACCommands(few)
    BY <1>1 DEF few, own, all
  <2>2. CASE ~\E i \in DOMAIN few : few[i].cid = "NewChannel"
    <3>1. q = few
      BY <2>1, <2>2 DEF filterIncompatibleMACCommands
    <3> QED BY <1>9, <2>2, <3>1 DEF Apart, CidsOf
  <2>3. CASE \E i \in DOMAIN few : few[i].cid = "NewChannel"
    <3> DEFINE I == {i \in DOMAIN few : few[i].cid # "LinkADR"}
    <3>1. q = Pick(few, I)
      BY <2>1, <2>3 DEF filterIncompatibleMACCommands
    <3>2. Opens(few) => 1 \in I
      <4>1. few \in Seq(Blocks)
        BY <1>9 DEF Offer
      <4>2. few # <<>> => 1 \in DOMAIN few
        BY <4>1
      <4> QED BY <4>2 DEF Opens
    <3> HIDE DEF I
    <3>3. /\ Offer(q, s, r, C) /\ (Opens(few) /\ 1 \in I => Opens(q))
          /\ \A j \in DOMAIN q : \E i \in DOMAIN few : i \in I /\ q[j] = few[i]
      BY <1>9, <3>1, SomeOffer
    <3>4. Apart(q)
      BY <3>3 DEF I, Apart, CidsOf
    <3> QED BY <3>2, <3>3, <3>4
  <2> QED BY <2>2, <2>3
<1>11. Offer(q, s, r, Cids)
  <2>1. q \in Seq(Blocks) /\ \A i \in DOMAIN q : q[i] \in Blocks
    BY <1>10 DEF Offer
  <2>2. \A i \in DOMAIN q : q[i].cid \in Cids
    BY <2>1 DEF Blocks
  <2> QED BY <1>10, <2>2 DEF Offer, CidsOf
<1>12. \A i \in DOMAIN q : /\ s.errors[q[i].cid] <= MaxErrors
                           /\ DisableMACCommands => q[i].ext
  BY <1>9, <1>10
<1> QED
  BY <1>9, <1>10, <1>11, <1>12

\* The requests of the response are those the session that is saved calls for.
LEMMA HandleBlocks ==
    ASSUME Typed, StageInv, PendingInv, ReplyFlight, ResetInv, PowerInv, AvoidInv, HandleUplink
    PROVE  BlocksInv' /\ round'.blocks \in Seq(Blocks)
<1> DEFINE q == round'.blocks
           responses == MACCommandResponses(round.cmds, dev.link.dr)
<1>1. /\ ds' = Handled /\ conf' = conf /\ dev'.reset = dev.reset /\ dev'.adr = dev.adr
      /\ round.at = "uplink" /\ round'.at = "commit"
      /\ \E due \in BOOLEAN : q \in Collected(Handled, responses, due)
  BY HandleState
<1>2. refused' \subseteq Nat /\ PowerInv' /\ SessionOK(Handled)
  BY HandlePower, HandledOK
<1>3. Heeds(Handled, refused')
  <2>1. ASSUME NEW k \in refused' PROVE Handled.link.power < k
    <3>1. dev.adr /\ k > DevMaxPower
      BY <1>1, <1>2, <2>1 DEF PowerInv
    <3>2. Handled.link.power <= DevMaxPower
      BY <1>1, <1>2, <3>1 DEF PowerInv
    <3>3. Handled.link.power \in Nat /\ DevMaxPower \in Nat /\ k \in Nat
      BY <1>2, MacAssumption DEF SessionOK, Sessions, Links
    <3> QED BY <3>1, <3>2, <3>3
  <2> QED BY <1>1, <1>2, <2>1 DEF Heeds, PowerInv
<1>4. Offer(responses, Handled, refused', Asks \cup {"ResetInd"})
      /\ (dev.reset /\ ~DisableMACCommands => Opens(responses))
  BY <1>1, ResponsesOK
<1>5. PICK due \in BOOLEAN : q \in Collected(Handled, responses, due)
  BY <1>1
<1> HIDE DEF q, responses
<1>6. /\ Offer(q, Handled, refused', Cids) /\ Apart(q)
      /\ \A i \in DOMAIN q : /\ Handled.errors[q[i].cid] <= MaxErrors
                             /\ DisableMACCommands => q[i].ext
      /\ Opens(responses) /\ ~DisableMACCommands => Opens(q)
  BY <1>2, <1>3, <1>4, <1>5, CollectedOK
<1>7. ASSUME NEW i \in DOMAIN q PROVE BlockInv(round.blocks[i])'
  <2>1. Called(q[i], Handled, refused')
    BY <1>6 DEF Offer
  <2>2. /\ Handled.errors[q[i].cid] <= MaxErrors
        /\ DisableMACCommands => q[i].ext
    BY <1>6
  <2> QED BY <1>1, <2>1, <2>2 DEF BlockInv, Called, Shape, MaskOK, Avoids, Below, q
<1>8. Single(round.blocks)' /\ Apart(round.blocks)'
  BY <1>6 DEF Offer, Single, Apart, CidsOf, q
<1>9. dev'.reset /\ ~DisableMACCommands => round'.blocks[1].cid = "ResetInd"
  BY <1>1, <1>4, <1>6 DEF Opens, q
<1>10. BlocksInv'
  BY <1>1, <1>7, <1>8, <1>9 DEF BlocksInv, q
<1> QED
  BY <1>6, <1>10 DEF Offer, q

\* HandleUplink keeps the invariant.
LEMMA HandleUplinkKeeps ==
    ASSUME IInv, HandleUplink
    PROVE  IInv'
<1> USE DEF IInv
<1>1. /\ queue' = queue /\ conf' = conf /\ calm' = calm /\ ds' = Handled /\ dev' \in Nodes
      /\ changes' \in 0..MaxChanges /\ changes <= changes'
      /\ round' \in [at : {"commit"}, cmds : {<<>>}, must : BOOLEAN, blocks : {round'.blocks}]
  BY HandleState
<1>2. /\ SessionOK(Handled) /\ mode' \in {"A", "C"}
      /\ pending' \in [Cids -> Blocks \cup {NoBlock}]
      /\ blind' \subseteq Cids \X {"repeated", "reset", "withdrawn"} /\ refused' \subseteq Nat
      /\ round'.blocks \in Seq(Blocks)
  BY HandledOK, HandleStage, HandlePending, HandleMisread, HandlePower, HandleBlocks
<1>3. round' \in Rounds
  <2>1. <<>> \in Seq(Replies)
    OBVIOUS
  <2> HIDE DEF IInv
  <2> QED BY <1>1, <1>2, <2>1 DEF Rounds
<1>4. queue' \in Seq(Blocks) /\ Len(queue') <= changes'
  <2>1. queue \in Seq(Blocks) /\ Len(queue) <= changes /\ changes \in Int /\ changes' \in Int
    BY <1>1, MacAssumption DEF Typed
  <2>2. Len(queue) \in Int
    BY <2>1
  <2> HIDE DEF IInv
  <2> QED BY <1>1, <2>1, <2>2
<1>5. Typed'
  <2>1. SessionOK(ds)'
    BY <1>1, <1>2 DEF SessionOK
  <2> QED BY <1>1, <1>2, <1>3, <1>4, <2>1 DEF Typed
<1> QED
  BY <1>5, HandleStage, HandlePending, HandlePower, HandleBlocks, HandleMisread, HandleParams,
     HandleChannels

-----------------------------------------------------------------------------
(* The other steps *)

\* Answers stay what they are while what they are about does.
LEMMA RepliedFrame ==
    ASSUME dev'.val = dev.val, dev'.enabled = dev.enabled, dev'.adr = dev.adr,
           ds'.enabled = ds.enabled, NEW s, Replied(s),
           \A i \in DOMAIN s : s[i].cid \in Cids => pending'[s[i].cid] = pending[s[i].cid],
           "LinkADR" \in Cids, "NewChannel" \in Cids, Params \subseteq Cids
    PROVE  /\ dev'.answers = s => Replied(dev.answers)'
           /\ round'.cmds = s => Replied(round.cmds)'
<1>1. ASSUME NEW i \in DOMAIN s
      PROVE  /\ dev'.answers = s => ReplyInv(dev.answers, dev.answers[i])'
             /\ round'.cmds = s => ReplyInv(round.cmds, round.cmds[i])'
  <2>1. ReplyInv(s, s[i])
    BY DEF Replied
  <2>2. s[i].cid \in Cids => pending'[s[i].cid] = pending[s[i].cid]
    OBVIOUS
  <2>3. CASE s[i].cid \in Params
    BY <2>1, <2>2, <2>3, CidsOK DEF ReplyInv, OwnCids
  <2>4. CASE s[i].cid = "LinkADR"
    BY <2>1, <2>2, <2>4 DEF ReplyInv, LinkAnswer, MaskOK
  <2>5. CASE s[i].cid = "NewChannel"
    <3> DEFINE b == pending["NewChannel"]
    <3>1. b # NoBlock /\ ChannelAnswers(s, b) /\ pending'["NewChannel"] = b
      BY <2>1, <2>2, <2>5 DEF ReplyInv
    <3> HIDE DEF b
    <3>2. PICK a \in 0..Len(s) :
            /\ {j \in DOMAIN s : s[j].cid = "NewChannel"} = (a + 1)..(a + Len(b.req))
            /\ \A j \in 1..Len(b.req) : s[a + j].ok = (b.req[j] \notin RefusedChannels)
            /\ ToSet(b.req) \ RefusedChannels \subseteq dev.enabled
      BY <3>1 DEF ChannelAnswers
    <3>3. \E x \in 0..Len(s) :
            /\ {j \in DOMAIN s : s[j].cid = "NewChannel"} = (x + 1)..(x + Len(b.req))
            /\ \A j \in 1..Len(b.req) : s[x + j].ok = (b.req[j] \notin RefusedChannels)
            /\ ToSet(b.req) \ RefusedChannels \subseteq dev'.enabled
      BY <3>2
    <3>4. dev'.answers = s => ChannelAnswers(dev.answers, pending["NewChannel"])'
      BY <3>1, <3>3 DEF ChannelAnswers
    <3>5. round'.cmds = s => ChannelAnswers(round.cmds, pending["NewChannel"])'
      BY <3>1, <3>3 DEF ChannelAnswers
    <3>6. s[i].cid \notin Params /\ s[i].cid # "LinkADR" /\ s[i].cid # "DeviceModeInd"
      BY <2>5, CidsOK DEF OwnCids
    <3> QED BY <2>5, <3>1, <3>4, <3>5, <3>6 DEF ReplyInv
  <2>6. CASE s[i].cid \notin Params \cup {"LinkADR", "NewChannel"}
    BY <2>1, <2>6 DEF ReplyInv
  <2> QED BY <2>3, <2>4, <2>5, <2>6
<1>2. OneEach(s) /\ Apart(s)
      /\ (DisableMACCommands => CidsOf(s) \subseteq ExtCids \cup Asks \cup {"ResetInd"})
  BY DEF Replied
<1>3. dev'.answers = s => Replied(dev.answers)'
  BY <1>1, <1>2 DEF Replied, OneEach, Apart, CidsOf
<1>4. round'.cmds = s => Replied(round.cmds)'
  BY <1>1, <1>2 DEF Replied, OneEach, Apart, CidsOf
<1> QED
  BY <1>3, <1>4

\* What a step of the exchange leaves as it is.
LEMMA Settled ==
    ASSUME IInv, ds' = ds, pending' = pending, conf' = conf, blind' = blind, refused' = refused,
           dev'.val = dev.val, dev'.enabled = dev.enabled, dev'.adr = dev.adr,
           dev'.reset = dev.reset, round'.blocks = <<>> \/ round' = round
    PROVE  /\ PendingInv' /\ PowerInv' /\ AvoidInv' /\ BlocksInv' /\ ParamInv' /\ ChannelInv'
           /\ OnlyRepeatedMisread'
<1>1. PendingInv' /\ PowerInv' /\ AvoidInv' /\ OnlyRepeatedMisread'
  BY DEF IInv, PendingInv, PowerInv, AvoidInv, Avoids, OnlyRepeatedMisread, Shape
<1>2. CASE round'.blocks = <<>>
  <2>1. BlocksInv'
    BY <1>2 DEF BlocksInv, Single, Apart, CidsOf
  <2>2. ~Confirming'
    BY <1>2 DEF Confirming
  <2>3. ParamInv'
    BY <2>2 DEF IInv, ParamInv, Blind
  <2>4. ChannelInv'
    BY <2>2 DEF IInv, ChannelInv
  <2> QED BY <1>1, <2>1, <2>3, <2>4
<1>3. CASE round' = round
  <2>1. ASSUME NEW i \in DOMAIN round.blocks PROVE BlockInv(round.blocks[i])'
    BY <1>3, <2>1 DEF IInv, BlocksInv, BlockInv, Shape, MaskOK, Avoids
  <2>2. BlocksInv'
    BY <1>3, <2>1 DEF IInv, BlocksInv, Single, Apart, CidsOf
  <2>3. Confirming' <=> Confirming
    BY <1>3 DEF Confirming
  <2>4. ParamInv'
    BY <2>3 DEF IInv, ParamInv, Blind
  <2>5. ChannelInv'
    BY <2>3 DEF IInv, ChannelInv
  <2> QED BY <1>1, <2>2, <2>4, <2>5
<1> QED
  BY <1>2, <1>3

\* A request of the device after its answers.
LEMMA AppendedReply ==
    ASSUME NEW s \in Seq(Replies), Replied(s), NEW a \in Replies,
           a.cid \in Asks \cup {"ResetInd"}, a.cid = "DeviceModeInd" => a.bits \in {{"A"}, {"C"}}
    PROVE  Replied(s \o <<a>>)
<1> DEFINE t == s \o <<a>>
           n == Len(s)
<1>1. /\ n \in Nat /\ DOMAIN s = 1..n /\ DOMAIN t = 1..(n + 1) /\ Len(t) = n + 1
      /\ t[n + 1] = a /\ \A i \in 1..n : t[i] = s[i]
  OBVIOUS
<1>2. a.cid \notin Params \cup {"LinkADR", "NewChannel"}
  BY CidsOK DEF OwnCids
<1> HIDE DEF t, n
<1>3. ASSUME NEW b, ChannelAnswers(s, b) PROVE ChannelAnswers(t, b)
  <2>1. PICK x \in 0..n :
          /\ {j \in DOMAIN s : s[j].cid = "NewChannel"} = (x + 1)..(x + Len(b.req))
          /\ \A j \in 1..Len(b.req) : s[x + j].ok = (b.req[j] \notin RefusedChannels)
          /\ ToSet(b.req) \ RefusedChannels \subseteq dev.enabled
    BY <1>3 DEF ChannelAnswers, n
  <2>2. {j \in DOMAIN t : t[j].cid = "NewChannel"} = {j \in DOMAIN s : s[j].cid = "NewChannel"}
    <3>1. ASSUME NEW j \in DOMAIN t, t[j].cid = "NewChannel" PROVE j \in DOMAIN s
      BY <1>1, <1>2, <3>1
    <3>2. ASSUME NEW j \in DOMAIN s PROVE j \in DOMAIN t /\ t[j] = s[j]
      BY <1>1
    <3> QED BY <3>1, <3>2
  <2>3. \A j \in 1..Len(b.req) : t[x + j] = s[x + j]
    <3> SUFFICES ASSUME NEW j \in 1..Len(b.req) PROVE t[x + j] = s[x + j]
      OBVIOUS
    <3>1. x + j \in (x + 1)..(x + Len(b.req)) \/ Len(b.req) \notin Int
      BY <1>1, <2>1
    <3>2. CASE Len(b.req) \in Int
      <4>1. x + j \in DOMAIN s
        BY <2>1, <3>1, <3>2
      <4> QED BY <1>1, <4>1
    <3>3. CASE Len(b.req) \notin Int
      BY <3>3
    <3> QED BY <3>2, <3>3
  <2>4. x \in 0..Len(t)
    BY <1>1, <2>1
  <2> QED BY <2>1, <2>2, <2>3, <2>4 DEF ChannelAnswers
<1>4. ASSUME NEW i \in DOMAIN t PROVE ReplyInv(t, t[i])
  <2>1. CASE i = n + 1
    BY <1>1, <1>2, <2>1 DEF ReplyInv
  <2>2. CASE i \in 1..n
    <3>1. ReplyInv(s, s[i]) /\ t[i] = s[i]
      BY <1>1, <2>2 DEF Replied
    <3> QED BY <1>3, <3>1 DEF ReplyInv
  <2> QED BY <1>1, <2>1, <2>2
<1>5. ASSUME NEW i \in DOMAIN t, t[i].cid # a.cid PROVE i \in DOMAIN s /\ t[i] = s[i]
  BY <1>1, <1>5
<1>6. OneEach(t)
  <2> SUFFICES ASSUME NEW i \in DOMAIN t, NEW j \in DOMAIN t, t[i].cid = t[j].cid,
                      t[i].cid \in Params \cup {"LinkADR"}
               PROVE  i = j
    BY DEF OneEach
  <2>1. i \in DOMAIN s /\ j \in DOMAIN s /\ t[i] = s[i] /\ t[j] = s[j]
    BY <1>2, <1>5
  <2> QED BY <2>1 DEF Replied, OneEach
<1>7. Apart(t)
  <2>1. CidsOf(t) \cap {"LinkADR", "NewChannel"} \subseteq CidsOf(s)
    BY <1>2, <1>5 DEF CidsOf
  <2> QED BY <2>1 DEF Replied, Apart
<1>8. CidsOf(t) \subseteq CidsOf(s) \cup {a.cid}
  BY <1>5 DEF CidsOf
<1> QED
  BY <1>4, <1>6, <1>7, <1>8 DEF Replied, t

\* What SendUplink writes.
LEMMA SendState ==
    ASSUME Typed, SendUplink
    PROVE  /\ round.at = "idle" /\ round'.at = "uplink" /\ round'.blocks = <<>>
           /\ round'.must = FALSE
           /\ round' = [at |-> "uplink", cmds |-> round'.cmds, must |-> FALSE, blocks |-> <<>>]
           /\ \E own : /\ round'.cmds = dev.answers \o own
                       /\ IF dev.reset
                          THEN own = <<Answer(Block("ResetInd", <<>>), TRUE, {})>>
                          ELSE \/ own = <<>>
                               \/ \E ask \in Asks, class \in {"A", "C"} :
                                     own = <<Answer(Block(ask, <<>>), TRUE, {class})>>
           /\ dev' = [dev EXCEPT !.answers = Pick(@, {i \in DOMAIN @ : @[i].cid \in Sticky})]
           /\ changes' \in 0..MaxChanges /\ changes <= changes'
           /\ UNCHANGED <<ds, mode, pending, queue, conf, blind, refused, calm>>
<1>1. PICK ask \in Asks \cup {"none"}, class \in {"A", "C"} :
         /\ class = "C" => ask = "DeviceModeInd"
         /\ ask # "none" => changes < MaxChanges
         /\ changes' = changes + (IF ask = "none" THEN 0 ELSE 1)
         /\ LET own == IF dev.reset THEN <<Answer(Block("ResetInd", <<>>), TRUE, {})>>
                       ELSE IF ask = "none" THEN <<>>
                       ELSE <<Answer(Block(ask, <<>>), TRUE, {class})>>
            IN  round' = [Idle EXCEPT !.at = "uplink", !.cmds = dev.answers \o own]
  BY DEF SendUplink
<1>2. /\ round.at = "idle"
      /\ dev' = [dev EXCEPT !.answers = Pick(@, {i \in DOMAIN @ : @[i].cid \in Sticky})]
      /\ UNCHANGED <<ds, mode, pending, queue, conf, blind, refused, calm>>
  BY DEF SendUplink
<1>3. changes' \in 0..MaxChanges /\ changes <= changes'
  BY <1>1, MacAssumption DEF Typed
<1> DEFINE own == IF dev.reset THEN <<Answer(Block("ResetInd", <<>>), TRUE, {})>>
                  ELSE IF ask = "none" THEN <<>>
                  ELSE <<Answer(Block(ask, <<>>), TRUE, {class})>>
           cmds == dev.answers \o own
<1>4. round' = [Idle EXCEPT !.at = "uplink", !.cmds = cmds]
  BY <1>1
<1>5. IF dev.reset
      THEN own = <<Answer(Block("ResetInd", <<>>), TRUE, {})>>
      ELSE \/ own = <<>>
           \/ \E a \in Asks, c \in {"A", "C"} : own = <<Answer(Block(a, <<>>), TRUE, {c})>>
  OBVIOUS
<1>6. /\ round'.at = "uplink" /\ round'.blocks = <<>> /\ round'.must = FALSE
      /\ round'.cmds = cmds
  <2> HIDE DEF cmds
  <2> QED BY <1>4 DEF Idle
<1>7. round' = [at |-> "uplink", cmds |-> cmds, must |-> FALSE, blocks |-> <<>>]
  <2> HIDE DEF cmds
  <2> QED BY <1>4 DEF Idle
<1> HIDE DEF own
<1> QED
  BY <1>2, <1>3, <1>5, <1>6, <1>7

\* SendUplink keeps the invariant.
LEMMA SendUplinkKeeps ==
    ASSUME IInv, SendUplink
    PROVE  IInv'
<1> DEFINE I == {i \in DOMAIN dev.answers : dev.answers[i].cid \in Sticky}
           kept == Pick(dev.answers, I)
<1>1. /\ round.at = "idle" /\ round'.at = "uplink" /\ round'.blocks = <<>>
      /\ round' = [at |-> "uplink", cmds |-> round'.cmds, must |-> FALSE, blocks |-> <<>>]
      /\ dev' = [dev EXCEPT !.answers = kept]
      /\ changes' \in 0..MaxChanges /\ changes <= changes'
      /\ UNCHANGED <<ds, mode, pending, queue, conf, blind, refused, calm>>
  BY SendState DEF IInv
<1>2. PICK own : /\ round'.cmds = dev.answers \o own
                 /\ IF dev.reset
                    THEN own = <<Answer(Block("ResetInd", <<>>), TRUE, {})>>
                    ELSE \/ own = <<>>
                         \/ \E ask \in Asks, class \in {"A", "C"} :
                               own = <<Answer(Block(ask, <<>>), TRUE, {class})>>
  BY SendState DEF IInv
<1>3. dev \in Nodes /\ dev.answers \in Seq(Replies)
  BY DEF IInv, Typed, Nodes
<1>4. /\ kept \in Seq(Replies)
      /\ \A j \in DOMAIN kept : \E i \in DOMAIN dev.answers : i \in I /\ kept[j] = dev.answers[i]
  <2> HIDE DEF I
  <2> QED BY <1>3, PickElements
<1>5. OneEach(kept)
  <2> DEFINE P == Params \cup {"LinkADR"}
  <2>1. \A i, j \in DOMAIN dev.answers :
            dev.answers[i].cid = dev.answers[j].cid /\ dev.answers[i].cid \in P => i = j
    BY DEF IInv, ReplyFlight, Replied, OneEach
  <2>2. \A i, j \in DOMAIN kept : kept[i].cid = kept[j].cid /\ kept[i].cid \in P => i = j
    <3> HIDE DEF I, P
    <3> QED BY <1>3, <2>1, PickSingle
  <2> QED BY <2>2 DEF OneEach
<1> HIDE DEF kept
<1>6. /\ dev' \in Nodes /\ dev'.answers = kept /\ dev'.val = dev.val
      /\ dev'.enabled = dev.enabled /\ dev'.adr = dev.adr /\ dev'.reset = dev.reset
  BY <1>1, <1>3, <1>4 DEF Nodes
<1>7. CidsOf(kept) \subseteq Sticky \cap CidsOf(dev.answers)
  BY <1>4 DEF CidsOf
<1>8. Replied(dev.answers) /\ CidsOf(dev.answers) \cap (Asks \cup {"ResetInd"}) = {}
  BY DEF IInv, ReplyFlight
<1>9. \/ own = <<>> /\ ~dev.reset
      \/ \E a \in Replies : /\ own = <<a>> /\ a.cid \in Asks \cup {"ResetInd"}
                            /\ a.cid = "ResetInd" <=> dev.reset
                            /\ a.cid = "DeviceModeInd" => a.bits \in {{"A"}, {"C"}}
  <2>1. ASSUME NEW c \in Asks \cup {"ResetInd"}, NEW bits \in {{}, {"A"}, {"C"}},
               NEW a, a = Answer(Block(c, <<>>), TRUE, bits)
        PROVE  a \in Replies /\ a.cid = c /\ a.bits = bits
    <3>1. a = [cid |-> c, of |-> <<>>, ok |-> TRUE, bits |-> bits]
      BY <2>1 DEF Answer, Block, NoBlock
    <3>2. c \in Cids /\ <<>> \in Requests
      BY DEF Cids, Requests
    <3> HIDE DEF Requests
    <3> QED BY <3>1, <3>2 DEF Replies
  <2>2. CASE dev.reset
    <3> DEFINE a == Answer(Block("ResetInd", <<>>), TRUE, {})
    <3>1. own = <<a>> /\ a \in Replies /\ a.cid = "ResetInd"
      BY <1>2, <2>1, <2>2
    <3> HIDE DEF a
    <3> QED BY <2>2, <3>1
  <2>3. CASE ~dev.reset /\ own # <<>>
    <3>1. PICK ask \in Asks, class \in {"A", "C"} :
            own = <<Answer(Block(ask, <<>>), TRUE, {class})>>
      BY <1>2, <2>3
    <3> DEFINE a == Answer(Block(ask, <<>>), TRUE, {class})
    <3>2. own = <<a>> /\ a \in Replies /\ a.cid = ask /\ a.bits = {class}
      BY <2>1, <3>1
    <3>3. ask # "ResetInd"
      BY CidsOK
    <3> HIDE DEF a
    <3> QED BY <2>3, <3>2, <3>3
  <2>4. CASE ~dev.reset /\ own = <<>>
    BY <2>4
  <2> QED BY <2>2, <2>3, <2>4
<1>10. Replied(round'.cmds) /\ round'.cmds \in Seq(Replies)
  <2>1. CASE own = <<>>
    <3>1. round'.cmds = dev.answers
      BY <1>2, <1>3, <2>1
    <3> QED BY <1>3, <1>8, <3>1
  <2>2. CASE own # <<>>
    <3>1. PICK a \in Replies : /\ own = <<a>> /\ a.cid \in Asks \cup {"ResetInd"}
                               /\ a.cid = "DeviceModeInd" => a.bits \in {{"A"}, {"C"}}
      BY <1>9, <2>2
    <3>2. round'.cmds = dev.answers \o <<a>>
      BY <1>2, <3>1
    <3>3. Replied(dev.answers \o <<a>>) /\ dev.answers \o <<a>> \in Seq(Replies)
      BY <1>3, <1>8, <3>1, AppendedReply
    <3> QED BY <3>2, <3>3
  <2> QED BY <2>1, <2>2
<1>11. ReplyFlight'
  <2>1. Replied(dev.answers)'
    <3>1. ASSUME NEW i \in DOMAIN kept, kept[i].cid \in Params
          PROVE  /\ kept[i].ok <=> kept[i].cid \notin RefusedParams
                 /\ kept[i].ok => kept[i].of = <<dev.val[kept[i].cid]>>
      <4>1. PICK j \in DOMAIN dev.answers : kept[i] = dev.answers[j]
        BY <1>4
      <4>2. ReplyInv(dev.answers, dev.answers[j])
        BY <1>8 DEF Replied
      <4> QED BY <3>1, <4>1, <4>2 DEF ReplyInv
    <3>2. ~DisableMACCommands \/ kept = <<>>
      BY <1>4, <1>7, <1>8, NoneRepeated DEF Replied
    <3>3. CidsOf(kept) \subseteq Sticky
      BY <1>7
    <3> QED BY <1>5, <1>6, <3>1, <3>2, <3>3, StickyReplied DEF IInv
  <2>2. Replied(round.cmds)'
    <3>1. "LinkADR" \in Cids /\ "NewChannel" \in Cids /\ Params \subseteq Cids
      BY DEF Cids
    <3>2. pending' = pending /\ ds' = ds
      BY <1>1
    <3> QED BY <1>6, <1>10, <3>1, <3>2, RepliedFrame
  <2> QED BY <1>6, <1>7, <1>8, <2>1, <2>2 DEF ReplyFlight
<1>12. round' \in Rounds
  <2>1. <<>> \in Seq(Blocks)
    OBVIOUS
  <2> DEFINE cmds == round'.cmds
  <2>2. round' = [at |-> "uplink", cmds |-> cmds, must |-> FALSE, blocks |-> <<>>]
        /\ cmds \in Seq(Replies)
    BY <1>1, <1>10
  <2> HIDE DEF cmds
  <2> QED BY <2>1, <2>2 DEF Rounds
<1>13. Typed'
  <2>1. queue' = queue /\ Len(queue) <= changes /\ changes \in Int /\ changes' \in Int
        /\ queue \in Seq(Blocks)
    BY <1>1, MacAssumption DEF IInv, Typed
  <2>2. Len(queue') <= changes'
    <3>1. Len(queue) \in Int
      BY <2>1
    <3> QED BY <1>1, <2>1, <3>1
  <2>3. SessionOK(ds)'
    BY <1>1 DEF IInv, Typed, SessionOK
  <2> QED BY <1>1, <1>6, <1>12, <2>2, <2>3 DEF IInv, Typed
<1>14. StageInv'
  <2>1. "ResetInd" \in CidsOf(round'.cmds) => dev.reset
    <3> SUFFICES ASSUME "ResetInd" \in CidsOf(round'.cmds), ~dev.reset PROVE FALSE
      OBVIOUS
    <3>1. CASE own = <<>>
      <4>1. round'.cmds = dev.answers
        BY <1>2, <1>3, <3>1
      <4> QED BY <1>8, <4>1
    <3>2. CASE own # <<>>
      <4>1. PICK a \in Replies : own = <<a>> /\ a.cid # "ResetInd"
        BY <1>9, <3>2
      <4> DEFINE n == Len(dev.answers)
                 t == round'.cmds
      <4>2. /\ n \in Nat /\ DOMAIN t = 1..(n + 1) /\ t[n + 1] = a
            /\ \A i \in 1..n : i \in DOMAIN dev.answers /\ t[i] = dev.answers[i]
        BY <1>2, <1>3, <4>1
      <4> HIDE DEF t, n
      <4>3. PICK i \in DOMAIN t : t[i].cid = "ResetInd"
        BY DEF CidsOf, t
      <4>4. i \in 1..n
        BY <4>1, <4>2, <4>3
      <4>5. "ResetInd" \in CidsOf(dev.answers)
        BY <4>2, <4>3, <4>4 DEF CidsOf
      <4> QED BY <1>8, <4>5
    <3> QED BY <3>1, <3>2
  <2> QED BY <1>1, <1>6, <1>7, <2>1 DEF StageInv
<1>15. ResetInv'
  <2> SUFFICES ASSUME dev.reset
               PROVE  /\ ~SupportsJoin
                      /\ dev.val = [p \in Params |-> Boot] /\ dev.enabled = StandardChannels
                      /\ CidsOf(kept) \subseteq ExtCids
                      /\ round'.cmds # <<>> /\ Last(round'.cmds).cid = "ResetInd"
                      /\ \A i \in DOMAIN round'.cmds :
                             i < Len(round'.cmds) => round'.cmds[i].cid \in ExtCids
    BY <1>1, <1>6 DEF ResetInv
  <2>1. /\ ~SupportsJoin
        /\ dev.val = [p \in Params |-> Boot] /\ dev.enabled = StandardChannels
        /\ CidsOf(dev.answers) \subseteq ExtCids
    BY DEF IInv, ResetInv
  <2>2. PICK a \in Replies : own = <<a>> /\ a.cid = "ResetInd"
    BY <1>9
  <2> DEFINE n == Len(dev.answers)
             t == round'.cmds
  <2>3. /\ n \in Nat /\ DOMAIN t = 1..(n + 1) /\ t[n + 1] = a /\ Len(t) = n + 1
        /\ \A i \in 1..n : i \in DOMAIN dev.answers /\ t[i] = dev.answers[i]
    <3>1. t = dev.answers \o <<a>>
      BY <1>2, <2>2
    <3>2. t \in Seq(Replies) /\ Len(t) = n + 1 /\ n \in Nat
      BY <1>3, <3>1
    <3> QED BY <1>3, <3>1, <3>2
  <2> HIDE DEF t, n
  <2>4. t # <<>>
    BY <2>3
  <2>5. \A i \in DOMAIN t : i < Len(t) => t[i].cid \in ExtCids
    <3> SUFFICES ASSUME NEW i \in DOMAIN t, i < Len(t) PROVE t[i].cid \in ExtCids
      OBVIOUS
    <3>1. i \in 1..n
      BY <2>3
    <3> QED BY <2>1, <2>3, <3>1 DEF CidsOf
  <2>6. Last(t).cid = "ResetInd"
    BY <2>2, <2>3 DEF Last
  <2> QED BY <1>7, <2>1, <2>4, <2>5, <2>6 DEF t
<1>16. /\ PendingInv' /\ PowerInv' /\ AvoidInv' /\ BlocksInv' /\ ParamInv' /\ ChannelInv'
       /\ OnlyRepeatedMisread'
  BY <1>1, <1>6, Settled
<1> QED
  BY <1>11, <1>13, <1>14, <1>15, <1>16 DEF IInv

\* The empty sequence answers nothing.
LEMMA NothingReplied == Replied(<<>>)
BY DEF Replied, ReplyInv, OneEach, Apart, CidsOf

\* An exchange that is over, or goes on as it was: only the radio, the queue, the
\* bounds or the calm have changed.
LEMMA Passed ==
    ASSUME IInv, ds' = ds, mode' = mode, pending' = pending, conf' = conf, blind' = blind,
           refused' = refused, dev' \in Nodes, dev'.val = dev.val, dev'.enabled = dev.enabled,
           dev'.adr = dev.adr, dev'.reset = dev.reset, dev'.answers = dev.answers,
           round' = Idle \/ round' = round, changes' \in 0..MaxChanges, calm' \in BOOLEAN,
           queue' \in Seq(Blocks), Len(queue') <= changes',
           \A i \in DOMAIN queue' : queue'[i].ext /\ queue'[i].cid \in ExtCids
    PROVE  IInv'
<1>1. Idle.at = "idle" /\ Idle.cmds = <<>> /\ Idle.blocks = <<>> /\ CidsOf(<<>>) = {}
  BY DEF Idle, CidsOf
<1>2. Idle \in Rounds
  <2>1. <<>> \in Seq(Replies) /\ <<>> \in Seq(Blocks)
    OBVIOUS
  <2> QED BY <2>1 DEF Idle, Rounds
<1>3. Typed'
  BY <1>2 DEF IInv, Typed, SessionOK
<1>4. StageInv'
  BY <1>1 DEF IInv, StageInv
<1>5. ResetInv'
  BY <1>1 DEF IInv, ResetInv
<1>6. ReplyFlight'
  <2>1. "LinkADR" \in Cids /\ "NewChannel" \in Cids /\ Params \subseteq Cids
    BY DEF Cids
  <2>2. Replied(dev.answers) /\ Replied(round.cmds)
        /\ CidsOf(dev.answers) \cap (Asks \cup {"ResetInd"}) = {}
    BY DEF IInv, ReplyFlight
  <2>3. Replied(round'.cmds)
    BY <1>1, <2>2, NothingReplied
  <2>4. Replied(dev.answers)' /\ Replied(round.cmds)'
    BY <2>1, <2>2, <2>3, RepliedFrame
  <2> QED BY <2>2, <2>4 DEF ReplyFlight
<1>7. /\ PendingInv' /\ PowerInv' /\ AvoidInv' /\ BlocksInv' /\ ParamInv' /\ ChannelInv'
      /\ OnlyRepeatedMisread'
  <2>1. round'.blocks = <<>> \/ round' = round
    BY <1>1
  <2> QED BY <2>1, Settled
<1> QED
  BY <1>3, <1>4, <1>5, <1>6, <1>7 DEF IInv

\* One frame more is missed.
LEMMA MissedOK ==
    ASSUME Typed, Missed
    PROVE  /\ dev' \in Nodes /\ dev'.val = dev.val /\ dev'.enabled = dev.enabled
           /\ dev'.adr = dev.adr /\ dev'.reset = dev.reset /\ dev'.answers = dev.answers
<1> DEFINE n == Min({MaxMissed, dev.missed + 1})
<1>1. dev \in Nodes /\ dev' = [dev EXCEPT !.missed = n]
  BY DEF Typed, Missed
<1>2. n \in 0..MaxMissed
  <2>1. dev.missed \in 0..MaxMissed /\ MaxMissed \in Nat
    BY <1>1, MacAssumption DEF Nodes
  <2> DEFINE m == dev.missed + 1
  <2>2. m \in Nat
    BY <2>1
  <2> HIDE DEF m
  <2>3. Min({MaxMissed, m}) \in {MaxMissed, m} /\ Min({MaxMissed, m}) <= MaxMissed
    BY <2>1, <2>2, MinTwo
  <2>4. Min({MaxMissed, m}) \in 0..MaxMissed
    BY <2>1, <2>2, <2>3
  <2> QED BY <2>4 DEF m
<1> HIDE DEF n
<1> QED
  BY <1>1, <1>2 DEF Nodes

\* A lost frame, a command of the controller, a device that backs off, and the calm.
LEMMA PassingKeeps ==
    ASSUME IInv, Lost \/ CreateMACCommandQueueItem \/ DeviceBacksOff \/ CalmsDown \/ UNCHANGED vars
    PROVE  IInv'
<1>1. /\ dev \in Nodes /\ changes \in 0..MaxChanges /\ calm \in BOOLEAN /\ queue \in Seq(Blocks)
      /\ Len(queue) <= changes /\ Len(queue) \in Nat
      /\ \A i \in DOMAIN queue : queue[i].ext /\ queue[i].cid \in ExtCids
      /\ MaxChanges \in Nat
  BY MacAssumption DEF IInv, Typed
<1>2. CASE Lost
  <2>1. /\ round' = Idle
        /\ UNCHANGED <<ds, mode, pending, queue, conf, blind, refused, changes, calm>>
        /\ Missed \/ dev' = dev
    BY <1>2 DEF Lost
  <2>2. /\ dev' \in Nodes /\ dev'.val = dev.val /\ dev'.enabled = dev.enabled
        /\ dev'.adr = dev.adr /\ dev'.reset = dev.reset /\ dev'.answers = dev.answers
    BY <1>1, <2>1, MissedOK DEF IInv
  <2> QED BY <1>1, <2>1, <2>2, Passed
<1>3. CASE CreateMACCommandQueueItem
  <2>1. PICK cid \in ExtCids, v \in ExtValues :
          queue' = Append(queue, [Block(cid, <<v>>) EXCEPT !.ext = TRUE])
    BY <1>3 DEF CreateMACCommandQueueItem
  <2>2. /\ changes < MaxChanges /\ changes' = changes + 1
        /\ UNCHANGED <<ds, mode, pending, conf, dev, round, blind, refused, calm>>
    BY <1>3 DEF CreateMACCommandQueueItem
  <2> DEFINE b == [Block(cid, <<v>>) EXCEPT !.ext = TRUE]
  <2>3. b \in Blocks /\ b.ext /\ b.cid \in ExtCids
    <3>1. cid \in Cids
      BY DEF Cids
    <3>2. <<v>> \in Requests
      BY DEF Requests
    <3> DEFINE req == <<v>>
    <3> HIDE DEF req, Requests
    <3>3. [Block(cid, req) EXCEPT !.ext = TRUE] \in Blocks
          /\ [Block(cid, req) EXCEPT !.ext = TRUE].ext
          /\ [Block(cid, req) EXCEPT !.ext = TRUE].cid = cid
      BY <3>1, <3>2 DEF Blocks, Block, NoBlock, req
    <3> QED BY <3>3 DEF req
  <2> HIDE DEF b
  <2>4. queue' = Append(queue, b)
    BY <2>1 DEF b
  <2>5. /\ queue' \in Seq(Blocks) /\ Len(queue') = Len(queue) + 1
        /\ \A i \in DOMAIN queue' : queue'[i] = b \/ (i \in DOMAIN queue /\ queue'[i] = queue[i])
    BY <1>1, <2>3, <2>4
  <2>6. \A i \in DOMAIN queue' : queue'[i].ext /\ queue'[i].cid \in ExtCids
    BY <1>1, <2>3, <2>5
  <2>7. changes' \in 0..MaxChanges /\ Len(queue') <= changes'
    BY <1>1, <2>2, <2>5
  <2> QED BY <1>1, <2>2, <2>5, <2>6, <2>7, Passed
<1>4. CASE DeviceBacksOff
  <2>1. /\ changes < MaxChanges /\ changes' = changes + 1 /\ dev.link.dr > 0
        /\ dev' = [dev EXCEPT !.link.power = 0, !.link.dr = @ - 1]
        /\ UNCHANGED <<ds, mode, pending, queue, conf, round, blind, refused, calm>>
    BY <1>4 DEF DeviceBacksOff
  <2> DEFINE l == [dev.link EXCEPT !.power = 0, !.dr = @ - 1]
             drs == DOMAIN DataRates
             powers == 0..BandMaxPower
             nbs == 1..3
  <2>2. l \in Links
    <3>1. dev.link \in [dr : drs, power : powers, nb : nbs]
      BY <1>1 DEF Nodes, Links
    <3>2. dev.link.dr - 1 \in drs /\ 0 \in powers
      <4>1. dev.link.dr \in drs
        BY <3>1
      <4>2. dev.link.dr \in Nat /\ 0..dev.link.dr \subseteq drs
        BY <4>1, AdrAssumption
      <4>3. dev.link.dr - 1 \in 0..dev.link.dr
        BY <2>1, <4>2
      <4> QED BY <4>2, <4>3, MacAssumption
    <3> DEFINE dr == dev.link.dr - 1
    <3>3. l = [dev.link EXCEPT !.power = 0, !.dr = dr] /\ dr \in drs /\ 0 \in powers
      BY <3>2
    <3> HIDE DEF dr, drs, powers, nbs, l
    <3>4. l \in [dr : drs, power : powers, nb : nbs]
      BY <3>1, <3>3
    <3> QED BY <3>4 DEF Links, drs, powers, nbs
  <2>3. dev' = [dev EXCEPT !.link = l]
    BY <2>1
  <2> HIDE DEF l
  <2>4. /\ dev' \in Nodes /\ dev'.val = dev.val /\ dev'.enabled = dev.enabled
        /\ dev'.adr = dev.adr /\ dev'.reset = dev.reset /\ dev'.answers = dev.answers
    BY <1>1, <2>2, <2>3 DEF Nodes
  <2>5. changes' \in 0..MaxChanges /\ Len(queue) <= changes'
    BY <1>1, <2>1
  <2> QED BY <1>1, <2>1, <2>4, <2>5, Passed
<1>5. CASE CalmsDown
  <2>1. /\ calm' = TRUE
        /\ UNCHANGED <<ds, mode, pending, queue, conf, dev, round, blind, refused, changes>>
    BY <1>5 DEF CalmsDown
  <2> QED BY <1>1, <2>1, Passed
<1>6. CASE UNCHANGED vars
  BY <1>1, <1>6, Passed DEF vars
<1> QED
  BY <1>2, <1>3, <1>4, <1>5, <1>6

\* An uplink that fails takes pending requests with it.
LEMMA HandleUplinkFailsKeeps ==
    ASSUME IInv, HandleUplinkFails
    PROVE  IInv'
<1>1. PICK n \in DOMAIN round.cmds :
        /\ pending' = DeletePendingMACCommand(pending, SubSeq(round.cmds, 1, n))
        /\ mode' = handleDeviceModeInd(mode, SubSeq(round.cmds, 1, n))
  BY DEF HandleUplinkFails
<1>2. /\ round.at = "uplink" /\ round' = Idle /\ Missed
      /\ UNCHANGED <<ds, queue, conf, blind, refused, changes, calm>>
  BY DEF HandleUplinkFails
<1>3. /\ dev' \in Nodes /\ dev'.val = dev.val /\ dev'.enabled = dev.enabled
      /\ dev'.adr = dev.adr /\ dev'.reset = dev.reset /\ dev'.answers = dev.answers
  BY <1>2, MissedOK DEF IInv
<1> DEFINE cmds == SubSeq(round.cmds, 1, n)
<1>4. /\ cmds \in Seq(Replies)
      /\ \A i \in DOMAIN cmds : i \in DOMAIN round.cmds /\ cmds[i] = round.cmds[i]
  <2>1. round.cmds \in Seq(Replies)
    BY DEF IInv, Typed, Rounds
  <2> QED BY <2>1
<1> HIDE DEF cmds
<1>5. /\ \A c \in Cids : pending'[c] \in {pending[c], NoBlock}
      /\ pending' \in [Cids -> Blocks \cup {NoBlock}]
  <2>1. pending' = [c \in Cids |-> IF ~DisableMACCommands /\ c \in CidsOf(cmds)
                                   THEN NoBlock ELSE pending[c]]
    BY <1>1 DEF DeletePendingMACCommand, cmds
  <2>2. \A c \in Cids : pending[c] \in Blocks \cup {NoBlock}
    BY DEF IInv, Typed
  <2> QED BY <2>1, <2>2
<1>6. mode' \in {"A", "C"}
  <2>1. mode' = handleDeviceModeInd(mode, cmds)
    BY <1>1 DEF cmds
  <2>2. CASE ~\E i \in DOMAIN cmds : cmds[i].cid = "DeviceModeInd"
    BY <2>1, <2>2 DEF handleDeviceModeInd, IInv, Typed
  <2>3. CASE \E i \in DOMAIN cmds : cmds[i].cid = "DeviceModeInd"
    <3>1. PICK i \in DOMAIN cmds : cmds[i].cid = "DeviceModeInd"
      BY <2>3
    <3>2. cmds[i].bits \in {{"A"}, {"C"}}
      BY <1>4, <3>1 DEF IInv, ReplyFlight, Replied, ReplyInv
    <3>3. \E c \in {"A", "C"} : \E j \in DOMAIN cmds :
              cmds[j].cid = "DeviceModeInd" /\ cmds[j].bits = {c}
      BY <3>1, <3>2
    <3> QED BY <2>1, <2>3, <3>3 DEF handleDeviceModeInd
  <2> QED BY <2>2, <2>3
<1>7. Idle.at = "idle" /\ Idle.cmds = <<>> /\ Idle.blocks = <<>> /\ CidsOf(<<>>) = {}
  BY DEF Idle, CidsOf
<1>8. Idle \in Rounds
  <2>1. <<>> \in Seq(Replies) /\ <<>> \in Seq(Blocks)
    OBVIOUS
  <2> QED BY <2>1 DEF Idle, Rounds
<1>9. Typed'
  BY <1>2, <1>3, <1>5, <1>6, <1>8 DEF IInv, Typed, SessionOK
<1>10. StageInv'
  BY <1>2, <1>7 DEF StageInv
<1>11. ResetInv'
  BY <1>2, <1>3, <1>7 DEF IInv, ResetInv
<1>12. PendingInv'
  BY <1>2, <1>5 DEF IInv, PendingInv, Shape
<1>13. PowerInv' /\ OnlyRepeatedMisread'
  BY <1>2, <1>3 DEF IInv, PowerInv, OnlyRepeatedMisread
<1>14. AvoidInv'
  <2>1. "LinkADR" \in Cids
    BY DEF Cids
  <2> QED BY <1>2, <1>5, <2>1 DEF IInv, AvoidInv, Avoids
<1>15. BlocksInv' /\ ParamInv' /\ ChannelInv'
  <2>1. ~Confirming'
    BY <1>2, <1>7 DEF Confirming
  <2>2. BlocksInv'
    BY <1>2, <1>7 DEF BlocksInv, Single, Apart, CidsOf
  <2>3. ParamInv'
    BY <1>2, <1>3, <2>1 DEF IInv, ParamInv, Blind
  <2>4. ChannelInv'
    BY <1>2, <1>3, <2>1 DEF IInv, ChannelInv
  <2> QED BY <2>2, <2>3, <2>4
<1>16. ReplyFlight'
  <2>1. Replied(dev.answers) /\ CidsOf(dev.answers) \cap (Asks \cup {"ResetInd"}) = {}
    BY DEF IInv, ReplyFlight
  <2>2. CidsOf(dev.answers) \subseteq Sticky /\ dev.answers \in Seq(Replies)
    <3>1. CidsOf(dev.answers) \subseteq Sticky
      BY <1>2 DEF IInv, StageInv
    <3> QED BY <3>1 DEF IInv, Typed, Nodes
  <2>3. ~DisableMACCommands \/ dev.answers = <<>>
    BY <2>1, <2>2, NoneRepeated DEF Replied
  <2>4. ASSUME NEW i \in DOMAIN dev.answers, dev.answers[i].cid \in Params
        PROVE  /\ dev.answers[i].ok <=> dev.answers[i].cid \notin RefusedParams
               /\ dev.answers[i].ok => dev.answers[i].of = <<dev.val[dev.answers[i].cid]>>
    BY <2>1, <2>4 DEF Replied, ReplyInv
  <2>5. OneEach(dev.answers)
    BY <2>1 DEF Replied
  <2>6. Replied(dev.answers)'
    BY <1>3, <2>2, <2>3, <2>4, <2>5, StickyReplied DEF IInv
  <2>7. Replied(round.cmds)'
    BY <1>2, <1>7 DEF Replied, ReplyInv, OneEach, Apart, CidsOf
  <2> QED BY <1>3, <2>1, <2>6, <2>7 DEF ReplyFlight
<1> QED
  BY <1>9, <1>10, <1>11, <1>12, <1>13, <1>14, <1>15, <1>16 DEF IInv

\* Another configuration finds the exchange idle.
LEMMA ReconfigureKeeps ==
    ASSUME IInv, Reconfigure
    PROVE  IInv'
<1>1. PICK p \in Params, v \in Values :
        /\ conf' = [conf EXCEPT ![p] = v]
        /\ blind' = IF v = ds.val[p] /\ (pending[p] # NoBlock \/ dev.val[p] # v)
                    THEN blind \cup {<<p, "withdrawn">>} ELSE blind
  BY DEF Reconfigure
<1>2. /\ changes < MaxChanges /\ changes' = changes + 1 /\ round.at = "idle"
      /\ UNCHANGED <<ds, mode, pending, queue, dev, round, refused, calm>>
  BY DEF Reconfigure
<1>3. conf \in [Params -> Values] /\ blind \subseteq Cids \X {"repeated", "reset", "withdrawn"}
  BY DEF IInv, Typed
<1>4. /\ conf' \in [Params -> Values] /\ blind \subseteq blind'
      /\ blind' \subseteq Cids \X {"repeated", "reset", "withdrawn"}
      /\ \A x \in blind' : x \in blind \/ x = <<p, "withdrawn">>
  <2>1. p \in Cids
    BY DEF Cids
  <2> QED BY <1>1, <1>3, <2>1
<1>5. Typed'
  <2>1. queue \in Seq(Blocks) /\ Len(queue) <= changes /\ changes \in 0..MaxChanges
        /\ MaxChanges \in Nat
    BY MacAssumption DEF IInv, Typed
  <2>2. changes' \in 0..MaxChanges /\ Len(queue') <= changes'
    <3>1. Len(queue) \in Nat
      BY <2>1
    <3> QED BY <1>2, <2>1, <3>1
  <2> QED BY <1>2, <1>4, <2>2 DEF IInv, Typed, SessionOK
<1>6. round.blocks = <<>> /\ round.cmds = <<>>
  BY <1>2 DEF IInv, StageInv
<1>7. StageInv' /\ ResetInv' /\ PendingInv' /\ PowerInv' /\ AvoidInv'
  BY <1>2 DEF IInv, StageInv, ResetInv, PendingInv, PowerInv, AvoidInv, Avoids, Shape
<1>8. BlocksInv'
  BY <1>2, <1>6 DEF BlocksInv, Single, Apart, CidsOf
<1>9. ReplyFlight'
  <2>1. "LinkADR" \in Cids /\ "NewChannel" \in Cids /\ Params \subseteq Cids
    BY DEF Cids
  <2>2. Replied(dev.answers) /\ Replied(round.cmds)
        /\ CidsOf(dev.answers) \cap (Asks \cup {"ResetInd"}) = {}
    BY DEF IInv, ReplyFlight
  <2>3. Replied(dev.answers)' /\ Replied(round.cmds)'
    BY <1>2, <2>1, <2>2, RepliedFrame
  <2> QED BY <1>2, <2>2, <2>3 DEF ReplyFlight
<1>10. OnlyRepeatedMisread'
  BY <1>4 DEF IInv, OnlyRepeatedMisread
<1>11. ~Confirming'
  BY <1>2, <1>6 DEF Confirming
<1>12. ASSUME NEW q \in Params, ds.val[q] = conf'[q]
       PROVE  dev.val[q] = conf'[q] \/ dev.reset \/ Blind(q)'
  <2>1. CASE q # p
    <3>1. conf'[q] = conf[q]
      BY <1>1, <1>3, <2>1
    <3>2. dev.val[q] = conf[q] \/ dev.reset \/ Blind(q)
      BY <1>12, <3>1 DEF IInv, ParamInv
    <3> QED BY <1>4, <3>1, <3>2 DEF Blind
  <2>2. CASE q = p
    <3>1. conf'[q] = v /\ ds.val[p] = v
      BY <1>1, <1>3, <1>12, <2>2
    <3>2. CASE dev.val[p] # v
      <4>1. <<p, "withdrawn">> \in blind'
        BY <1>1, <3>1, <3>2
      <4> QED BY <2>2, <4>1 DEF Blind
    <3> QED BY <2>2, <3>1, <3>2
  <2> QED BY <2>1, <2>2
<1>13. ParamInv'
  BY <1>2, <1>11, <1>12 DEF ParamInv
<1>14. ChannelInv'
  BY <1>2, <1>11 DEF IInv, ChannelInv
<1> QED
  BY <1>5, <1>7, <1>8, <1>9, <1>10, <1>13, <1>14 DEF IInv

\* A device that resets.
LEMMA DeviceResetsKeeps ==
    ASSUME IInv, DeviceResets
    PROVE  IInv'
<1> DEFINE val == [p \in Params |-> Boot]
           l == [dev.link EXCEPT !.power = 0, !.nb = 1]
           drs == DOMAIN DataRates
           powers == 0..BandMaxPower
           nbs == 1..3
<1>1. /\ changes < MaxChanges /\ changes' = changes + 1 /\ round.at = "idle" /\ ~SupportsJoin
      /\ dev' = [dev EXCEPT !.val = val, !.extra = {}, !.enabled = StandardChannels,
                            !.link = l, !.answers = <<>>, !.reset = TRUE]
      /\ UNCHANGED <<ds, mode, pending, queue, conf, round, blind, refused, calm>>
  BY DEF DeviceResets
<1>2. dev \in Nodes
  BY DEF IInv, Typed
<1>3. l \in Links
  <2>1. dev.link \in [dr : drs, power : powers, nb : nbs] /\ 0 \in powers /\ 1 \in nbs
    BY <1>2, MacAssumption DEF Nodes, Links
  <2> HIDE DEF drs, powers, nbs
  <2>2. l \in [dr : drs, power : powers, nb : nbs]
    BY <2>1
  <2> QED BY <2>2 DEF Links, drs, powers, nbs
<1>4. val \in [Params -> Values] /\ StandardChannels \subseteq Channels /\ <<>> \in Seq(Replies)
  BY MacAssumption DEF Channels
<1> HIDE DEF val, l
<1>5. /\ dev' \in Nodes /\ dev'.val = val /\ dev'.enabled = StandardChannels
      /\ dev'.answers = <<>> /\ dev'.reset = TRUE /\ dev'.adr = dev.adr
  <2> DEFINE d == [dev EXCEPT !.val = val, !.extra = {}, !.enabled = StandardChannels]
  <2>1. /\ d \in Nodes /\ d.val = val /\ d.enabled = StandardChannels /\ d.adr = dev.adr
    BY <1>2, <1>4 DEF Nodes
  <2>2. dev' = [d EXCEPT !.link = l, !.answers = <<>>, !.reset = TRUE]
    BY <1>1, <1>2 DEF Nodes
  <2> HIDE DEF d
  <2> QED BY <1>3, <1>4, <2>1, <2>2 DEF Nodes
<1>6. Typed'
  <2>1. queue \in Seq(Blocks) /\ Len(queue) <= changes /\ changes \in 0..MaxChanges
        /\ MaxChanges \in Nat
    BY MacAssumption DEF IInv, Typed
  <2>2. changes' \in 0..MaxChanges /\ Len(queue') <= changes'
    <3>1. Len(queue) \in Nat
      BY <2>1
    <3> QED BY <1>1, <2>1, <3>1
  <2> QED BY <1>1, <1>5, <2>2 DEF IInv, Typed, SessionOK
<1>7. round.blocks = <<>> /\ round.cmds = <<>> /\ CidsOf(<<>>) = {}
  BY <1>1 DEF IInv, StageInv, CidsOf
<1>8. StageInv'
  BY <1>1, <1>5, <1>7 DEF StageInv
<1>9. ResetInv'
  BY <1>1, <1>5, <1>7 DEF ResetInv, val
<1>10. PendingInv' /\ PowerInv' /\ AvoidInv' /\ OnlyRepeatedMisread'
  BY <1>1, <1>5 DEF IInv, PendingInv, PowerInv, AvoidInv, Avoids, Shape, OnlyRepeatedMisread
<1>11. BlocksInv'
  BY <1>1, <1>7 DEF BlocksInv, Single, Apart, CidsOf
<1>12. ReplyFlight'
  BY <1>1, <1>5, <1>7 DEF ReplyFlight, Replied, ReplyInv, OneEach, Apart, CidsOf
<1>13. ~Confirming'
  BY <1>1, <1>7 DEF Confirming
<1>14. ParamInv'
  BY <1>1, <1>5, <1>13 DEF ParamInv
<1>15. ChannelInv'
  BY <1>5, <1>13 DEF ChannelInv
<1> QED
  BY <1>6, <1>8, <1>9, <1>10, <1>11, <1>12, <1>14, <1>15 DEF IInv

\* The requests that are made pending: of the server's commands, the one there is.
LEMMA SetPendingOK ==
    ASSUME Typed, BlocksInv, NEW n \in 0..Len(round.blocks), SetPendingMACCommand(n)
    PROVE  /\ pending' \in [Cids -> Blocks \cup {NoBlock}]
           /\ \A c \in Cids : \/ pending'[c] = pending[c]
                              \/ \E i \in DOMAIN round.blocks :
                                    round.blocks[i].cid = c /\ pending'[c] = round.blocks[i]
           /\ \A i \in 1..n : round.blocks[i].cid \in Special =>
                  pending'[round.blocks[i].cid] = round.blocks[i]
<1> DEFINE q == round.blocks
           own(c) == {i \in 1..n : q[i].cid = c}
<1>1. q \in Seq(Blocks) /\ DOMAIN q = 1..Len(q) /\ Len(q) \in Nat /\ n \in Nat /\ n <= Len(q)
  <2>1. q \in Seq(Blocks)
    BY DEF Typed, Rounds
  <2> QED BY <2>1
<1>2. pending' = [c \in Cids |-> IF own(c) = {} THEN pending[c] ELSE q[Max(own(c))]]
  BY DEF SetPendingMACCommand
<1> HIDE DEF q
<1>3. ASSUME NEW c, own(c) # {} PROVE Max(own(c)) \in own(c)
  <2>1. IsFiniteSet(1..n)
    BY <1>1, FS_Interval
  <2>2. own(c) \subseteq 1..n /\ own(c) \subseteq Int
    OBVIOUS
  <2>3. IsFiniteSet(own(c))
    <3> HIDE DEF own
    <3> QED BY <2>1, <2>2, FS_Subset
  <2> HIDE DEF own
  <2> QED BY <1>3, <2>2, <2>3, MaxOK
<1>4. \A i \in 1..n : i \in DOMAIN q /\ q[i] \in Blocks
  <2> SUFFICES ASSUME NEW i \in 1..n PROVE i \in DOMAIN q /\ q[i] \in Blocks
    OBVIOUS
  <2>1. i \in 1..Len(q)
    BY <1>1
  <2> QED BY <1>1, <2>1
<1>5. ASSUME NEW c \in Cids, own(c) # {}
      PROVE  \E i \in 1..n : q[i].cid = c /\ pending'[c] = q[i] /\ i \in own(c)
  <2> DEFINE m == Max(own(c))
  <2>1. pending'[c] = q[m] /\ m \in own(c)
    <3> HIDE DEF own
    <3> QED BY <1>2, <1>3, <1>5
  <2> HIDE DEF m
  <2> QED BY <2>1
<1>6. ASSUME NEW c \in Cids, own(c) = {} PROVE pending'[c] = pending[c]
  <2> HIDE DEF own
  <2> QED BY <1>2, <1>6
<1>7. pending' \in [Cids -> Blocks \cup {NoBlock}]
  <2>1. pending' = [c \in Cids |-> pending'[c]]
    <3> HIDE DEF own
    <3> QED BY <1>2
  <2>2. ASSUME NEW c \in Cids PROVE pending'[c] \in Blocks \cup {NoBlock}
    <3> HIDE DEF own
    <3> QED BY <1>4, <1>5, <1>6 DEF Typed
  <2> QED BY <2>1, <2>2
<1>8. ASSUME NEW c \in Cids
      PROVE  \/ pending'[c] = pending[c]
             \/ \E i \in DOMAIN q : q[i].cid = c /\ pending'[c] = q[i]
  <2> HIDE DEF own
  <2> QED BY <1>4, <1>5, <1>6
<1>9. ASSUME NEW i \in 1..n, q[i].cid \in Special PROVE pending'[q[i].cid] = q[i]
  <2> DEFINE c == q[i].cid
  <2>1. c \in Cids /\ own(c) # {}
    BY <1>4 DEF Blocks
  <2>2. PICK j \in 1..n : q[j].cid = c /\ pending'[c] = q[j]
    BY <1>5, <2>1
  <2>3. i = j
    BY <1>4, <1>9, <2>2 DEF BlocksInv, Single, q
  <2> QED BY <2>2, <2>3
<1> QED
  BY <1>7, <1>8, <1>9 DEF q

\* The queue after some of its commands are sent.
LEMMA DeleteOK ==
    ASSUME Typed, NEW n, DeleteMACCommandQueueItem(n), changes' = changes
    PROVE  /\ queue' \in Seq(Blocks) /\ Len(queue') <= changes'
           /\ \A i \in DOMAIN queue' : queue'[i].ext /\ queue'[i].cid \in ExtCids
<1> DEFINE I == {i \in DOMAIN queue : \A j \in 1..n : queue[i] # round.blocks[j]}
<1>1. queue' = Pick(queue, I) /\ queue \in Seq(Blocks) /\ Len(queue) <= changes /\ changes \in Int
      /\ \A i \in DOMAIN queue : queue[i].ext /\ queue[i].cid \in ExtCids
  BY MacAssumption DEF Typed, DeleteMACCommandQueueItem
<1> HIDE DEF I
<1>2. /\ queue' \in Seq(Blocks) /\ Len(queue') <= Len(queue)
      /\ \A j \in DOMAIN queue' : \E i \in DOMAIN queue : queue'[j] = queue[i]
  BY <1>1, PickElements
<1>3. Len(queue') \in Int /\ Len(queue) \in Int
  BY <1>1, <1>2
<1>4. Len(queue') <= changes'
  BY <1>1, <1>2, <1>3
<1> QED
  BY <1>1, <1>2, <1>4

\* The commit of the first n requests.
LEMMA CommitKeeps ==
    ASSUME IInv, round.at = "commit", NEW n \in 0..Len(round.blocks), NEW k,
           SetPendingMACCommand(n), DeleteMACCommandQueueItem(k),
           UNCHANGED <<mode, conf, dev, blind, refused, changes, calm>>,
           \/ round' = Idle /\ ds' = ds
           \/ /\ n = Len(round.blocks) /\ ds' = CleanChannels(ds)
              /\ round' = [round EXCEPT !.at = "downlink",
                              !.blocks = SubSeq(@, 1, Min({Room, Len(@)}))]
    PROVE  IInv'
<1> DEFINE q == round.blocks
<1>1. /\ pending' \in [Cids -> Blocks \cup {NoBlock}]
      /\ \A c \in Cids : \/ pending'[c] = pending[c]
                         \/ \E i \in DOMAIN q : q[i].cid = c /\ pending'[c] = q[i]
      /\ \A i \in 1..n : q[i].cid \in Special => pending'[q[i].cid] = q[i]
  BY SetPendingOK DEF IInv
<1>2. /\ queue' \in Seq(Blocks) /\ Len(queue') <= changes'
      /\ \A i \in DOMAIN queue' : queue'[i].ext /\ queue'[i].cid \in ExtCids
  BY DeleteOK DEF IInv
<1>3. /\ ds' \in Sessions /\ ds'.val = ds.val /\ ds'.enabled = ds.enabled /\ ds'.link = ds.link
      /\ ds'.maxPower = ds.maxPower /\ ds'.errors = ds.errors /\ ds'.history = ds.history
      /\ ds'.extra \in {ds.extra, ds.extra \cap CustomChannels}
  <2>1. ds \in Sessions
    BY DEF IInv, Typed, SessionOK
  <2>2. CASE ds' = ds
    BY <2>1, <2>2
  <2>3. CASE ds' = CleanChannels(ds)
    <3> DEFINE extra == ds.extra \cap CustomChannels
    <3>1. extra \in SUBSET Channels /\ ds' = [ds EXCEPT !.extra = extra]
      BY <2>1, <2>3 DEF Sessions, CleanChannels
    <3> HIDE DEF extra
    <3>2. /\ ds' \in Sessions /\ ds'.val = ds.val /\ ds'.enabled = ds.enabled
          /\ ds'.link = ds.link /\ ds'.maxPower = ds.maxPower /\ ds'.errors = ds.errors
          /\ ds'.history = ds.history /\ ds'.extra = extra
      BY <2>1, <3>1 DEF Sessions
    <3> QED BY <3>2 DEF extra
  <2> QED BY <2>2, <2>3
<1>4. Idle.at = "idle" /\ Idle.cmds = <<>> /\ Idle.blocks = <<>> /\ CidsOf(<<>>) = {}
      /\ Idle \in Rounds
  <2>1. <<>> \in Seq(Replies) /\ <<>> \in Seq(Blocks)
    OBVIOUS
  <2> QED BY <2>1 DEF Idle, Rounds, CidsOf
<1>5. \/ round' = Idle
      \/ /\ n = Len(q) /\ round' \in Rounds /\ round'.at = "downlink" /\ round'.cmds = round.cmds
         /\ \E m \in 0..Len(q) : round'.blocks = SubSeq(q, 1, m)
  <2> SUFFICES ASSUME n = Len(q),
                      round' = [round EXCEPT !.at = "downlink",
                                   !.blocks = SubSeq(@, 1, Min({Room, Len(@)}))]
               PROVE  /\ round' \in Rounds /\ round'.at = "downlink" /\ round'.cmds = round.cmds
                      /\ \E m \in 0..Len(q) : round'.blocks = SubSeq(q, 1, m)
    OBVIOUS
  <2> DEFINE m == Min({Room, Len(q)})
             t == SubSeq(q, 1, m)
  <2>1. round \in Rounds /\ q \in Seq(Blocks) /\ Len(q) \in Nat
    <3>1. round \in Rounds
      BY DEF IInv, Typed
    <3>2. q \in Seq(Blocks)
      BY <3>1 DEF Rounds
    <3> QED BY <3>1, <3>2
  <2>2. m \in 0..Len(q)
    <3>1. Room \in Nat /\ Len(q) \in Nat
      BY <2>1, MacAssumption
    <3> DEFINE len == Len(q)
    <3> HIDE DEF q, len
    <3>2. Min({Room, Len(q)}) \in {Room, Len(q)} /\ Min({Room, Len(q)}) <= Len(q)
      BY <3>1, MinTwo
    <3> QED BY <3>1, <3>2
  <2>3. round' = [round EXCEPT !.at = "downlink", !.blocks = t]
    BY <2>1
  <2> HIDE DEF m
  <2>4. t \in Seq(Blocks)
    <3> HIDE DEF q
    <3> QED BY <2>1, <2>2
  <2> DEFINE u == t
  <2>5. /\ round' \in Rounds /\ round'.at = "downlink" /\ round'.cmds = round.cmds
        /\ round'.blocks = t
    <3> HIDE DEF t
    <3> QED BY <2>1, <2>3, <2>4 DEF Rounds
  <2> QED BY <2>2, <2>5
<1>6. Typed'
  <2>1. SessionOK(ds)'
    BY <1>3 DEF IInv, Typed, SessionOK
  <2> QED BY <1>1, <1>2, <1>4, <1>5, <2>1 DEF IInv, Typed
<1>7. StageInv'
  BY <1>4, <1>5 DEF IInv, StageInv
<1>8. ResetInv'
  BY <1>4, <1>5 DEF IInv, ResetInv
<1>9. \A i \in DOMAIN q : BlockInv(q[i])
  BY DEF IInv, BlocksInv
<1>10. PendingInv'
  <2> SUFFICES ASSUME NEW c \in Cids, pending'[c] # NoBlock
               PROVE  /\ pending'[c].cid = c /\ Shape(pending'[c])
                      /\ ds'.errors[c] <= MaxErrors
                      /\ DisableMACCommands => pending'[c].ext
    BY DEF PendingInv, Shape
  <2>1. CASE pending'[c] = pending[c]
    BY <1>3, <2>1 DEF IInv, PendingInv
  <2>2. CASE pending'[c] # pending[c]
    <3>1. PICK i \in DOMAIN q : q[i].cid = c /\ pending'[c] = q[i]
      BY <1>1, <2>2
    <3> HIDE DEF q
    <3> QED BY <1>3, <1>9, <3>1 DEF BlockInv
  <2> QED BY <2>1, <2>2
<1>11. PowerInv' /\ OnlyRepeatedMisread'
  BY <1>3 DEF IInv, PowerInv, OnlyRepeatedMisread
<1>12. AvoidInv'
  <2> SUFFICES ASSUME pending'["LinkADR"] # NoBlock PROVE Avoids(pending'["LinkADR"])
    BY DEF AvoidInv, Avoids
  <2>1. "LinkADR" \in Cids
    BY DEF Cids
  <2>2. CASE pending'["LinkADR"] = pending["LinkADR"]
    BY <2>2 DEF IInv, AvoidInv
  <2>3. CASE pending'["LinkADR"] # pending["LinkADR"]
    <3>1. PICK i \in DOMAIN q : q[i].cid = "LinkADR" /\ pending'["LinkADR"] = q[i]
      BY <1>1, <2>1, <2>3
    <3> HIDE DEF q
    <3> QED BY <1>9, <3>1 DEF BlockInv
  <2> QED BY <2>2, <2>3
<1>13. ReplyFlight'
  <2>1. Replied(dev.answers) /\ CidsOf(dev.answers) \cap (Asks \cup {"ResetInd"}) = {}
    BY DEF IInv, ReplyFlight
  <2>2. CidsOf(dev.answers) \subseteq Sticky /\ dev.answers \in Seq(Replies)
        /\ round.cmds = <<>>
    <3>1. CidsOf(dev.answers) \subseteq Sticky /\ round.cmds = <<>>
      BY DEF IInv, StageInv
    <3> QED BY <3>1 DEF IInv, Typed, Nodes
  <2>3. ~DisableMACCommands \/ dev.answers = <<>>
    BY <2>1, <2>2, NoneRepeated DEF Replied
  <2>4. ASSUME NEW i \in DOMAIN dev.answers, dev.answers[i].cid \in Params
        PROVE  /\ dev.answers[i].ok <=> dev.answers[i].cid \notin RefusedParams
               /\ dev.answers[i].ok => dev.answers[i].of = <<dev.val[dev.answers[i].cid]>>
    BY <2>1, <2>4 DEF Replied, ReplyInv
  <2>5. OneEach(dev.answers)
    BY <2>1 DEF Replied
  <2>6. Replied(dev.answers)'
    BY <2>2, <2>3, <2>4, <2>5, StickyReplied DEF IInv
  <2>7. round'.cmds = <<>>
    BY <1>4, <1>5, <2>2
  <2>8. Replied(round.cmds)'
    BY <2>7 DEF Replied, ReplyInv, OneEach, Apart, CidsOf
  <2> QED BY <2>1, <2>6, <2>8 DEF ReplyFlight
<1>14. CASE round' = Idle
  <2>1. ~Confirming'
    BY <1>4, <1>14 DEF Confirming
  <2>2. BlocksInv'
    BY <1>4, <1>14 DEF BlocksInv, Single, Apart, CidsOf
  <2>3. ParamInv'
    BY <1>3, <2>1 DEF IInv, ParamInv, Blind
  <2>4. ChannelInv'
    BY <1>3, <2>1 DEF IInv, ChannelInv
  <2> QED BY <1>6, <1>7, <1>8, <1>10, <1>11, <1>12, <1>13, <2>2, <2>3, <2>4 DEF IInv
<1>15. CASE round' # Idle
  <2>1. PICK m \in 0..Len(q) : round'.blocks = SubSeq(q, 1, m)
    BY <1>5, <1>15
  <2>2. n = Len(q) /\ round'.at = "downlink"
    BY <1>5, <1>15
  <2> DEFINE t == round'.blocks
  <2>3. q \in Seq(Blocks)
    BY DEF IInv, Typed, Rounds
  <2>4. /\ DOMAIN t = 1..m /\ (q = <<>> => t = <<>>)
        /\ \A i \in 1..m : i \in 1..Len(q) /\ i \in DOMAIN q /\ t[i] = q[i]
    <3> HIDE DEF q
    <3> QED BY <2>1, <2>3
  <2> HIDE DEF t, q
  <2>5. ASSUME NEW i \in 1..m PROVE BlockInv(round.blocks[i])'
    <3>1. BlockInv(t[i])
      BY <1>9, <2>4
    <3>2. ToSet(t[i].req) \cap ds.extra = {} => ToSet(t[i].req) \cap ds'.extra = {}
      BY <1>3
    <3> QED BY <1>3, <3>1, <3>2 DEF BlockInv, Shape, MaskOK, Avoids, t
  <2>6. Single(t) /\ Apart(t)
    <3>1. Single(q) /\ Apart(q)
      BY DEF IInv, BlocksInv, q
    <3> QED BY <2>4, <3>1 DEF Single, Apart, CidsOf
  <2>7. dev.reset /\ ~DisableMACCommands /\ t # <<>> => t[1].cid = "ResetInd"
    <3> SUFFICES ASSUME dev.reset, ~DisableMACCommands, t # <<>> PROVE t[1].cid = "ResetInd"
      OBVIOUS
    <3>1. q # <<>>
      BY <2>4
    <3>2. q[1].cid = "ResetInd"
      BY <3>1 DEF IInv, BlocksInv, q
    <3>3. 1 \in 1..m
      <4>1. m # 0
        <5> SUFFICES ASSUME m = 0 PROVE FALSE
          OBVIOUS
        <5>1. SubSeq(q, 1, 0) = <<>>
          BY <2>3
        <5> QED BY <2>1, <5>1 DEF t
      <4> QED BY <4>1
    <3> QED BY <2>4, <3>2, <3>3
  <2>8. \A i \in 1..m : t[i].cid \in Special => pending'[t[i].cid] = t[i]
    BY <1>1, <2>2, <2>4 DEF q
  <2>9. BlocksInv'
    BY <2>2, <2>4, <2>5, <2>6, <2>7, <2>8 DEF BlocksInv, Single, Apart, CidsOf, t
  <2>10. Confirming' => Confirming
    BY <2>4 DEF Confirming, t, q
  <2>11. ParamInv'
    BY <1>3, <2>10 DEF IInv, ParamInv, Blind
  <2>12. ChannelInv'
    BY <1>3, <2>10 DEF IInv, ChannelInv
  <2> QED BY <1>6, <1>7, <1>8, <1>10, <1>11, <1>12, <1>13, <2>9, <2>11, <2>12 DEF IInv
<1> QED
  BY <1>14, <1>15

\* setMACCommands and its failures keep the invariant.
LEMMA setMACCommandsKeeps ==
    ASSUME IInv, setMACCommands \/ setMACCommandsFails
    PROVE  IInv'
<1>1. round.blocks \in Seq(Blocks)
  BY DEF IInv, Typed, Rounds
<1>2. Len(round.blocks) \in 0..Len(round.blocks)
      /\ \A n \in DOMAIN round.blocks : n \in 0..Len(round.blocks)
  BY <1>1
<1>3. CASE setMACCommands
  <2> DEFINE n == Len(round.blocks)
  <2>1. /\ round.at = "commit" /\ SetPendingMACCommand(n) /\ DeleteMACCommandQueueItem(n)
        /\ UNCHANGED <<mode, conf, dev, blind, refused, changes, calm>>
        /\ \/ round' = Idle /\ ds' = ds
           \/ /\ ds' = CleanChannels(ds)
              /\ round' = [round EXCEPT !.at = "downlink",
                              !.blocks = SubSeq(@, 1, Min({Room, Len(@)}))]
    BY <1>3 DEF setMACCommands
  <2> QED BY <1>2, <2>1, CommitKeeps
<1>4. CASE setMACCommandsFails
  <2>1. PICK n \in DOMAIN round.blocks : SetPendingMACCommand(n) /\ DeleteMACCommandQueueItem(n - 1)
    BY <1>4 DEF setMACCommandsFails
  <2>2. round.at = "commit" /\ round' = Idle
        /\ UNCHANGED <<ds, mode, conf, dev, blind, refused, changes, calm>>
    BY <1>4 DEF setMACCommandsFails
  <2> QED BY <1>2, <2>1, <2>2, CommitKeeps
<1> QED
  BY <1>3, <1>4

-----------------------------------------------------------------------------
(* ReceiveDownlink *)

\* The answers s hold those to the channels of b, which the device has in use.
ChannelsOf(s, b, enabled) ==
    \E a \in 0..Len(s) :
        /\ {i \in DOMAIN s : s[i].cid = "NewChannel"} = (a + 1)..(a + Len(b.req))
        /\ \A i \in 1..Len(b.req) : s[a + i].ok = (b.req[i] \notin RefusedChannels)
        /\ ToSet(b.req) \ RefusedChannels \subseteq enabled

\* What the device d answers to a request that is pending.
ReplyOf(d, a) ==
    /\ a.cid \in Params =>
           /\ a.ok <=> a.cid \notin RefusedParams
           /\ a.of = <<conf[a.cid]>>
           /\ a.ok => d.val[a.cid] = conf[a.cid]
           /\ pending[a.cid] # NoBlock /\ pending[a.cid].req = a.of
    /\ a.cid = "LinkADR" =>
           /\ pending["LinkADR"] # NoBlock /\ pending["LinkADR"].req = a.of
           /\ "dr" \in a.bits <=> d.adr
           /\ "power" \in a.bits <=> (d.adr /\ a.of[2] <= DevMaxPower)
           /\ a.bits \subseteq {"mask", "dr", "power"}
           /\ MaskOK(pending["LinkADR"].mask)
           /\ a.bits = {"mask", "dr", "power"} \/ (~d.adr /\ "mask" \in a.bits) =>
                  d.enabled = pending["LinkADR"].mask
    /\ a.cid = "NewChannel" =>
           pending["NewChannel"] # NoBlock
           /\ ChannelsOf(d.answers, pending["NewChannel"], d.enabled)

\* The first k commands of the downlink.
Sent(k) == {round.blocks[i].cid : i \in 1..k}

\* The device d after the first k requests of a downlink.
Obeyed(d, k) ==
    /\ d \in Nodes /\ d.adr = dev.adr
    /\ \A i \in DOMAIN d.answers : ReplyOf(d, d.answers[i])
    /\ OneEach(d.answers)
    /\ CidsOf(d.answers) \subseteq Sent(k) \ (Asks \cup {"ResetInd"})
    /\ \A p \in Params : d.val[p] \in {dev.val[p], conf[p]}
    /\ d.reset => dev.reset
    /\ dev.reset /\ ~d.reset => "ResetInd" \in Sent(k)
    /\ dev.reset /\ ~DisableMACCommands /\ k >= 1 => ~d.reset
    /\ DisableMACCommands =>
           /\ \A p \in Params : d.val[p] = dev.val[p]
           /\ d.enabled = dev.enabled /\ d.reset = dev.reset
    /\ \/ d.enabled = dev.enabled
       \/ \E i \in 1..k : /\ round.blocks[i].cid = "LinkADR"
                          /\ d.enabled = round.blocks[i].mask
       \/ \E i \in 1..k : /\ round.blocks[i].cid = "NewChannel"
                          /\ d.enabled = dev.enabled
                                 \cup (ToSet(round.blocks[i].req) \ RefusedChannels)

\* A request on its way.
LEMMA SentOK ==
    ASSUME IInv, round.at = "downlink", NEW k \in 1..Len(round.blocks),
           NEW b, b = round.blocks[k]
    PROVE  /\ b \in Blocks /\ BlockInv(b)
           /\ b.cid \in Special => pending[b.cid] = b /\ b # NoBlock /\ b.cid \notin Sent(k - 1)
           /\ b.cid = "LinkADR" => "NewChannel" \notin Sent(k - 1)
           /\ b.cid = "NewChannel" => "LinkADR" \notin Sent(k - 1)
           /\ dev.reset /\ ~DisableMACCommands /\ k = 1 => b.cid = "ResetInd"
           /\ DisableMACCommands => b.cid \in ExtCids
           /\ Sent(k) = Sent(k - 1) \cup {b.cid}
<1> DEFINE q == round.blocks
           N == Len(q)
<1>1. q \in Seq(Blocks) /\ N \in Nat /\ DOMAIN q = 1..N
  <2>1. q \in Seq(Blocks)
    BY DEF IInv, Typed, Rounds
  <2> QED BY <2>1
<1> HIDE DEF q, N
<1>2. k \in 1..N /\ b = q[k] /\ k \in DOMAIN q
  BY <1>1 DEF q, N
<1>3. b \in Blocks
  BY <1>1, <1>2
<1>4. BlockInv(b) /\ (b.cid \in Special => pending[b.cid] = b)
  BY <1>2 DEF IInv, BlocksInv, q
<1>5. b # NoBlock
  BY <1>3, CidsOK DEF Blocks, NoBlock
<1>6. \A i \in 1..(k - 1) : i \in DOMAIN q /\ i # k
  BY <1>1, <1>2
<1>7. ASSUME b.cid \in Special PROVE b.cid \notin Sent(k - 1)
  <2> SUFFICES ASSUME NEW i \in 1..(k - 1), q[i].cid = b.cid PROVE FALSE
    BY DEF Sent, q
  <2>1. i = k
    BY <1>2, <1>6, <1>7 DEF IInv, BlocksInv, Single, q
  <2> QED BY <1>6, <2>1
<1>8. /\ b.cid = "LinkADR" => "NewChannel" \notin Sent(k - 1)
      /\ b.cid = "NewChannel" => "LinkADR" \notin Sent(k - 1)
  <2>1. Sent(k - 1) \cup {b.cid} \subseteq CidsOf(q)
    BY <1>2, <1>6 DEF Sent, CidsOf, q
  <2>2. Apart(q)
    BY DEF IInv, BlocksInv, q
  <2> QED BY <2>1, <2>2 DEF Apart
<1>9. ASSUME dev.reset, ~DisableMACCommands, k = 1 PROVE b.cid = "ResetInd"
  <2>1. q # <<>>
    BY <1>1, <1>2
  <2> QED BY <1>2, <1>9, <2>1 DEF IInv, BlocksInv, q
<1>10. DisableMACCommands => b.cid \in ExtCids
  BY <1>4 DEF BlockInv, Shape
<1>11. Sent(k) = Sent(k - 1) \cup {b.cid}
  <2>1. 1..k = 1..(k - 1) \cup {k}
    BY <1>1, <1>2
  <2> QED BY <1>2, <2>1 DEF Sent, q
<1> QED
  BY <1>3, <1>4, <1>5, <1>7, <1>8, <1>9, <1>10, <1>11

\* Other answers follow those to the channels.
LEMMA ChannelsAppended ==
    ASSUME NEW s \in Seq(Replies), NEW a \in Replies, a.cid # "NewChannel", NEW b, NEW enabled,
           ChannelsOf(s, b, enabled)
    PROVE  ChannelsOf(Append(s, a), b, enabled)
<1> DEFINE t == Append(s, a)
           n == Len(s)
<1>1. /\ n \in Nat /\ DOMAIN s = 1..n /\ DOMAIN t = 1..(n + 1) /\ Len(t) = n + 1
      /\ t[n + 1] = a /\ \A i \in 1..n : t[i] = s[i]
  OBVIOUS
<1> HIDE DEF t, n
<1>2. PICK x \in 0..n :
        /\ {j \in DOMAIN s : s[j].cid = "NewChannel"} = (x + 1)..(x + Len(b.req))
        /\ \A j \in 1..Len(b.req) : s[x + j].ok = (b.req[j] \notin RefusedChannels)
        /\ ToSet(b.req) \ RefusedChannels \subseteq enabled
  BY DEF ChannelsOf, n
<1>3. {j \in DOMAIN t : t[j].cid = "NewChannel"} = {j \in DOMAIN s : s[j].cid = "NewChannel"}
  <2>1. ASSUME NEW j \in DOMAIN t, t[j].cid = "NewChannel" PROVE j \in DOMAIN s
    BY <1>1, <2>1
  <2>2. ASSUME NEW j \in DOMAIN s PROVE j \in DOMAIN t /\ t[j] = s[j]
    BY <1>1
  <2> QED BY <2>1, <2>2
<1>4. \A j \in 1..Len(b.req) : t[x + j] = s[x + j]
  <2> SUFFICES ASSUME NEW j \in 1..Len(b.req) PROVE t[x + j] = s[x + j]
    OBVIOUS
  <2>1. x + j \in (x + 1)..(x + Len(b.req)) \/ Len(b.req) \notin Int
    BY <1>1, <1>2
  <2>2. CASE Len(b.req) \in Int
    <3>1. x + j \in DOMAIN s
      BY <1>2, <2>1, <2>2
    <3> QED BY <1>1, <3>1
  <2>3. CASE Len(b.req) \notin Int
    BY <2>3
  <2> QED BY <2>2, <2>3
<1>5. x \in 0..Len(t)
  BY <1>1, <1>2
<1> QED
  BY <1>2, <1>3, <1>4, <1>5 DEF ChannelsOf, t

\* The answer a to the request b, and what the device has done for it.
ParamAnswered(d, e, b, a) ==
    /\ a.cid = b.cid /\ a.of = b.req /\ a.ok = (b.cid \notin RefusedParams)
    /\ e.answers = Append(d.answers, a)
    /\ e.val = IF a.ok THEN [d.val EXCEPT ![b.cid] = b.req[1]] ELSE d.val

ChannelsAnswered(b, f) ==
    /\ Len(f) = Len(b.req)
    /\ \A i \in 1..Len(b.req) :
          f[i].cid = "NewChannel" /\ f[i].ok = (b.req[i] \notin RefusedChannels)

LinkAnswered(d, e, b, a) ==
    /\ a.cid = b.cid /\ a.of = b.req /\ e.answers = Append(d.answers, a)
    /\ "dr" \in a.bits <=> d.adr
    /\ "power" \in a.bits <=> (d.adr /\ b.req[2] <= DevMaxPower)
    /\ a.bits \subseteq {"mask", "dr", "power"}
    /\ a.bits = {"mask", "dr", "power"} \/ (~d.adr /\ "mask" \in a.bits) =>
           e.enabled = b.mask

\* The answer to the request of a parameter.
LEMMA ParamObeyed ==
    ASSUME NEW d \in Nodes, NEW b \in Blocks, Shape(b), b.cid \in Params,
           NEW e, e = Obey(d, b)
    PROVE  /\ e \in Nodes /\ e.adr = d.adr /\ e.reset = d.reset /\ e.enabled = d.enabled
           /\ \E a \in Replies : ParamAnswered(d, e, b, a)
<1>0. /\ Params \cap (Asks \cup {"NewChannel", "LinkADR", "ResetInd"}) = {}
      /\ Asks \cap {"NewChannel", "LinkADR", "ResetInd"} = {}
  BY CidsOK
<1> DEFINE ok == b.cid \notin RefusedParams
           a == Answer(b, ok, {})
           answers == Append(d.answers, a)
           val == [d.val EXCEPT ![b.cid] = b.req[1]]
<1>1. a \in Replies /\ a.cid = b.cid /\ a.of = b.req /\ a.ok = ok
  BY DEF Answer, Replies, Blocks
<1> HIDE DEF a
<1>2. d.answers \in Seq(Replies) /\ d.val \in [Params -> Values]
  BY DEF Nodes
<1>3. answers \in Seq(Replies)
  BY <1>1, <1>2
<1>4. b.req[1] \in Values
  <2>1. PICK v \in Values : b.req = <<v>>
    BY DEF Shape
  <2> QED BY <2>1
<1>5. val \in [Params -> Values]
  BY <1>2, <1>4
<1>6. e = IF ok THEN [[d EXCEPT !.answers = answers] EXCEPT !.val[b.cid] = b.req[1]]
          ELSE [d EXCEPT !.answers = answers]
  <2>1. e = ObeyParam(d, b)
    BY <1>0 DEF Obey
  <2> QED BY <2>1 DEF ObeyParam, SendAnswer, a
<1>7. e = IF ok THEN [d EXCEPT !.answers = answers, !.val = val]
          ELSE [d EXCEPT !.answers = answers]
  BY <1>6 DEF Nodes
<1> HIDE DEF answers, val
<1>8. /\ e \in Nodes /\ e.adr = d.adr /\ e.reset = d.reset /\ e.enabled = d.enabled
      /\ e.answers = answers /\ e.val = IF ok THEN val ELSE d.val
  <2>1. CASE ok
    BY <1>3, <1>5, <1>7, <2>1 DEF Nodes
  <2>2. CASE ~ok
    BY <1>3, <1>7, <2>2 DEF Nodes
  <2> QED BY <2>1, <2>2
<1> QED
  BY <1>1, <1>8 DEF answers, val, ParamAnswered

\* The answers to the request of channels.
LEMMA ChannelsObeyed ==
    ASSUME NEW d \in Nodes, NEW b \in Blocks, Shape(b), b.cid = "NewChannel",
           NEW e, e = Obey(d, b)
    PROVE  /\ e \in Nodes /\ e.adr = d.adr /\ e.reset = d.reset /\ e.val = d.val
           /\ e.enabled = d.enabled \cup (ToSet(b.req) \ RefusedChannels)
           /\ \E f \in Seq(Replies) : e.answers = d.answers \o f /\ ChannelsAnswered(b, f)
<1>0. /\ Params \cap (Asks \cup {"NewChannel", "LinkADR", "ResetInd"}) = {}
      /\ Asks \cap {"NewChannel", "LinkADR", "ResetInd"} = {}
  BY CidsOK
<1> DEFINE new == ToSet(b.req) \ RefusedChannels
           f == [i \in DOMAIN b.req |-> Answer(b, b.req[i] \notin RefusedChannels, {})]
           answers == d.answers \o f
           extra == d.extra \cup new
           enabled == d.enabled \cup new
<1>1. b.cid \notin Params
  BY CidsOK
<1>2. b.req \in Seq(CustomChannels) /\ Len(b.req) \in Nat /\ DOMAIN b.req = 1..Len(b.req)
  <2>1. b.req \in Seq(CustomChannels)
    BY DEF Shape
  <2> QED BY <2>1
<1>3. new \subseteq Channels
  BY <1>2 DEF ToSet, Channels
<1>4. f \in Seq(Replies) /\ Len(f) = Len(b.req)
      /\ \A i \in 1..Len(b.req) :
             f[i].cid = "NewChannel" /\ f[i].ok = (b.req[i] \notin RefusedChannels)
  <2>1. \A i \in DOMAIN b.req : f[i] \in Replies
    BY DEF Answer, Replies, Blocks
  <2>2. \A i \in DOMAIN b.req :
             f[i].cid = "NewChannel" /\ f[i].ok = (b.req[i] \notin RefusedChannels)
    BY DEF Answer
  <2>3. DOMAIN f = 1..Len(b.req) /\ f = [i \in 1..Len(b.req) |-> f[i]]
    BY <1>2
  <2> DEFINE n == Len(b.req)
  <2>4. n \in Nat /\ DOMAIN b.req = 1..n
    BY <1>2
  <2> HIDE DEF f, n
  <2>5. f \in Seq(Replies) /\ Len(f) = n
    BY <2>1, <2>3, <2>4, SMT DEF n
  <2> QED BY <2>2, <2>4, <2>5 DEF n
<1> HIDE DEF f, new
<1>5. answers \in Seq(Replies) /\ extra \in SUBSET Channels /\ enabled \in SUBSET Channels
  <2>1. d.answers \in Seq(Replies) /\ d.extra \subseteq Channels /\ d.enabled \subseteq Channels
    BY DEF Nodes
  <2> QED BY <1>3, <1>4, <2>1
<1>6. e = [d EXCEPT !.extra = extra, !.enabled = enabled, !.answers = answers]
  <2>1. e = ObeyNewChannel(d, b)
    BY <1>0, <1>1 DEF Obey
  <2> QED BY <2>1 DEF ObeyNewChannel, f, new
<1> HIDE DEF answers, extra, enabled
<1>7. /\ e \in Nodes /\ e.adr = d.adr /\ e.reset = d.reset /\ e.val = d.val
      /\ e.enabled = enabled /\ e.answers = answers
  BY <1>5, <1>6 DEF Nodes
<1>8. ChannelsAnswered(b, f)
  BY <1>4 DEF ChannelsAnswered
<1> QED
  BY <1>4, <1>7, <1>8 DEF answers, enabled, new

\* The answer to a LinkADRReq.
LEMMA LinkObeyed ==
    ASSUME NEW d \in Nodes, NEW b \in Blocks, Shape(b), b.cid = "LinkADR",
           NEW e, e = Obey(d, b)
    PROVE  /\ e \in Nodes /\ e.adr = d.adr /\ e.reset = d.reset /\ e.val = d.val
           /\ e.enabled \in {d.enabled, b.mask}
           /\ \E a \in Replies : LinkAnswered(d, e, b, a)
<1>0. /\ Params \cap (Asks \cup {"NewChannel", "LinkADR", "ResetInd"}) = {}
      /\ Asks \cap {"NewChannel", "LinkADR", "ResetInd"} = {}
  BY CidsOK
<1> DEFINE known == b.mask # {} /\ b.mask \subseteq StandardChannels \cup d.extra
           bits == (IF known THEN {"mask"} ELSE {})
                    \cup (IF d.adr THEN {"dr"} ELSE {})
                    \cup (IF d.adr /\ b.req[2] <= DevMaxPower THEN {"power"} ELSE {})
           all == bits = {"mask", "dr", "power"}
           part == ~all /\ ~d.adr /\ known
           ok == all \/ part
           a == Answer(b, ok, bits)
           answers == Append(d.answers, a)
           full == [dr |-> b.req[1], power |-> b.req[2], nb |-> b.req[3]]
           nb == [d.link EXCEPT !.nb = b.req[3]]
           link == IF all THEN full ELSE IF part THEN nb ELSE d.link
           enabled == IF ok THEN b.mask ELSE d.enabled
<1>1. b.cid \notin Params
  BY CidsOK
<1>2. /\ bits \subseteq {"mask", "dr", "power"}
      /\ "mask" \in bits <=> known
      /\ "dr" \in bits <=> d.adr
      /\ "power" \in bits <=> (d.adr /\ b.req[2] <= DevMaxPower)
  BY DEF Nodes
<1>3. e = IF all THEN [[d EXCEPT !.answers = answers] EXCEPT !.enabled = b.mask, !.link = full]
          ELSE IF part THEN [[d EXCEPT !.answers = answers] EXCEPT
                                !.enabled = b.mask, !.link.nb = b.req[3]]
          ELSE [d EXCEPT !.answers = answers]
  <2>1. e = ObeyLinkADR(d, b)
    BY <1>0, <1>1 DEF Obey
  <2>2. CASE all
    BY <2>1, <2>2 DEF ObeyLinkADR, SendAnswer
  <2>3. CASE part
    BY <2>1, <2>3 DEF ObeyLinkADR, SendAnswer
  <2>4. CASE ~all /\ ~part
    BY <2>1, <2>4 DEF ObeyLinkADR, SendAnswer
  <2> QED BY <2>2, <2>3, <2>4
<1> HIDE DEF bits, known
<1>4. a \in Replies /\ a.cid = b.cid /\ a.of = b.req /\ a.bits = bits
  BY <1>2 DEF Answer, Replies, Blocks
<1> HIDE DEF a
<1>5. answers \in Seq(Replies)
  <2>1. d.answers \in Seq(Replies)
    BY DEF Nodes
  <2> QED BY <1>4, <2>1
<1>6. full \in Links /\ nb \in Links /\ d.link \in Links
  <2>1. PICK l \in Links : b.req = <<l.dr, l.power, l.nb>>
    BY DEF Shape
  <2>2. d.link \in Links
    BY DEF Nodes
  <2>3. b.req[1] = l.dr /\ b.req[2] = l.power /\ b.req[3] = l.nb
    BY <2>1
  <2>4. l.dr \in DOMAIN DataRates /\ l.power \in 0..BandMaxPower /\ l.nb \in 1..3
    BY DEF Links
  <2>5. full \in Links
    BY <2>3, <2>4 DEF Links
  <2>6. nb \in Links
    BY <2>2, <2>3, <2>4 DEF Links
  <2> QED BY <2>2, <2>5, <2>6
<1>7. enabled \in SUBSET Channels /\ link \in Links
  <2>1. d.enabled \subseteq Channels /\ b.mask \subseteq Channels
    BY DEF Nodes, Blocks
  <2> HIDE DEF all, part, full, nb
  <2> QED BY <1>6, <2>1
<1>8. e = [d EXCEPT !.answers = answers, !.enabled = enabled, !.link = link]
  <2>1. CASE all
    BY <1>3, <2>1
  <2>2. CASE part
    <3>1. ~all
      BY <2>2
    <3>2. e = [[d EXCEPT !.answers = answers] EXCEPT !.enabled = b.mask, !.link.nb = b.req[3]]
      <4> HIDE DEF all, full, answers
      <4> QED BY <1>3, <2>2, <3>1
    <3>3. e = [d EXCEPT !.answers = answers, !.enabled = b.mask, !.link = nb]
      BY <3>2 DEF Nodes
    <3>4. link = nb /\ enabled = b.mask
      <4> HIDE DEF all, full, nb
      <4> QED BY <2>2, <3>1
    <3> QED BY <3>3, <3>4
  <2>3. CASE ~all /\ ~part
    <3>1. e = [d EXCEPT !.answers = answers]
      <4> HIDE DEF all, part, full, answers
      <4> QED BY <1>3, <2>3
    <3>2. link = d.link /\ enabled = d.enabled
      <4> HIDE DEF all, part, full, nb
      <4> QED BY <2>3
    <3> QED BY <3>1, <3>2 DEF Nodes
  <2> QED BY <2>1, <2>2, <2>3
<1>9. bits = {"mask", "dr", "power"} \/ (~d.adr /\ "mask" \in bits) => enabled = b.mask
  BY <1>2
<1>10. enabled \in {d.enabled, b.mask}
  OBVIOUS
<1> HIDE DEF answers, enabled, link
<1>11. /\ e \in Nodes /\ e.adr = d.adr /\ e.reset = d.reset /\ e.val = d.val
       /\ e.enabled = enabled /\ e.answers = answers
  BY <1>5, <1>7, <1>8 DEF Nodes
<1>12. LinkAnswered(d, e, b, a)
  BY <1>2, <1>4, <1>9, <1>11 DEF answers, LinkAnswered
<1> QED
  BY <1>4, <1>10, <1>11, <1>12

\* The other requests.
LEMMA OtherObeyed ==
    ASSUME NEW d \in Nodes, NEW b \in Blocks,
           b.cid \notin Params \cup {"NewChannel", "LinkADR"},
           NEW e, e = Obey(d, b)
    PROVE  /\ e \in Nodes /\ e.adr = d.adr /\ e.val = d.val /\ e.enabled = d.enabled
           /\ b.cid = "ResetInd" => ~e.reset /\ e.answers = d.answers
           /\ b.cid \in Asks => e = d
           /\ b.cid # "ResetInd" => e.reset = d.reset
           /\ b.cid \notin Asks \cup {"ResetInd"} =>
                  \E a \in Replies : a.cid = b.cid /\ e.answers = Append(d.answers, a)
<1>0. /\ Params \cap (Asks \cup {"NewChannel", "LinkADR", "ResetInd"}) = {}
      /\ Asks \cap {"NewChannel", "LinkADR", "ResetInd"} = {}
  BY CidsOK
<1> DEFINE a == Answer(b, TRUE, {})
           answers == Append(d.answers, a)
<1>1. CASE b.cid = "ResetInd"
  <2>1. e = [d EXCEPT !.reset = FALSE]
    BY <1>0, <1>1 DEF Obey
  <2>2. "ResetInd" \notin Asks
    BY CidsOK
  <2> QED BY <1>1, <2>1, <2>2 DEF Nodes
<1>2. CASE b.cid \in Asks
  <2>1. b.cid # "ResetInd"
    BY <1>2, CidsOK
  <2> QED BY <1>2, <2>1 DEF Obey
<1>3. CASE b.cid \notin Asks \cup {"ResetInd"}
  <2>1. e = [d EXCEPT !.answers = answers]
    BY <1>3 DEF Obey, SendAnswer
  <2>2. a \in Replies /\ a.cid = b.cid
    BY DEF Answer, Replies, Blocks
  <2> HIDE DEF a
  <2>3. answers \in Seq(Replies)
    <3>1. d.answers \in Seq(Replies)
      BY DEF Nodes
    <3> QED BY <2>2, <3>1
  <2> HIDE DEF answers
  <2>4. /\ e \in Nodes /\ e.adr = d.adr /\ e.val = d.val /\ e.enabled = d.enabled
        /\ e.reset = d.reset /\ e.answers = answers
    BY <2>1, <2>3 DEF Nodes
  <2> QED BY <1>3, <2>2, <2>4 DEF answers
<1> QED
  BY <1>1, <1>2, <1>3

\* One answer more, and what the device has done for it.
LEMMA OneAnswer ==
    ASSUME IInv, round.at = "downlink", NEW k \in 1..Len(round.blocks),
           NEW b, b = round.blocks[k], NEW d, Obeyed(d, k - 1),
           NEW e \in Nodes, NEW a \in Replies, a.cid = b.cid,
           b.cid \notin Asks \cup {"ResetInd", "NewChannel"},
           e.adr = d.adr, e.reset = d.reset, e.answers = Append(d.answers, a),
           ReplyOf(e, a),
           \A p \in Params : e.val[p] = d.val[p] \/ (p = b.cid /\ e.val[p] = conf[p]),
           e.enabled = d.enabled \/ (b.cid = "LinkADR" /\ e.enabled = b.mask)
    PROVE  Obeyed(e, k)
<1> DEFINE s == d.answers
           t == e.answers
           n == Len(s)
<1>1. /\ b \in Blocks /\ BlockInv(b)
      /\ b.cid \in Special => pending[b.cid] = b /\ b # NoBlock /\ b.cid \notin Sent(k - 1)
      /\ b.cid = "LinkADR" => "NewChannel" \notin Sent(k - 1)
      /\ dev.reset /\ ~DisableMACCommands /\ k = 1 => b.cid = "ResetInd"
      /\ DisableMACCommands => b.cid \in ExtCids
      /\ Sent(k) = Sent(k - 1) \cup {b.cid}
  BY SentOK
<1>2. d \in Nodes /\ s \in Seq(Replies) /\ k \in Int
  <2>1. d \in Nodes
    BY DEF Obeyed
  <2> QED BY <2>1 DEF Nodes
<1>3. /\ n \in Nat /\ DOMAIN s = 1..n /\ DOMAIN t = 1..(n + 1) /\ t[n + 1] = a
      /\ \A i \in 1..n : t[i] = s[i] /\ s[i] \in Replies
  BY <1>2
<1>4. ASSUME NEW i \in 1..n
      PROVE  s[i].cid \in Sent(k - 1) /\ ReplyOf(d, s[i]) /\ t[i] = s[i] /\ s[i] \in Replies
    BY <1>3 DEF Obeyed, CidsOf
<1> HIDE DEF s, t, n
<1>5. \A i \in DOMAIN t : i \in 1..n \/ t[i] = a
  BY <1>3
<1>6. \A i \in DOMAIN t : ReplyOf(e, t[i])
  <2> SUFFICES ASSUME NEW i \in 1..n PROVE ReplyOf(e, s[i])
    BY <1>4, <1>5
  <2> DEFINE x == s[i]
  <2>1. x.cid \in Sent(k - 1) /\ ReplyOf(d, x) /\ x \in Replies
    BY <1>4
  <2> HIDE DEF x
  <2>2. x.cid \in Params => e.val[x.cid] = d.val[x.cid] \/ e.val[x.cid] = conf[x.cid]
    OBVIOUS
  <2>3. x.cid = "LinkADR" => e.enabled = d.enabled
    BY <1>1, <2>1 DEF Special
  <2>4. ASSUME x.cid = "NewChannel"
        PROVE  pending["NewChannel"] # NoBlock
               /\ ChannelsOf(t, pending["NewChannel"], e.enabled)
    <3>1. e.enabled = d.enabled /\ a.cid # "NewChannel"
      BY <1>1, <2>1, <2>4 DEF Special
    <3>2. pending["NewChannel"] # NoBlock /\ ChannelsOf(s, pending["NewChannel"], d.enabled)
      BY <2>1, <2>4 DEF ReplyOf, s
    <3>3. t = Append(s, a)
      BY DEF s, t
    <3> QED BY <1>2, <3>1, <3>2, <3>3, ChannelsAppended
  <2> QED BY <2>1, <2>2, <2>3, <2>4 DEF ReplyOf, t, x
<1>7. OneEach(t)
  <2> SUFFICES ASSUME NEW i \in DOMAIN t, NEW j \in DOMAIN t, t[i].cid = t[j].cid,
                      t[i].cid \in Params \cup {"LinkADR"}
               PROVE  i = j
    BY DEF OneEach
  <2>1. CASE i \in 1..n /\ j \in 1..n
    <3>1. OneEach(s)
      BY DEF Obeyed, s
    <3> QED BY <1>3, <1>4, <2>1, <3>1 DEF OneEach
  <2>2. CASE i \in 1..n /\ j \notin 1..n
    BY <1>1, <1>4, <1>5, <2>2 DEF Special
  <2>3. CASE i \notin 1..n /\ j \in 1..n
    BY <1>1, <1>4, <1>5, <2>3 DEF Special
  <2>4. CASE i \notin 1..n /\ j \notin 1..n
    BY <1>3, <2>4
  <2> QED BY <2>1, <2>2, <2>3, <2>4
<1>8. CidsOf(t) \subseteq Sent(k) \ (Asks \cup {"ResetInd"})
  <2> SUFFICES ASSUME NEW i \in DOMAIN t
               PROVE  t[i].cid \in Sent(k) \ (Asks \cup {"ResetInd"})
    BY DEF CidsOf
  <2>1. CASE i \in 1..n
    <3>1. s[i].cid \in CidsOf(s)
      BY <1>3, <2>1 DEF CidsOf
    <3>2. CidsOf(s) \subseteq Sent(k - 1) \ (Asks \cup {"ResetInd"})
      BY DEF Obeyed, s
    <3> QED BY <1>1, <1>4, <2>1, <3>1, <3>2
  <2>2. CASE i \notin 1..n
    BY <1>1, <1>5, <2>2
  <2> QED BY <2>1, <2>2
<1>9. \A p \in Params : e.val[p] \in {dev.val[p], conf[p]}
  BY DEF Obeyed
<1>10. /\ e.reset => dev.reset
       /\ dev.reset /\ ~e.reset => "ResetInd" \in Sent(k)
       /\ dev.reset /\ ~DisableMACCommands /\ k >= 1 => ~e.reset
  <2>1. k = 1 \/ k - 1 >= 1
    BY <1>2
  <2> QED BY <1>1, <2>1 DEF Obeyed
<1>11. DisableMACCommands =>
           /\ \A p \in Params : e.val[p] = dev.val[p]
           /\ e.enabled = dev.enabled /\ e.reset = dev.reset
  <2>1. b.cid \in ExtCids => b.cid \notin Params /\ b.cid # "LinkADR"
    BY CidsOK
  <2> QED BY <1>1, <2>1 DEF Obeyed
<1>12. \/ e.enabled = dev.enabled
       \/ \E i \in 1..k : /\ round.blocks[i].cid = "LinkADR"
                          /\ e.enabled = round.blocks[i].mask
       \/ \E i \in 1..k : /\ round.blocks[i].cid = "NewChannel"
                          /\ e.enabled = dev.enabled
                                 \cup (ToSet(round.blocks[i].req) \ RefusedChannels)
  <2>1. k \in 1..k /\ \A i \in 1..(k - 1) : i \in 1..k
    BY <1>2
  <2>2. CASE e.enabled = d.enabled
    BY <2>1, <2>2 DEF Obeyed
  <2>3. CASE b.cid = "LinkADR" /\ e.enabled = b.mask
    BY <2>1, <2>3
  <2> QED BY <2>2, <2>3
<1>13. e.adr = dev.adr
  BY DEF Obeyed
<1> QED
  BY <1>6, <1>7, <1>8, <1>9, <1>10, <1>11, <1>12, <1>13 DEF Obeyed, t

\* A request that leaves the answers as they are: the confirmation of a reset, or
\* the answer to a request of the device.
LEMMA NoAnswer ==
    ASSUME IInv, round.at = "downlink", NEW k \in 1..Len(round.blocks),
           NEW b, b = round.blocks[k], NEW d, Obeyed(d, k - 1),
           b.cid \in Asks \cup {"ResetInd"},
           NEW e \in Nodes, e.adr = d.adr, e.val = d.val, e.enabled = d.enabled,
           e.answers = d.answers,
           IF b.cid = "ResetInd" THEN ~e.reset ELSE e.reset = d.reset
    PROVE  Obeyed(e, k)
<1>1. /\ dev.reset /\ ~DisableMACCommands /\ k = 1 => b.cid = "ResetInd"
      /\ DisableMACCommands => b.cid \in ExtCids
      /\ Sent(k) = Sent(k - 1) \cup {b.cid}
  BY SentOK
<1>2. ~DisableMACCommands
  BY <1>1, CidsOK DEF OwnCids
<1>3. k = 1 \/ k - 1 >= 1
  OBVIOUS
<1>4. \A i \in DOMAIN e.answers : ReplyOf(e, e.answers[i])
  BY DEF Obeyed, ReplyOf
<1>5. OneEach(e.answers) /\ CidsOf(e.answers) \subseteq Sent(k) \ (Asks \cup {"ResetInd"})
  BY <1>1 DEF Obeyed
<1>6. \A i \in 1..(k - 1) : i \in 1..k
  OBVIOUS
<1>7. /\ e.reset => dev.reset
      /\ dev.reset /\ ~e.reset => "ResetInd" \in Sent(k)
      /\ dev.reset /\ ~DisableMACCommands /\ k >= 1 => ~e.reset
  BY <1>1, <1>3 DEF Obeyed
<1>8. \/ e.enabled = dev.enabled
      \/ \E i \in 1..k : /\ round.blocks[i].cid = "LinkADR"
                         /\ e.enabled = round.blocks[i].mask
      \/ \E i \in 1..k : /\ round.blocks[i].cid = "NewChannel"
                         /\ e.enabled = dev.enabled
                                \cup (ToSet(round.blocks[i].req) \ RefusedChannels)
  BY <1>6 DEF Obeyed
<1>9. e.adr = dev.adr /\ \A p \in Params : e.val[p] \in {dev.val[p], conf[p]}
  BY DEF Obeyed
<1> QED
  BY <1>2, <1>4, <1>5, <1>7, <1>8, <1>9 DEF Obeyed

\* The answers to the request of channels.
LEMMA SomeAnswers ==
    ASSUME IInv, round.at = "downlink", NEW k \in 1..Len(round.blocks),
           NEW b, b = round.blocks[k], NEW d, Obeyed(d, k - 1), b.cid = "NewChannel",
           NEW e \in Nodes, e.adr = d.adr, e.reset = d.reset, e.val = d.val,
           e.enabled = d.enabled \cup (ToSet(b.req) \ RefusedChannels),
           NEW f \in Seq(Replies), e.answers = d.answers \o f, ChannelsAnswered(b, f)
    PROVE  Obeyed(e, k)
<1> DEFINE s == d.answers
           t == e.answers
           n == Len(s)
           m == Len(b.req)
<1>1. /\ b \in Blocks /\ BlockInv(b)
      /\ pending["NewChannel"] = b /\ b # NoBlock /\ "NewChannel" \notin Sent(k - 1)
      /\ "LinkADR" \notin Sent(k - 1)
      /\ dev.reset /\ ~DisableMACCommands /\ k = 1 => b.cid = "ResetInd"
      /\ DisableMACCommands => b.cid \in ExtCids
      /\ Sent(k) = Sent(k - 1) \cup {"NewChannel"}
  BY SentOK DEF Special
<1>2. ~DisableMACCommands /\ "NewChannel" \notin Asks \cup {"ResetInd"} \cup Params
  BY <1>1, CidsOK DEF OwnCids
<1>3. d \in Nodes /\ s \in Seq(Replies) /\ k \in Int
  <2>1. d \in Nodes
    BY DEF Obeyed
  <2> QED BY <2>1 DEF Nodes
<1>4. Len(f) = m /\ m \in Nat /\ f \in Seq(Replies) /\ t = s \o f
  BY DEF ChannelsAnswered
<1>5. /\ n \in Nat /\ Len(t) = n + m /\ DOMAIN s = 1..n /\ DOMAIN t = 1..(n + m)
      /\ \A i \in 1..n : t[i] = s[i]
      /\ \A i \in 1..m : t[n + i] = f[i]
  <2>1. n \in Nat /\ DOMAIN s = 1..n
    BY <1>3
  <2> HIDE DEF m, s, t
  <2>2. Len(t) = n + m /\ DOMAIN t = 1..(n + m)
    BY <1>3, <1>4
  <2>3. ASSUME NEW i \in 1..n PROVE t[i] = s[i]
    BY <1>3, <1>4
  <2>4. ASSUME NEW i \in 1..m PROVE t[n + i] = f[i]
    BY <1>3, <1>4
  <2> QED BY <2>1, <2>2, <2>3, <2>4
<1>6. ASSUME NEW i \in 1..n
      PROVE  s[i].cid \in Sent(k - 1) /\ ReplyOf(d, s[i]) /\ t[i] = s[i] /\ s[i] \in Replies
  <2>1. i \in DOMAIN s
    BY <1>5
  <2> QED BY <1>3, <1>5, <2>1 DEF Obeyed, CidsOf
<1>7. ASSUME NEW j \in 1..m
      PROVE  t[n + j].cid = "NewChannel" /\ t[n + j].ok = (b.req[j] \notin RefusedChannels)
  BY <1>5 DEF ChannelsAnswered
<1> HIDE DEF s, t, n, m
<1>8. ASSUME NEW i \in DOMAIN t, i \notin 1..n PROVE i - n \in 1..m /\ i = n + (i - n)
  BY <1>4, <1>5, <1>8
<1>9. \A i \in DOMAIN t : i \in 1..n \/ t[i].cid = "NewChannel"
  <2> SUFFICES ASSUME NEW i \in DOMAIN t, i \notin 1..n PROVE t[i].cid = "NewChannel"
    OBVIOUS
  <2>1. PICK j \in 1..m : i = n + j
    BY <1>8
  <2> QED BY <1>7, <2>1
<1>10. ChannelsOf(t, b, e.enabled)
  <2>1. n \in 0..Len(t)
    BY <1>4, <1>5
  <2>2. {i \in DOMAIN t : t[i].cid = "NewChannel"} = (n + 1)..(n + m)
    <3>1. ASSUME NEW i \in DOMAIN t, t[i].cid = "NewChannel" PROVE i \in (n + 1)..(n + m)
      <4>1. i \notin 1..n
        BY <1>1, <1>6, <3>1
      <4> QED BY <1>4, <1>5, <4>1
    <3>2. ASSUME NEW i \in (n + 1)..(n + m) PROVE i \in DOMAIN t /\ t[i].cid = "NewChannel"
      <4>1. i \in DOMAIN t /\ i \notin 1..n
        BY <1>4, <1>5
      <4> QED BY <1>9, <4>1
    <3> QED BY <3>1, <3>2
  <2>3. ToSet(b.req) \ RefusedChannels \subseteq e.enabled
    OBVIOUS
  <2> QED BY <1>7, <2>1, <2>2, <2>3 DEF ChannelsOf, m
<1>11. \A i \in DOMAIN t : ReplyOf(e, t[i])
  <2> SUFFICES ASSUME NEW i \in DOMAIN t PROVE ReplyOf(e, t[i])
    OBVIOUS
  <2>1. CASE i \in 1..n
    <3> DEFINE x == s[i]
    <3>1. x.cid \in Sent(k - 1) /\ ReplyOf(d, x) /\ t[i] = x
      BY <1>6, <2>1
    <3> HIDE DEF x
    <3>2. x.cid # "LinkADR" /\ x.cid # "NewChannel"
      BY <1>1, <3>1
    <3> QED BY <3>1, <3>2 DEF ReplyOf
  <2>2. CASE i \notin 1..n
    <3>1. t[i].cid = "NewChannel"
      BY <1>9, <2>2
    <3> QED BY <1>1, <1>2, <1>10, <3>1 DEF ReplyOf, t
  <2> QED BY <2>1, <2>2
<1>12. OneEach(t)
  <2> SUFFICES ASSUME NEW i \in DOMAIN t, NEW j \in DOMAIN t, t[i].cid = t[j].cid,
                      t[i].cid \in Params \cup {"LinkADR"}
               PROVE  i = j
    BY DEF OneEach
  <2>1. t[i].cid # "NewChannel" /\ t[j].cid # "NewChannel"
    BY <1>2
  <2>2. i \in 1..n /\ j \in 1..n
    BY <1>9, <2>1
  <2>3. OneEach(s)
    BY DEF Obeyed, s
  <2> QED BY <1>5, <1>6, <2>2, <2>3 DEF OneEach
<1>13. CidsOf(t) \subseteq Sent(k) \ (Asks \cup {"ResetInd"})
  <2> SUFFICES ASSUME NEW i \in DOMAIN t
               PROVE  t[i].cid \in Sent(k) \ (Asks \cup {"ResetInd"})
    BY DEF CidsOf
  <2>1. CASE i \in 1..n
    <3>1. s[i].cid \in CidsOf(s)
      BY <1>5, <2>1 DEF CidsOf
    <3>2. CidsOf(s) \subseteq Sent(k - 1) \ (Asks \cup {"ResetInd"})
      BY DEF Obeyed, s
    <3> QED BY <1>1, <1>6, <2>1, <3>1, <3>2
  <2>2. CASE i \notin 1..n
    BY <1>1, <1>2, <1>9, <2>2
  <2> QED BY <2>1, <2>2
<1>14. \A p \in Params : e.val[p] \in {dev.val[p], conf[p]}
  BY DEF Obeyed
<1>15. /\ e.reset => dev.reset
       /\ dev.reset /\ ~e.reset => "ResetInd" \in Sent(k)
       /\ dev.reset /\ ~DisableMACCommands /\ k >= 1 => ~e.reset
  <2>1. k = 1 \/ k - 1 >= 1
    BY <1>3
  <2> QED BY <1>1, <2>1 DEF Obeyed
<1>16. d.enabled = dev.enabled
  <2>1. ASSUME NEW i \in 1..(k - 1)
        PROVE  round.blocks[i].cid # "LinkADR" /\ round.blocks[i].cid # "NewChannel"
    BY <1>1 DEF Sent
  <2> QED BY <2>1 DEF Obeyed
<1>17. \E i \in 1..k : /\ round.blocks[i].cid = "NewChannel"
                       /\ e.enabled = dev.enabled
                              \cup (ToSet(round.blocks[i].req) \ RefusedChannels)
  BY <1>3, <1>16
<1>18. e.adr = dev.adr
  BY DEF Obeyed
<1> QED
  BY <1>2, <1>11, <1>12, <1>13, <1>14, <1>15, <1>17, <1>18 DEF Obeyed, t

\* What the device does with the next request.
LEMMA ObeyStep ==
    ASSUME IInv, round.at = "downlink", NEW k \in 1..Len(round.blocks),
           NEW b, b = round.blocks[k], NEW d, Obeyed(d, k - 1), NEW e, e = Obey(d, b)
    PROVE  Obeyed(e, k)
<1>1. /\ b \in Blocks /\ BlockInv(b) /\ Shape(b)
      /\ b.cid \in Special => pending[b.cid] = b /\ b # NoBlock
  <2>1. /\ b \in Blocks /\ BlockInv(b)
        /\ b.cid \in Special => pending[b.cid] = b /\ b # NoBlock
    BY SentOK
  <2> QED BY <2>1 DEF BlockInv
<1>2. d \in Nodes
  BY DEF Obeyed
<1>3. CASE b.cid \in Params
  <2>0. PICK a \in Replies : ParamAnswered(d, e, b, a)
    BY <1>1, <1>2, <1>3, ParamObeyed
  <2>1. /\ a.cid = b.cid /\ a.of = b.req /\ a.ok = (b.cid \notin RefusedParams)
        /\ e.answers = Append(d.answers, a)
        /\ e.val = IF a.ok THEN [d.val EXCEPT ![b.cid] = b.req[1]] ELSE d.val
    BY <2>0 DEF ParamAnswered
  <2>2. e \in Nodes /\ e.adr = d.adr /\ e.reset = d.reset /\ e.enabled = d.enabled
    BY <1>1, <1>2, <1>3, ParamObeyed
  <2>3. b.req = <<conf[b.cid]>> /\ pending[b.cid] = b /\ b # NoBlock
    BY <1>1, <1>3 DEF BlockInv, Special
  <2>4. b.req[1] = conf[b.cid]
    BY <2>3
  <2>5. b.cid \notin Asks \cup {"ResetInd", "NewChannel", "LinkADR"}
    BY <1>3, CidsOK
  <2>6. d.val \in [Params -> Values]
    BY <1>2 DEF Nodes
  <2>7. \A p \in Params : e.val[p] = d.val[p] \/ (p = b.cid /\ e.val[p] = conf[p])
    BY <2>1, <2>4, <2>6
  <2>8. a.ok => e.val[a.cid] = conf[a.cid]
    BY <1>3, <2>1, <2>4, <2>6
  <2>9. ReplyOf(e, a)
    BY <1>3, <2>1, <2>3, <2>5, <2>8 DEF ReplyOf
  <2>10. a.cid = b.cid /\ e.answers = Append(d.answers, a)
    BY <2>1
  <2>11. b.cid \notin Asks \cup {"ResetInd", "NewChannel"}
    BY <2>5
  <2> QED BY <2>2, <2>7, <2>9, <2>10, <2>11, OneAnswer
<1>4. CASE b.cid = "NewChannel"
  <2>1. PICK f \in Seq(Replies) : e.answers = d.answers \o f /\ ChannelsAnswered(b, f)
    BY <1>1, <1>2, <1>4, ChannelsObeyed
  <2>2. /\ e \in Nodes /\ e.adr = d.adr /\ e.reset = d.reset /\ e.val = d.val
        /\ e.enabled = d.enabled \cup (ToSet(b.req) \ RefusedChannels)
    BY <1>1, <1>2, <1>4, ChannelsObeyed
  <2> QED BY <1>4, <2>1, <2>2, SomeAnswers
<1>5. CASE b.cid = "LinkADR"
  <2>0. PICK a \in Replies : LinkAnswered(d, e, b, a)
    BY <1>1, <1>2, <1>5, LinkObeyed
  <2>1. /\ a.cid = b.cid /\ a.of = b.req /\ e.answers = Append(d.answers, a)
        /\ "dr" \in a.bits <=> d.adr
        /\ "power" \in a.bits <=> (d.adr /\ b.req[2] <= DevMaxPower)
        /\ a.bits \subseteq {"mask", "dr", "power"}
        /\ a.bits = {"mask", "dr", "power"} \/ (~d.adr /\ "mask" \in a.bits) =>
               e.enabled = b.mask
    BY <2>0 DEF LinkAnswered
  <2>2. /\ e \in Nodes /\ e.adr = d.adr /\ e.reset = d.reset /\ e.val = d.val
        /\ e.enabled \in {d.enabled, b.mask}
    BY <1>1, <1>2, <1>5, LinkObeyed
  <2>3. pending["LinkADR"] = b /\ b # NoBlock /\ MaskOK(b.mask)
    BY <1>1, <1>5 DEF BlockInv, Special
  <2>4. b.cid \notin Asks \cup {"ResetInd", "NewChannel"} \cup Params
    BY <1>5, CidsOK
  <2>5. ReplyOf(e, a)
    BY <1>5, <2>1, <2>2, <2>3, <2>4 DEF ReplyOf
  <2> QED BY <1>5, <2>1, <2>2, <2>4, <2>5, OneAnswer
<1>6. CASE b.cid \notin Params \cup {"NewChannel", "LinkADR"}
  <2>1. /\ e \in Nodes /\ e.adr = d.adr /\ e.val = d.val /\ e.enabled = d.enabled
        /\ b.cid = "ResetInd" => ~e.reset /\ e.answers = d.answers
        /\ b.cid \in Asks => e = d
        /\ b.cid # "ResetInd" => e.reset = d.reset
    BY <1>1, <1>2, <1>6, OtherObeyed
  <2>2. CASE b.cid \in Asks \cup {"ResetInd"}
    <3>1. e.answers = d.answers
      BY <2>1, <2>2
    <3>2. IF b.cid = "ResetInd" THEN ~e.reset ELSE e.reset = d.reset
      BY <2>1
    <3> QED BY <2>1, <2>2, <3>1, <3>2, NoAnswer
  <2>3. CASE b.cid \notin Asks \cup {"ResetInd"}
    <3>1. PICK a \in Replies : a.cid = b.cid /\ e.answers = Append(d.answers, a)
      BY <1>1, <1>2, <1>6, <2>3, OtherObeyed
    <3>2. ReplyOf(e, a)
      BY <1>6, <3>1 DEF ReplyOf
    <3>3. e.reset = d.reset /\ b.cid \notin Asks \cup {"ResetInd", "NewChannel"}
      BY <1>6, <2>1, <2>3
    <3> QED BY <2>1, <3>1, <3>2, <3>3, OneAnswer
  <2> QED BY <2>2, <2>3
<1> QED
  BY <1>3, <1>4, <1>5, <1>6

\* The device stays one.
LEMMA ObeyTyped ==
    ASSUME NEW d \in Nodes, NEW b \in Blocks, Shape(b)
    PROVE  Obey(d, b) \in Nodes
<1>1. CASE b.cid \in Params
  BY <1>1, ParamObeyed
<1>2. CASE b.cid = "NewChannel"
  BY <1>2, ChannelsObeyed
<1>3. CASE b.cid = "LinkADR"
  BY <1>3, LinkObeyed
<1>4. CASE b.cid \notin Params \cup {"NewChannel", "LinkADR"}
  BY <1>4, OtherObeyed
<1> QED
  BY <1>1, <1>2, <1>3, <1>4

\* What the device has done after all requests of the downlink.
LEMMA ObeyLoop ==
    ASSUME IInv, round.at = "downlink", NEW d, Obeyed(d, 0)
    PROVE  /\ Obeyed(ObeyAll(d, round.blocks), Len(round.blocks))
           /\ round.blocks = <<>> => ObeyAll(d, round.blocks) = d
<1> DEFINE q == round.blocks
           N == Len(q)
           T == Nodes
           one(x, k) == Obey(x, q[k])
           step == [k \in 1..N |-> [x \in T |-> one(x, k)]]
           D(f) == [n \in 0..N |-> IF n = 0 THEN d ELSE one(f[n - 1], n)]
           after == CHOOSE f : f = D(f)
<1>1. ObeyAll(d, q) = after[N]
  BY DEF ObeyAll
<1>2. q \in Seq(Blocks) /\ N \in Nat /\ d \in T
  <2>1. q \in Seq(Blocks)
    BY DEF IInv, Typed, Rounds
  <2>2. d \in T
    BY DEF Obeyed
  <2> QED BY <2>1, <2>2
<1>3. ASSUME NEW k \in 1..N, NEW x \in T PROVE one(x, k) \in T
  <2>1. k \in 1..Len(round.blocks)
    OBVIOUS
  <2>2. q[k] \in Blocks /\ BlockInv(q[k])
    BY <2>1, SentOK
  <2>3. Shape(q[k])
    BY <2>2 DEF BlockInv
  <2> QED BY <2>2, <2>3, ObeyTyped
<1> HIDE DEF one
<1>4. step \in [1..N -> [T -> T]]
  <2> HIDE DEF T, N
  <2> QED BY <1>3
<1>5. PICK h : IsLoop(h, T, d, step, N)
  <2> HIDE DEF step, T, N
  <2> QED BY <1>2, <1>4, LoopExists
<1>6. h = D(h)
  <2>1. h = [n \in 0..N |-> h[n]] /\ h[0] = d
    BY <1>5 DEF IsLoop
  <2>2. ASSUME NEW k \in 1..N PROVE h[k] = one(h[k - 1], k)
    <3>1. h[k - 1] \in T /\ h[k] = step[k][h[k - 1]]
      <4> HIDE DEF step, T, N
      <4> QED BY <1>2, <1>5 DEF IsLoop
    <3> HIDE DEF T
    <3> QED BY <3>1
  <2>3. \A k \in 0..N : h[k] = IF k = 0 THEN d ELSE one(h[k - 1], k)
    BY <2>1, <2>2
  <2> QED BY <2>1, <2>3
<1>7. after = D(after)
  BY <1>6
<1> HIDE DEF after
<1>8. after[0] = d /\ \A k \in 1..N : after[k] = one(after[k - 1], k)
  <2>1. \A k \in 0..N : after[k] = D(after)[k]
    BY <1>7
  <2>2. N \in Nat
    BY <1>2
  <2>3. after[0] = d
    <3> HIDE DEF N
    <3>1. 0 \in 0..N
      BY <2>2
    <3>2. D(after)[0] = d
      BY <3>1
    <3> QED BY <2>1, <3>1, <3>2
  <2>4. \A k \in 1..N : k \in 0..N /\ k # 0
    BY <2>2
  <2> HIDE DEF N
  <2>5. ASSUME NEW k \in 1..N PROVE after[k] = one(after[k - 1], k)
    BY <2>1, <2>4
  <2> QED BY <2>3, <2>5
<1> DEFINE G == {k \in 0..N : Obeyed(after[k], k)}
<1>9. 0 \in G
  BY <1>2, <1>8
<1>10. ASSUME NEW k \in 1..N, k - 1 \in G PROVE k \in G
  <2>1. Obeyed(after[k - 1], k - 1)
    BY <1>10
  <2>2. after[k] = Obey(after[k - 1], round.blocks[k])
    BY <1>8 DEF one
  <2>3. k \in 1..Len(round.blocks)
    OBVIOUS
  <2>4. Obeyed(after[k], k)
    BY <2>1, <2>2, <2>3, ObeyStep
  <2> QED BY <1>2, <2>4
<1>11. N \in G
  <2> HIDE DEF G, N
  <2> QED BY <1>2, <1>9, <1>10, Induction
<1>12. q = <<>> => N = 0
  OBVIOUS
<1> QED
  BY <1>1, <1>8, <1>11, <1>12

\* Before the first request the device has done nothing.
LEMMA ObeyStarts ==
    ASSUME IInv, NEW d, d = [dev EXCEPT !.answers = <<>>]
    PROVE  Obeyed(d, 0) /\ d.answers = <<>> /\ d.val = dev.val /\ d.enabled = dev.enabled
<1>1. dev \in Nodes
  BY DEF IInv, Typed
<1>2. <<>> \in Seq(Replies) /\ CidsOf(<<>>) = {}
  BY DEF CidsOf
<1>3. /\ d \in Nodes /\ d.answers = <<>> /\ d.val = dev.val /\ d.enabled = dev.enabled
      /\ d.adr = dev.adr /\ d.reset = dev.reset
  BY <1>1, <1>2 DEF Nodes
<1> QED
  BY <1>2, <1>3 DEF Obeyed, OneEach

\* The answers of the device to a downlink.
LEMMA ObeyReplied ==
    ASSUME IInv, round.at = "downlink", NEW N, N = Len(round.blocks),
           Obeyed(dev', N), UNCHANGED <<ds, pending, conf>>
    PROVE  /\ Replied(dev.answers)'
           /\ CidsOf(dev'.answers) \cap (Asks \cup {"ResetInd"}) = {}
           /\ DisableMACCommands \/ N = 0 => CidsOf(dev'.answers) \subseteq ExtCids
<1> DEFINE t == dev'.answers
<1>1. round.blocks \in Seq(Blocks) /\ t \in Seq(Replies)
  <2>1. round.blocks \in Seq(Blocks)
    BY DEF IInv, Typed, Rounds
  <2>2. t \in Seq(Replies)
    BY DEF Obeyed, Nodes
  <2> QED BY <2>1, <2>2
<1>2. Sent(N) = CidsOf(round.blocks)
  BY <1>1 DEF Sent, CidsOf
<1>3. CidsOf(t) \subseteq Sent(N) \ (Asks \cup {"ResetInd"})
  BY DEF Obeyed
<1>4. ASSUME DisableMACCommands \/ N = 0 PROVE CidsOf(t) \subseteq ExtCids
  <2>1. ASSUME NEW i \in 1..N PROVE DisableMACCommands => round.blocks[i].cid \in ExtCids
    BY SentOK
  <2>2. Sent(N) \subseteq ExtCids
    BY <1>4, <2>1 DEF Sent
  <2> QED BY <1>3, <2>2
<1>5. Apart(t)
  <2>1. Apart(round.blocks)
    BY DEF IInv, BlocksInv
  <2> QED BY <1>2, <1>3, <2>1 DEF Apart
<1>6. OneEach(t)
  BY DEF Obeyed
<1>7. ASSUME NEW i \in DOMAIN t PROVE ReplyInv(dev.answers, dev.answers[i])'
  <2> DEFINE a == t[i]
  <2>1. a \in Replies /\ a.cid \in CidsOf(t)
    BY <1>1 DEF CidsOf
  <2>2. ReplyOf(dev', a)
    BY DEF Obeyed
  <2>3. a.cid # "DeviceModeInd"
    <3>1. a.cid \in Cids /\ a.cid \notin Asks
      BY <1>3, <2>1 DEF Replies
    <3> HIDE DEF a
    <3> QED BY <3>1, CidsOK DEF OwnCids
  <2> HIDE DEF t
  <2>4. a.cid \in Params =>
            /\ a.ok <=> a.cid \notin RefusedParams
            /\ a.ok => a.of = <<dev'.val[a.cid]>>
            /\ a.cid \notin Sticky => pending'[a.cid] # NoBlock /\ pending'[a.cid].req = a.of
    BY <2>2 DEF ReplyOf
  <2>5. ASSUME a.cid = "LinkADR"
        PROVE  pending'["LinkADR"] # NoBlock /\ LinkAnswer(dev.answers[i], pending["LinkADR"])'
    <3> HIDE DEF a
    <3>1. /\ pending["LinkADR"] # NoBlock /\ pending["LinkADR"].req = a.of
          /\ "dr" \in a.bits <=> dev'.adr
          /\ "power" \in a.bits <=> (dev'.adr /\ a.of[2] <= DevMaxPower)
          /\ a.bits \subseteq {"mask", "dr", "power"}
          /\ MaskOK(pending["LinkADR"].mask)
          /\ a.bits = {"mask", "dr", "power"} \/ (~dev'.adr /\ "mask" \in a.bits) =>
                 dev'.enabled = pending["LinkADR"].mask
      BY <2>2, <2>5 DEF ReplyOf
    <3>2. MaskOK(pending["LinkADR"].mask)'
      BY <3>1 DEF MaskOK
    <3> QED BY <3>1, <3>2 DEF LinkAnswer, a, t
  <2>6. ASSUME a.cid = "NewChannel"
        PROVE  pending'["NewChannel"] # NoBlock
               /\ ChannelAnswers(dev.answers, pending["NewChannel"])'
    <3>1. pending["NewChannel"] # NoBlock
          /\ ChannelsOf(t, pending["NewChannel"], dev'.enabled)
      BY <2>2, <2>6 DEF ReplyOf, t
    <3> QED BY <3>1 DEF ChannelsOf, ChannelAnswers, t
  <2> QED BY <2>3, <2>4, <2>5, <2>6 DEF ReplyInv, t, a
<1> QED
  BY <1>3, <1>4, <1>5, <1>6, <1>7 DEF Replied

\* ReceiveDownlink keeps the invariant.
LEMMA ReceiveDownlinkKeeps ==
    ASSUME IInv, ReceiveDownlink
    PROVE  IInv'
<1> DEFINE q == round.blocks
           N == Len(q)
           d == [dev EXCEPT !.answers = <<>>]
<1>1. /\ round.at = "downlink" /\ dev' = ObeyAll(d, q) /\ round' = Idle
      /\ UNCHANGED <<ds, mode, pending, queue, conf, blind, refused, changes, calm>>
  BY DEF ReceiveDownlink
<1>2. q \in Seq(Blocks) /\ N \in Nat
  <2>1. q \in Seq(Blocks)
    BY DEF IInv, Typed, Rounds
  <2> QED BY <2>1
<1>3. /\ Obeyed(d, 0) /\ d.answers = <<>> /\ d.val = dev.val /\ d.enabled = dev.enabled
  BY ObeyStarts
<1> HIDE DEF d
<1>4. Obeyed(dev', N) /\ (q = <<>> => dev' = d)
  BY <1>1, <1>3, ObeyLoop
<1>5. Idle.at = "idle" /\ Idle.cmds = <<>> /\ Idle.blocks = <<>> /\ CidsOf(<<>>) = {}
      /\ Idle \in Rounds
  <2>1. <<>> \in Seq(Replies) /\ <<>> \in Seq(Blocks)
    OBVIOUS
  <2> QED BY <2>1 DEF Idle, Rounds, CidsOf
<1>6. /\ dev \in Nodes /\ dev' \in Nodes /\ dev'.adr = dev.adr
      /\ \A p \in Params : dev'.val[p] \in {dev.val[p], conf[p]}
      /\ dev'.reset => dev.reset
      /\ dev.reset /\ ~dev'.reset => "ResetInd" \in Sent(N)
      /\ dev.reset /\ ~DisableMACCommands /\ N >= 1 => ~dev'.reset
      /\ DisableMACCommands =>
             /\ \A p \in Params : dev'.val[p] = dev.val[p]
             /\ dev'.enabled = dev.enabled /\ dev'.reset = dev.reset
      /\ \/ dev'.enabled = dev.enabled
         \/ \E i \in 1..N : round.blocks[i].cid = "LinkADR" /\ dev'.enabled = round.blocks[i].mask
         \/ \E i \in 1..N : /\ round.blocks[i].cid = "NewChannel"
                            /\ dev'.enabled = dev.enabled
                                   \cup (ToSet(round.blocks[i].req) \ RefusedChannels)
  <2>1. dev \in Nodes
    BY DEF IInv, Typed
  <2> HIDE DEF N
  <2> QED BY <1>4, <2>1 DEF Obeyed
<1>7. /\ Replied(dev.answers)'
      /\ CidsOf(dev'.answers) \cap (Asks \cup {"ResetInd"}) = {}
      /\ DisableMACCommands \/ N = 0 => CidsOf(dev'.answers) \subseteq ExtCids
  BY <1>1, <1>4, ObeyReplied
<1> HIDE DEF q, N
\* The confirmation of the reset was in the frame.
<1>8. ASSUME dev.reset, ~dev'.reset PROVE Confirming
  <2>1. ~DisableMACCommands /\ "ResetInd" \in Sent(N)
    BY <1>6, <1>8
  <2>2. N # 0
    BY <2>1 DEF Sent
  <2>3. q # <<>>
    BY <1>2, <2>2 DEF N
  <2> QED BY <1>8, <2>1, <2>3 DEF Confirming, q
<1>9. Typed'
  BY <1>1, <1>5, <1>6 DEF IInv, Typed, SessionOK
<1>10. StageInv'
  BY <1>1, <1>5 DEF StageInv
<1>11. PendingInv' /\ AvoidInv' /\ OnlyRepeatedMisread'
  BY <1>1 DEF IInv, PendingInv, Shape, AvoidInv, Avoids, OnlyRepeatedMisread
<1>12. PowerInv'
  BY <1>1, <1>6 DEF IInv, PowerInv
<1>13. BlocksInv' /\ ~Confirming'
  BY <1>1, <1>5 DEF BlocksInv, Single, Apart, CidsOf, Confirming
<1>14. ReplyFlight'
  <2>1. Replied(round.cmds)'
    BY <1>1, <1>5 DEF Replied, ReplyInv, OneEach, Apart, CidsOf
  <2> QED BY <1>7, <2>1 DEF ReplyFlight
<1>15. ResetInv'
  <2> SUFFICES ASSUME dev'.reset
               PROVE  /\ ~SupportsJoin
                      /\ dev'.val = [p \in Params |-> Boot] /\ dev'.enabled = StandardChannels
                      /\ CidsOf(dev'.answers) \subseteq ExtCids
    BY <1>1, <1>5 DEF ResetInv
  <2>1. DisableMACCommands \/ N = 0
    BY <1>2, <1>6
  <2>2. /\ ~SupportsJoin
        /\ dev.val = [p \in Params |-> Boot] /\ dev.enabled = StandardChannels
    BY <1>6 DEF IInv, ResetInv
  <2>3. (\A p \in Params : dev'.val[p] = dev.val[p]) /\ dev'.enabled = dev.enabled
    <3>1. CASE DisableMACCommands
      BY <1>6, <3>1
    <3>2. CASE N = 0
      <4>1. q = <<>>
        BY <1>2, <3>2 DEF N
      <4> QED BY <1>3, <1>4, <4>1
    <3> QED BY <2>1, <3>1, <3>2
  <2>4. dev'.val \in [Params -> Values] /\ dev.val \in [Params -> Values]
    BY <1>6 DEF Nodes
  <2>5. dev'.val = dev.val
    BY <2>3, <2>4
  <2> QED BY <1>7, <2>1, <2>2, <2>3, <2>5
<1>16. ParamInv'
  <2>1. ASSUME NEW p \in Params, ds.val[p] = conf[p], ~dev'.reset, ~Blind(p)
        PROVE  dev'.val[p] = conf[p]
    <3>1. CASE ~dev.reset
      <4>1. dev.val[p] = conf[p]
        BY <2>1, <3>1 DEF IInv, ParamInv
      <4> QED BY <1>6, <4>1
    <3>2. CASE dev.reset
      <4>1. ds.val[p] = Boot
        BY <1>8, <2>1, <3>2 DEF IInv, ParamInv
      <4>2. dev.val[p] = Boot
        BY <3>2 DEF IInv, ResetInv
      <4> QED BY <1>6, <2>1, <4>1, <4>2
    <3> QED BY <3>1, <3>2
  <2> QED BY <1>1, <1>13, <2>1 DEF ParamInv, Blind
<1>17. ChannelInv'
  <2> SUFFICES ASSUME ~dev'.reset, NEW c \in Channels,
                      ~(c \in ds.enabled <=> c \in dev'.enabled)
               PROVE  c \in CustomChannels \ ds.extra \/ (c \in ds.enabled /\ c \notin Wanted)
    BY <1>1, <1>13 DEF ChannelInv
  <2>1. ~(c \in ds.enabled <=> c \in dev.enabled) =>
            c \in CustomChannels \ ds.extra \/ (c \in ds.enabled /\ c \notin Wanted)
    BY <1>8 DEF IInv, ChannelInv
  <2>2. CASE dev'.enabled = dev.enabled
    BY <2>1, <2>2
  <2>3. ASSUME NEW i \in 1..N, round.blocks[i].cid = "LinkADR",
               dev'.enabled = round.blocks[i].mask
        PROVE  c \in ds.enabled /\ c \notin Wanted
    <3>1. i \in 1..Len(round.blocks)
      BY DEF N, q
    <3>2. BlockInv(round.blocks[i])
      BY <1>1, <3>1, SentOK
    <3>3. MaskOK(dev'.enabled)
      BY <2>3, <3>2 DEF BlockInv
    <3> QED BY <3>3 DEF MaskOK
  <2>4. ASSUME NEW i \in 1..N, round.blocks[i].cid = "NewChannel",
               dev'.enabled = dev.enabled \cup (ToSet(round.blocks[i].req) \ RefusedChannels)
        PROVE  c \in CustomChannels \ ds.extra \/ (c \in ds.enabled /\ c \notin Wanted)
    <3> DEFINE b == round.blocks[i]
    <3>1. i \in 1..Len(round.blocks)
      BY DEF N, q
    <3>2. BlockInv(b)
      BY <1>1, <3>1, SentOK
    <3>3. b.req \in Seq(CustomChannels) /\ ToSet(b.req) \cap ds.extra = {}
      BY <2>4, <3>2 DEF BlockInv, Shape
    <3> HIDE DEF b
    <3>4. ToSet(b.req) \subseteq CustomChannels
      BY <3>3 DEF ToSet
    <3>5. CASE c \in ToSet(b.req)
      BY <3>3, <3>4, <3>5
    <3>6. CASE c \notin ToSet(b.req)
      <4>1. c \in dev'.enabled <=> c \in dev.enabled
        BY <2>4, <3>6 DEF b
      <4> QED BY <2>1, <4>1
    <3> QED BY <3>5, <3>6
  <2> QED BY <1>6, <2>2, <2>3, <2>4
<1> QED
  BY <1>9, <1>10, <1>11, <1>12, <1>13, <1>14, <1>15, <1>16, <1>17 DEF IInv

-----------------------------------------------------------------------------
(* The invariant, and what follows from it *)

\* The states the program starts in.
LEMMA InitOK ==
    ASSUME Init PROVE IInv
<1>1. PICK d \in Devices :
        /\ ds = [val |-> [p \in Params |-> Boot], extra |-> OldChannels,
                 enabled |-> StandardChannels \cup OldChannels, link |-> FullPower,
                 maxPower |-> 0, pingSlotNb |-> 0, adr |-> TRUE,
                 errors |-> [c \in Cids |-> 0], history |-> <<>>]
        /\ mode = "A" /\ queue = <<>> /\ conf = Configured
        /\ pending = [c \in Cids |-> NoBlock]
        /\ dev = [val |-> ds.val, extra |-> OldChannels, enabled |-> ds.enabled,
                  link |-> FullPower, answers |-> <<>>, reset |-> FALSE,
                  adr |-> d.adr, snr |-> d.snr, missed |-> 0]
        /\ round = Idle /\ blind = {} /\ refused = {} /\ changes = 0 /\ calm = FALSE
  BY DEF Init
<1>2. d.adr \in BOOLEAN /\ d.snr \in Int
  <2>1. d \in [adr : BOOLEAN, snr : Int]
    BY MacAssumption
  <2> QED BY <2>1
<1>3. /\ Boot \in Values /\ Configured \in [Params -> Values] /\ MaxErrors \in Nat
      /\ MaxMissed \in Nat /\ MaxChanges \in Nat /\ BandMaxPower \in Nat
  BY MacAssumption
<1>4. MaxNewChannels = 3 /\ RequiredHistory \in Nat \ {0} /\ 0 \in DOMAIN DataRates
  BY AdrAssumption DEF MaxNewChannels
<1>5. FullPower \in Links /\ FullPower.power = 0
  BY <1>3, <1>4 DEF FullPower, Links
<1>6. OldChannels \subseteq Channels /\ StandardChannels \cup OldChannels \subseteq Channels
  BY DEF Channels
<1>7. /\ ds.val = [p \in Params |-> Boot] /\ ds.extra = OldChannels
      /\ ds.enabled = StandardChannels \cup OldChannels /\ ds.link = FullPower
      /\ ds.maxPower = 0 /\ ds.pingSlotNb = 0 /\ ds.adr = TRUE
      /\ ds.errors = [c \in Cids |-> 0] /\ ds.history = <<>>
  BY <1>1
<1>8. /\ dev.val = ds.val /\ dev.enabled = ds.enabled /\ dev.answers = <<>> /\ dev.reset = FALSE
      /\ dev.link = FullPower /\ dev.adr = d.adr
  BY <1>1
<1>9. <<>> \in Seq(Uplinks) /\ <<>> \in Seq(Replies) /\ <<>> \in Seq(Blocks) /\ Len(<<>>) = 0
  OBVIOUS
<1>10. ds \in Sessions
  <2> DEFINE val == [p \in Params |-> Boot]
             errors == [c \in Cids |-> 0]
             enabled == StandardChannels \cup OldChannels
  <2>1. val \in [Params -> Values] /\ errors \in [Cids -> 0..(MaxErrors + MaxNewChannels)]
    BY <1>3, <1>4
  <2>2. enabled \in SUBSET Channels /\ OldChannels \in SUBSET Channels /\ 0 \in 0..BandMaxPower
    BY <1>3, <1>6
  <2>3. ds = [val |-> val, extra |-> OldChannels, enabled |-> enabled, link |-> FullPower,
              maxPower |-> 0, pingSlotNb |-> 0, adr |-> TRUE, errors |-> errors,
              history |-> <<>>]
    BY <1>1
  <2> HIDE DEF val, errors, enabled
  <2> QED BY <1>5, <1>9, <2>1, <2>2, <2>3 DEF Sessions
<1>11. dev \in Nodes
  <2> DEFINE val == ds.val
             enabled == ds.enabled
  <2>1. val \in [Params -> Values] /\ enabled \in SUBSET Channels /\ 0 \in 0..MaxMissed
        /\ OldChannels \in SUBSET Channels
    BY <1>3, <1>6, <1>10 DEF Sessions
  <2>2. dev = [val |-> val, extra |-> OldChannels, enabled |-> enabled,
               link |-> FullPower, answers |-> <<>>, reset |-> FALSE,
               adr |-> d.adr, snr |-> d.snr, missed |-> 0]
    BY <1>1
  <2> HIDE DEF val, enabled
  <2> QED BY <1>2, <1>5, <1>9, <2>1, <2>2 DEF Nodes
<1>12. round = Idle /\ Idle.at = "idle" /\ Idle.cmds = <<>> /\ Idle.blocks = <<>>
       /\ CidsOf(<<>>) = {} /\ Idle \in Rounds
  BY <1>1, <1>9 DEF Idle, Rounds, CidsOf
<1>13. SessionOK(ds)
  <2>1. "ResetInd" \in Cids
    BY DEF Cids
  <2>2. Len(ds.history) <= RequiredHistory
    BY <1>4, <1>7, <1>9
  <2> QED BY <1>7, <1>10, <2>1, <2>2 DEF SessionOK
<1>14. Typed
  <2>1. pending \in [Cids -> Blocks \cup {NoBlock}]
    BY <1>1
  <2>2. queue \in Seq(Blocks) /\ Len(queue) <= changes /\ changes \in 0..MaxChanges
        /\ \A i \in DOMAIN queue : FALSE
    BY <1>1, <1>3, <1>9
  <2> QED BY <1>1, <1>3, <1>11, <1>12, <1>13, <2>1, <2>2 DEF Typed
<1>15. StageInv
  BY <1>8, <1>12 DEF StageInv
<1>16. PendingInv /\ AvoidInv
  <2>1. "LinkADR" \in Cids
    BY DEF Cids
  <2>2. \A c \in Cids : pending[c] = NoBlock
    BY <1>1
  <2> QED BY <2>1, <2>2 DEF PendingInv, AvoidInv
<1>17. PowerInv
  <2>1. 0 <= DevMaxPower
    BY MacAssumption
  <2> QED BY <1>1, <1>5, <1>7, <2>1 DEF PowerInv
<1>18. BlocksInv /\ ~Confirming
  BY <1>8, <1>12 DEF BlocksInv, Single, Apart, CidsOf, Confirming
<1>19. Replied(<<>>)
  BY DEF Replied, ReplyInv, OneEach, Apart, CidsOf
<1>20. ReplyFlight
  BY <1>8, <1>12, <1>19 DEF ReplyFlight
<1>21. ResetInv /\ ParamInv /\ ChannelInv
  BY <1>8, <1>18 DEF ResetInv, ParamInv, ChannelInv
<1>22. OnlyRepeatedMisread
  BY <1>1 DEF OnlyRepeatedMisread
<1> QED
  BY <1>14, <1>15, <1>16, <1>17, <1>18, <1>20, <1>21, <1>22 DEF IInv

\* Every step keeps the invariant.
LEMMA StepKeeps ==
    ASSUME IInv, [Next]_vars PROVE IInv'
<1>1. CASE SendUplink
  BY <1>1, SendUplinkKeeps
<1>2. CASE HandleUplink
  BY <1>2, HandleUplinkKeeps
<1>3. CASE HandleUplinkFails
  BY <1>3, HandleUplinkFailsKeeps
<1>4. CASE setMACCommands \/ setMACCommandsFails
  BY <1>4, setMACCommandsKeeps
<1>5. CASE ReceiveDownlink
  BY <1>5, ReceiveDownlinkKeeps
<1>6. CASE Reconfigure
  BY <1>6, ReconfigureKeeps
<1>7. CASE DeviceResets
  BY <1>7, DeviceResetsKeeps
<1>8. CASE Lost \/ CreateMACCommandQueueItem \/ DeviceBacksOff \/ CalmsDown \/ UNCHANGED vars
  BY <1>8, PassingKeeps
<1> QED
  BY <1>1, <1>2, <1>3, <1>4, <1>5, <1>6, <1>7, <1>8 DEF Next, Exchange

\* The invariant holds in every state that is reached: what the server knows of the
\* device follows from what is pending, on its way, and done by the device.
THEOREM Inductive == Spec => []IInv
<1>1. Init => IInv
  BY InitOK
<1>2. IInv /\ [Next]_vars => IInv'
  BY StepKeeps
<1> QED
  BY <1>1, <1>2, PTL DEF Spec

\* The types of the state; the errors counted against a mac-command stop at the
\* limit, or past it by the channels of one NewChannelReq (Handle, newchannel.go).
THEOREM TypeCorrect == Spec => []TypeOK
<1>1. IInv => TypeOK
  <2> SUFFICES ASSUME IInv PROVE TypeOK
    OBVIOUS
  <2>1. ds \in Sessions /\ dev \in Nodes /\ pending \in [Cids -> Blocks \cup {NoBlock}]
        /\ changes \in 0..MaxChanges /\ MaxChanges \in Nat /\ queue \in Seq(Blocks)
        /\ Len(queue) <= changes
    BY MacAssumption DEF IInv, Typed, SessionOK
  <2>2. Len(queue) \in Nat
    BY <2>1
  <2>3. Len(queue) <= MaxChanges
    BY <2>1, <2>2
  <2>4. /\ ds.val \in [Params -> Values] /\ dev.val \in [Params -> Values]
        /\ \A c \in Cids : ds.errors[c] \in 0..(MaxErrors + MaxNewChannels)
        /\ ds.link \in Links /\ ds.maxPower \in 0..BandMaxPower
    BY <2>1 DEF Sessions, Nodes
  <2>5. /\ ds.link.dr \in DOMAIN DataRates /\ ds.link.nb \in 1..3
        /\ ds.link.power \in 0..BandMaxPower
    BY <2>4 DEF Links
  <2>6. Len(ds.history) <= RequiredHistory /\ ds.extra \subseteq ds.enabled \cup OldChannels
        /\ blind \subseteq Cids \X {"repeated", "reset", "withdrawn"} /\ mode \in {"A", "C"}
    BY DEF IInv, Typed, SessionOK
  <2>7. \A c \in Cids : pending[c] = NoBlock \/ pending[c].cid = c
    BY DEF IInv, PendingInv
  <2> QED BY <2>1, <2>3, <2>4, <2>5, <2>6, <2>7 DEF TypeOK
<1> QED
  BY <1>1, Inductive, PTL

\* The server asks for no channels when the session has them all.
LEMMA NoRequestOfChannels ==
    ASSUME NEW current, RequestNewChannels(current) = <<>>
    PROVE  CustomChannels \subseteq current
<1> DEFINE I == {i \in DOMAIN CustomChannelIndices : CustomChannelIndices[i] \notin current}
           wanted == Pick(CustomChannelIndices, I)
           n == Min({MaxNewChannels, Len(wanted)})
           out == SubSeq(wanted, 1, n)
<1>1. CustomChannelIndices \in Seq(Nat)
  BY MacAssumption
<1>2. /\ wanted \in Seq(Nat)
      /\ \A i \in DOMAIN CustomChannelIndices :
             i \in I => \E j \in DOMAIN wanted : wanted[j] = CustomChannelIndices[i]
  <2> HIDE DEF I
  <2> QED BY <1>1, PickElements
<1>3. out = <<>>
  <2>1. RequestNewChannels(current) = IF out = <<>> THEN <<>> ELSE <<Block("NewChannel", out)>>
    BY DEF RequestNewChannels
  <2> HIDE DEF out
  <2>2. <<Block("NewChannel", out)>> # <<>>
    OBVIOUS
  <2> QED BY <2>1, <2>2
<1> HIDE DEF wanted
<1>4. MaxNewChannels = 3 /\ Len(wanted) \in Nat /\ DOMAIN wanted = 1..Len(wanted)
  BY <1>2 DEF MaxNewChannels
<1>5. n \in {3, Len(wanted)} /\ n <= Len(wanted)
  <2>1. MaxNewChannels \in Int /\ Len(wanted) \in Int
    BY <1>4
  <2>2. n \in {MaxNewChannels, Len(wanted)} /\ n <= Len(wanted)
    BY <2>1, MinTwo
  <2> QED BY <1>4, <2>2
<1> HIDE DEF n
<1>6. Len(out) = n
  <2> HIDE DEF I
  <2>1. wanted \in Seq(Nat)
    BY <1>2
  <2>2. n \in Nat /\ n <= Len(wanted)
    <3>1. Len(wanted) \in Nat
      BY <2>1
    <3> QED BY <1>5, <3>1
  <2> QED BY <2>1, <2>2
<1>7. Len(wanted) = 0
  <2>1. n = 0
    BY <1>3, <1>6
  <2> QED BY <1>5, <2>1
<1>8. \A i \in DOMAIN CustomChannelIndices : i \notin I
  <2> HIDE DEF I
  <2>1. DOMAIN wanted = {}
    BY <1>4, <1>7
  <2> QED BY <1>2, <2>1
<1>9. CustomChannels = {CustomChannelIndices[i] : i \in DOMAIN CustomChannelIndices}
  BY DEF CustomChannels, ToSet
<1> QED
  BY <1>8, <1>9

\* The server is right about the device when it has nothing more to ask for: the
\* parameters that Unset does not name and the channels that no request changes, up
\* to a device that has reset and the reasons in blind.
THEOREM AgreementKept == Spec => []Agreement
<1>1. IInv => Agreement
  <2> SUFFICES ASSUME IInv PROVE ParametersKnown /\ ChannelsKnown
    BY DEF Agreement
  <2>1. ParametersKnown
    BY DEF IInv, ParamInv, ParametersKnown, Unset
  <2>2. ASSUME requestCustomChannelReconfiguration(ds) \o HandleChannelReconfigure(ds) = <<>>,
               ~dev.reset
        PROVE  ds.enabled = dev.enabled
    <3>1. ds \in Sessions /\ dev \in Nodes
      BY DEF IInv, Typed, SessionOK
    <3> DEFINE custom == requestCustomChannelReconfiguration(ds)
               mask == HandleChannelReconfigure(ds)
    <3>2. \E b : custom \in {<<>>, <<b>>}
      BY DEF requestCustomChannelReconfiguration, RequestNewChannels
    <3>3. \E b : mask \in {<<>>, <<b>>}
      BY DEF HandleChannelReconfigure
    <3>4. custom = <<>> /\ mask = <<>>
      <4> HIDE DEF custom, mask
      <4>1. PICK b, c : custom \in {<<>>, <<b>>} /\ mask \in {<<>>, <<c>>}
        BY <3>2, <3>3
      <4> DEFINE S == {b, c}
      <4>2. custom \in Seq(S) /\ mask \in Seq(S)
        <5>1. <<>> \in Seq(S) /\ <<b>> \in Seq(S) /\ <<c>> \in Seq(S)
          OBVIOUS
        <5> HIDE DEF S
        <5> QED BY <4>1, <5>1
      <4>3. custom \o mask = <<>>
        BY <2>2 DEF custom, mask
      <4>4. Len(custom) + Len(mask) = 0
        <5> HIDE DEF S
        <5>1. Len(custom \o mask) = Len(custom) + Len(mask)
          BY <4>2
        <5> QED BY <4>3, <5>1
      <4>5. Len(custom) \in Nat /\ Len(mask) \in Nat
        <5> HIDE DEF S
        <5> QED BY <4>2
      <4>6. Len(custom) = 0 /\ Len(mask) = 0
        BY <4>4, <4>5
      <4> HIDE DEF S
      <4> QED BY <4>2, <4>6
    <3>5. CustomChannels \subseteq ds.extra
      <4>1. RequestNewChannels(CleanChannels(ds).extra) = <<>>
        BY <3>4 DEF requestCustomChannelReconfiguration
      <4>2. CustomChannels \subseteq CleanChannels(ds).extra
        BY <4>1, NoRequestOfChannels
      <4>3. CleanChannels(ds).extra = ds.extra \cap CustomChannels
        BY <3>1 DEF CleanChannels, Sessions
      <4> QED BY <4>2, <4>3
    <3>6. ds.enabled \subseteq Wanted
      <4>1. mask = IF ds.enabled \subseteq Wanted THEN <<>>
                   ELSE <<LinkADRReq(ds.link, ds.enabled \cap Wanted)>>
        BY DEF HandleChannelReconfigure, Wanted
      <4> HIDE DEF mask
      <4>2. <<LinkADRReq(ds.link, ds.enabled \cap Wanted)>> # <<>>
        OBVIOUS
      <4> QED BY <3>4, <4>1, <4>2
    <3>7. \A c \in Channels : c \in ds.enabled <=> c \in dev.enabled
      BY <2>2, <3>5, <3>6 DEF IInv, ChannelInv
    <3>8. ds.enabled \subseteq Channels /\ dev.enabled \subseteq Channels
      BY <3>1 DEF Sessions, Nodes
    <3> QED BY <3>7, <3>8
  <2>3. ChannelsKnown
    BY <2>2 DEF ChannelsKnown
  <2> QED BY <2>1, <2>3
<1> QED
  BY <1>1, Inductive, PTL

\* Of the answers only RXParamSetupAns and RXTimingSetupAns, which a device repeats,
\* are ever read with another request than their own: those of all other commands
\* belong to the request that is pending.
THEOREM OnlyRepeats == Spec => []OnlyRepeatedMisread
<1>1. IInv => OnlyRepeatedMisread
  BY DEF IInv
<1> QED
  BY <1>1, Inductive, PTL

\* The server does not ask for a power index that the device has refused, nor for a
\* higher one.
THEOREM RefusedAvoided == Spec => []RefusedPowerAvoided
<1>1. IInv => RefusedPowerAvoided
  BY DEF IInv, AvoidInv, Avoids, RefusedPowerAvoided
<1> QED
  BY <1>1, Inductive, PTL
=============================================================================
