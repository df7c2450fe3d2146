------------------------- MODULE SessionHeardProofs -------------------------
(***************************************************************************)
(* Two more proofs about SessionStore: its types, for any number of        *)
(* handlers at the same time, and that a device is heard on the session it *)
(* uses, for handlers that run one after the other.                        *)
(***************************************************************************)
EXTENDS SessionStoreProofs, FiniteSetTheorems, FunctionTheorems, WellFoundedInduction

\* A session value is nested at most as deep as the join-server has answered.
SessionTypes ==
    /\ lastKey \in Keys
    /\ session \in SessionsOf[lastKey] \cup {NoSession}
    /\ ds \in [Procs -> SessionsOf[lastKey] \cup {NoSession}]

\* What a handler has in its hands where it is.
Stage(p) ==
    /\ at[p] # "idle" => req[p] \in Requests
    /\ at[p] \in {"joinServer", "send"} => req[p].t \in {"join", "rejoin"}
    /\ at[p] = "joinServer" /\ req[p].t = "rejoin" => ds[p] \in SessionsOf[lastKey]
    /\ at[p] = "updateDevice" /\ req[p].t = "activate" => ds[p] \in SessionsOf[lastKey]
    /\ at[p] \in {"sadd", "saddPending", "set", "send"} =>
         /\ ds[p] \in SessionsOf[lastKey]
         /\ req[p].t = "rejoin" => ds[p].pending # NoSession
    /\ at[p] = "saddPending" => ds[p].pending # NoSession

HandlerTypes ==
    /\ at \in [Procs -> Labels]
    /\ req \in [Procs -> Requests \cup {None}]
    /\ \A p \in Procs : Stage(p)

FlagTypes == disabled \in BOOLEAN /\ asked \in BOOLEAN /\ row \in [Procs -> BOOLEAN]

StoreTypes ==
    /\ activations \in [Nonces -> Nat]
    /\ lock \in Procs \cup {None}
    /\ index \in SUBSET Addrs

DeviceTypes ==
    /\ device \in [addr : Addrs, key : Keys, rj : 0 .. RJMod] \cup {NoSession}
    /\ waiting \in Requests \cup {None}
    /\ sent \in Nonces
    /\ air \in Requests \cup {None}
    /\ accepts \subseteq [for : Requests, addr : Addrs, key : Keys]

TInv == SessionTypes /\ HandlerTypes /\ FlagTypes /\ StoreTypes /\ DeviceTypes

-----------------------------------------------------------------------------
(***************************************************************************)
(* The values of SessionsOf.  The recursion is over the numbers up to      *)
(* MaxKeys; what it defines is shown with the smallest number for which it *)
(* would fail.                                                             *)
(***************************************************************************)

\* A non-empty set of naturals has a smallest element.
LEMMA SmallestExists ==
    ASSUME NEW S \in SUBSET Nat, S # {}
    PROVE  \E x \in S : \A y \in S : x <= y
<1> DEFINE Less == {ss \in Nat \X Nat : ss[1] < ss[2]}
<1>1. IsWellFoundedOn(Less, Nat)
  BY NatLessThanWellFounded DEF OpToRel
<1> HIDE DEF Less
<1>2. PICK x \in S : \A y \in S : <<y, x>> \notin Less
  BY <1>1, WFMin
<1>3. ASSUME NEW y \in Nat, y < x PROVE <<y, x>> \in Less
  BY <1>3 DEF Less
<1>4. \A y \in S : ~(y < x)
  BY <1>2, <1>3
<1> QED BY <1>4

\* Session values whose pending session is in S.
Around(S) ==
    [addr : Addrs, key : Keys, disabled : BOOLEAN, rj : 0 .. RJMod - 1, pending : {NoSession} \cup S]

Below(f, d) == IF d = 0 THEN {} ELSE f[d - 1]

\* There are functions on 0 .. n with the recursion of SessionsOf, for every n.
LEMMA SessionsExist ==
    ASSUME NEW n \in Nat
    PROVE  \E f : f = [d \in 0 .. n |-> Around(Below(f, d))]
<1> DEFINE Good(k) == \E f : f = [d \in 0 .. k |-> Around(Below(f, d))]
           Bad == {k \in Nat : ~ Good(k)}
<1>1. Good(0)
  <2> DEFINE g == [d \in 0 .. 0 |-> Around({})]
  <2>1. \A d \in 0 .. 0 : Below(g, d) = {}
    BY DEF Below
  <2>2. g = [d \in 0 .. 0 |-> Around(Below(g, d))]
    BY <2>1
  <2> QED BY <2>2
<1>2. ASSUME NEW k \in Nat \ {0}, Good(k - 1) PROVE Good(k)
  <2>1. PICK f : f = [d \in 0 .. k - 1 |-> Around(Below(f, d))]
    BY <1>2
  <2> DEFINE g == [d \in 0 .. k |-> IF d = k THEN Around(f[k - 1]) ELSE f[d]]
  <2>2. ASSUME NEW d \in 0 .. k PROVE g[d] = Around(Below(g, d))
    <3>1. CASE d = k
      <4>1. k - 1 \in 0 .. k /\ k - 1 # k /\ k # 0
        OBVIOUS
      <4>2. Below(g, d) = f[k - 1]
        BY <3>1, <4>1 DEF Below
      <4> QED BY <3>1, <4>2
    <3>2. CASE d # k
      <4>1. d \in 0 .. k - 1 /\ g[d] = f[d]
        BY <3>2
      <4>2. d # 0 => d - 1 \in 0 .. k /\ d - 1 # k
        BY <3>2
      <4>3. Below(g, d) = Below(f, d)
        BY <4>2 DEF Below
      <4>4. f[d] = Around(Below(f, d))
        BY <2>1, <4>1
      <4> QED BY <4>1, <4>3, <4>4
    <3> QED BY <3>1, <3>2
  <2>3. g = [d \in 0 .. k |-> g[d]]
    OBVIOUS
  <2> HIDE DEF g
  <2>4. g = [d \in 0 .. k |-> Around(Below(g, d))]
    BY <2>2, <2>3
  <2> QED BY <2>4
<1> HIDE DEF Good
<1>3. SUFFICES ASSUME Bad # {} PROVE FALSE
  BY DEF Good
<1>4. PICK k \in Bad : \A y \in Bad : k <= y
  <2>1. Bad \in SUBSET Nat
    OBVIOUS
  <2> HIDE DEF Bad
  <2> QED BY <1>3, <2>1, SmallestExists
<1>5. k \in Nat \ {0}
  BY <1>1
<1>6. k - 1 \in Nat /\ k - 1 \notin Bad
  BY <1>4, <1>5
<1> QED BY <1>2, <1>5, <1>6

\* The recursion of SessionsOf, unfolded once.
LEMMA SessionsUnfold ==
    ASSUME NEW d \in 0 .. MaxKeys
    PROVE  SessionsOf[d] = Around(IF d = 0 THEN {} ELSE SessionsOf[d - 1])
<1>1. MaxKeys \in Nat
  BY ConstantsOK
<1> DEFINE E(f) == f = [c \in 0 .. MaxKeys |-> Around(Below(f, c))]
<1>2. SessionsOf = CHOOSE f : E(f)
  BY DEF SessionsOf, Around, Below
<1>3. \E f : E(f)
  BY <1>1, SessionsExist
<1>4. E(SessionsOf)
  <2> HIDE DEF E
  <2> QED BY <1>2, <1>3
<1> QED BY <1>4 DEF Below

\* A deeper bound allows more.
LEMMA SessionsGrow ==
    ASSUME NEW c \in 0 .. MaxKeys, NEW d \in 0 .. MaxKeys, c <= d
    PROVE  SessionsOf[c] \subseteq SessionsOf[d]
<1>1. MaxKeys \in Nat
  BY ConstantsOK
<1>2. ASSUME NEW S, NEW T, S \subseteq T PROVE Around(S) \subseteq Around(T)
  BY <1>2 DEF Around
<1> DEFINE Bad == {k \in Nat : k + 1 <= MaxKeys /\ ~(SessionsOf[k] \subseteq SessionsOf[k + 1])}
           Worse == {k \in Nat : c <= k /\ k <= MaxKeys /\ ~(SessionsOf[c] \subseteq SessionsOf[k])}
<1>3. Bad = {}
  <2> SUFFICES ASSUME Bad # {} PROVE FALSE
    OBVIOUS
  <2>1. PICK k \in Bad : \A y \in Bad : k <= y
    <3>1. Bad \in SUBSET Nat
      OBVIOUS
    <3> HIDE DEF Bad
    <3> QED BY <3>1, SmallestExists
  <2>2. k \in 0 .. MaxKeys /\ k + 1 \in 0 .. MaxKeys /\ k + 1 # 0 /\ (k + 1) - 1 = k
    BY <1>1, <2>1
  <2>3. SessionsOf[k + 1] = Around(SessionsOf[k])
    BY <2>2, SessionsUnfold
  <2>4. CASE k = 0
    <3>1. SessionsOf[k] = Around({})
      BY <2>2, <2>4, SessionsUnfold
    <3> QED BY <1>2, <2>1, <2>3, <3>1
  <2>5. CASE k # 0
    <3>1. SessionsOf[k] = Around(SessionsOf[k - 1])
      BY <2>2, <2>5, SessionsUnfold
    <3>2. k - 1 \in Nat /\ (k - 1) + 1 = k /\ k <= MaxKeys /\ k - 1 \notin Bad
      BY <1>1, <2>1, <2>2, <2>5
    <3>3. SessionsOf[k - 1] \subseteq SessionsOf[k]
      BY <3>2
    <3> QED BY <1>2, <2>1, <2>3, <3>1, <3>3
  <2> QED BY <2>4, <2>5
<1>4. Worse = {}
  <2> SUFFICES ASSUME Worse # {} PROVE FALSE
    OBVIOUS
  <2>1. PICK k \in Worse : \A y \in Worse : k <= y
    <3>1. Worse \in SUBSET Nat
      OBVIOUS
    <3> HIDE DEF Worse
    <3> QED BY <3>1, SmallestExists
  <2>2. k # c
    BY <2>1
  <2>3. k - 1 \in Nat /\ c <= k - 1 /\ k - 1 <= MaxKeys /\ (k - 1) + 1 = k /\ k - 1 \notin Worse
    BY <1>1, <2>1, <2>2
  <2>4. SessionsOf[c] \subseteq SessionsOf[k - 1]
    BY <2>3
  <2>5. SessionsOf[k - 1] \subseteq SessionsOf[k]
    BY <1>3, <2>1, <2>3
  <2> QED BY <2>1, <2>4, <2>5
<1> QED BY <1>1, <1>4

-----------------------------------------------------------------------------
(***************************************************************************)
(* The types, for any number of handlers.                                  *)
(***************************************************************************)

\* What a session value is made of.
LEMMA SessionParts ==
    ASSUME NEW d \in 0 .. MaxKeys, NEW s \in SessionsOf[d]
    PROVE  /\ s.addr \in Addrs /\ s.key \in Keys /\ s.disabled \in BOOLEAN
           /\ s.rj \in 0 .. RJMod - 1
           /\ s = [addr |-> s.addr, key |-> s.key, disabled |-> s.disabled, rj |-> s.rj,
                   pending |-> s.pending]
           /\ s.pending # NoSession => s.pending \in SessionsOf[d]
<1> DEFINE B == IF d = 0 THEN {} ELSE SessionsOf[d - 1]
<1>1. MaxKeys \in Nat
  BY ConstantsOK
<1>2. SessionsOf[d] = Around(B)
  BY SessionsUnfold
<1>3. B \subseteq SessionsOf[d]
  <2>1. CASE d = 0
    BY <2>1
  <2>2. CASE d # 0
    <3>1. d - 1 \in 0 .. MaxKeys /\ d - 1 <= d
      BY <1>1, <2>2
    <3> QED BY <2>2, <3>1, SessionsGrow
  <2> QED BY <2>1, <2>2
<1> HIDE DEF B
<1>4. s \in Around(B)
  BY <1>2
<1> QED BY <1>3, <1>4 DEF Around

\* A session without a pending one has every depth.
LEMMA NewSessionTyped ==
    ASSUME NEW d \in 0 .. MaxKeys, NEW a \in Addrs, NEW k \in Keys, NEW b \in BOOLEAN
    PROVE  NewSession(a, k, b) \in SessionsOf[d]
<1>1. SessionsOf[d] = Around(IF d = 0 THEN {} ELSE SessionsOf[d - 1])
  BY SessionsUnfold
<1>2. 0 \in 0 .. RJMod - 1
  BY ConstantsOK
<1> QED BY <1>1, <1>2 DEF Around, NewSession

\* The fields of a session may change within their types.
LEMMA ChangedSession ==
    ASSUME NEW d \in 0 .. MaxKeys, NEW s \in SessionsOf[d], NEW a \in Addrs, NEW k \in Keys,
           NEW b \in BOOLEAN, NEW r \in 0 .. RJMod - 1
    PROVE  /\ [s EXCEPT !.disabled = b] \in SessionsOf[d]
           /\ [s EXCEPT !.rj = r] \in SessionsOf[d]
           /\ [s EXCEPT !.addr = a, !.key = k, !.rj = r] \in SessionsOf[d]
<1> DEFINE B == IF d = 0 THEN {} ELSE SessionsOf[d - 1]
<1>1. SessionsOf[d] = Around(B)
  BY SessionsUnfold
<1> HIDE DEF B
<1>2. s \in Around(B)
  BY <1>1
<1>3. [s EXCEPT !.disabled = b] \in Around(B)
  BY <1>2 DEF Around
<1>4. [s EXCEPT !.rj = r] \in Around(B)
  BY <1>2 DEF Around
<1>5. [s EXCEPT !.addr = a, !.key = k, !.rj = r] \in Around(B)
  BY <1>2 DEF Around
<1> QED BY <1>1, <1>3, <1>4, <1>5

\* A pending session makes a session one deeper.
LEMMA NestedSession ==
    ASSUME NEW d \in 0 .. MaxKeys, d + 1 <= MaxKeys, NEW s \in SessionsOf[d], NEW x \in SessionsOf[d]
    PROVE  [s EXCEPT !.pending = x] \in SessionsOf[d + 1]
<1>1. MaxKeys \in Nat
  BY ConstantsOK
<1>2. d + 1 \in 0 .. MaxKeys /\ d + 1 # 0 /\ (d + 1) - 1 = d /\ d <= d + 1
  BY <1>1
<1>3. SessionsOf[d + 1] = Around(SessionsOf[d])
  BY <1>2, SessionsUnfold
<1>4. s \in Around(SessionsOf[d])
  BY <1>2, <1>3, SessionsGrow
<1> QED BY <1>3, <1>4 DEF Around

\* What a request is made of.
LEMMA RequestParts ==
    ASSUME NEW m \in Requests
    PROVE  /\ m.t \in {"join", "rejoin", "data", "response", "update", "activate"}
           /\ m.t = "join" => m.nonce \in Nonces
           /\ m.t = "rejoin" => m.type \in {0, 2} /\ m.rj \in 0 .. RJMod /\ m.key \in Keys
           /\ m.t \in {"data", "response"} => m.addr \in Addrs /\ m.key \in Keys
           /\ m.t = "update" => m.disabled \in BOOLEAN
           /\ m.t = "activate" => m.addr \in Addrs
BY DEF Requests

\* The types hold initially.
LEMMA InitTInv == Init => TInv
<1> SUFFICES ASSUME Init PROVE TInv
  OBVIOUS
<1>1. /\ MaxKeys \in Nat /\ MaxNonce \in Nat
  BY ConstantsOK
<1>2. SessionTypes
  BY <1>1 DEF Init, SessionTypes, Keys
<1>3. HandlerTypes
  BY DEF Init, HandlerTypes, Stage, Labels
<1>4. FlagTypes
  BY Zenon DEF Init, FlagTypes
<1>5. StoreTypes
  BY DEF Init, StoreTypes
<1>6. DeviceTypes
  BY <1>1 DEF Init, DeviceTypes, Nonces
<1> QED BY <1>2, <1>3, <1>4, <1>5, <1>6 DEF TInv

\* A step of a handler leaves what the other handlers have alone.
Private(p) ==
    /\ at' = [at EXCEPT ![p] = at'[p]]
    /\ req' = [req EXCEPT ![p] = req'[p]]
    /\ row' = [row EXCEPT ![p] = row'[p]]
    /\ ds' = [ds EXCEPT ![p] = ds'[p]]

\* What a step of a handler has to show for the types of the handlers.
LEMMA PrivateTypes ==
    ASSUME SessionTypes, HandlerTypes, NEW p \in Procs, Private(p),
           lastKey' \in Keys, lastKey <= lastKey',
           session' \in SessionsOf[lastKey'] \cup {NoSession},
           at'[p] \in Labels, req'[p] \in Requests \cup {None},
           ds'[p] \in SessionsOf[lastKey'] \cup {NoSession}, Stage(p)'
    PROVE  SessionTypes' /\ HandlerTypes'
<1>1. SessionsOf[lastKey] \subseteq SessionsOf[lastKey']
  BY SessionsGrow DEF SessionTypes, Keys
<1>2. SessionTypes'
  BY <1>1 DEF SessionTypes, Private
<1>3. ASSUME NEW q \in Procs, q # p PROVE Stage(q)'
  <2>1. at'[q] = at[q] /\ req'[q] = req[q] /\ ds'[q] = ds[q] /\ Stage(q)
    BY <1>3 DEF Private, HandlerTypes, SessionTypes
  <2> QED BY <1>1, <2>1 DEF Stage
<1>4. at' \in [Procs -> Labels] /\ req' \in [Procs -> Requests \cup {None}]
  BY DEF Private, HandlerTypes
<1> QED BY <1>2, <1>3, <1>4 DEF HandlerTypes

\* A handler that ends, whatever it was.
LEMMA FinishTypes ==
    ASSUME SessionTypes, HandlerTypes, NEW p \in Procs, row = [q \in Procs |-> row[q]], Finish(p),
           session' \in SessionsOf[lastKey] \cup {NoSession}, lastKey' = lastKey
    PROVE  SessionTypes' /\ HandlerTypes'
<1>1. at'[p] = "idle" /\ req'[p] = None /\ ds'[p] = NoSession
  BY DEF Finish, Goto, SessionTypes, HandlerTypes
<1>2. Private(p)
  BY DEF Finish, Goto, SessionTypes, HandlerTypes, Private
<1>3. Stage(p)'
  BY <1>1 DEF Stage
<1>4. lastKey \in Keys /\ lastKey <= lastKey
  BY ConstantsOK DEF SessionTypes, Keys
<1> QED BY <1>1, <1>2, <1>3, <1>4, PrivateTypes DEF Labels

\* A handler that goes on with the request and the session it has.
LEMMA GotoTypes ==
    ASSUME SessionTypes, HandlerTypes, NEW p \in Procs, row = [q \in Procs |-> row[q]],
           row' = [row EXCEPT ![p] = row'[p]], NEW l \in Labels, Goto(p, l),
           UNCHANGED <<req, ds, lastKey>>, session' \in SessionsOf[lastKey] \cup {NoSession},
           Stage(p)'
    PROVE  SessionTypes' /\ HandlerTypes'
<1>1. at'[p] = l /\ req'[p] = req[p] /\ ds'[p] = ds[p]
  BY DEF Goto, HandlerTypes
<1>2. Private(p)
  BY DEF Goto, SessionTypes, HandlerTypes, Private
<1>3. lastKey \in Keys /\ lastKey <= lastKey
  BY ConstantsOK DEF SessionTypes, Keys
<1>4. req[p] \in Requests \cup {None} /\ ds[p] \in SessionsOf[lastKey] \cup {NoSession}
  BY DEF SessionTypes, HandlerTypes
<1> QED BY <1>1, <1>2, <1>3, <1>4, PrivateTypes

\* A handler that goes on with another session value.
LEMMA TakeTypes ==
    ASSUME SessionTypes, HandlerTypes, NEW p \in Procs, row = [q \in Procs |-> row[q]],
           row' = [row EXCEPT ![p] = row'[p]], NEW l \in {"joinServer", "sadd", "updateDevice"},
           Goto(p, l), UNCHANGED <<req, session>>, lastKey' \in Keys, lastKey <= lastKey',
           NEW s \in SessionsOf[lastKey'], ds' = [ds EXCEPT ![p] = s],
           req[p] \in Requests, l = "joinServer" => req[p].t \in {"join", "rejoin"},
           l = "sadd" /\ req[p].t = "rejoin" => s.pending # NoSession
    PROVE  SessionTypes' /\ HandlerTypes'
<1>1. at'[p] = l /\ req'[p] = req[p] /\ ds'[p] = s
  BY DEF Goto, HandlerTypes, SessionTypes
<1>2. Private(p)
  BY DEF Goto, SessionTypes, HandlerTypes, Private
<1>3. session' \in SessionsOf[lastKey'] \cup {NoSession}
  <2>1. SessionsOf[lastKey] \subseteq SessionsOf[lastKey']
    BY SessionsGrow DEF SessionTypes, Keys
  <2> QED BY <2>1 DEF SessionTypes
<1>4. Stage(p)'
  BY <1>1 DEF Stage
<1> QED BY <1>1, <1>2, <1>3, <1>4, PrivateTypes DEF Labels

\* Every step of a handler keeps the types of sessions and handlers.
LEMMA StepTypes ==
    ASSUME TInv, NonceInv, NEW p \in Procs, Step(p)
    PROVE  SessionTypes' /\ HandlerTypes'
<1>0. /\ SessionTypes /\ HandlerTypes /\ Stage(p) /\ at[p] \in Labels
      /\ row = [q \in Procs |-> row[q]] /\ row = [row EXCEPT ![p] = row[p]]
      /\ req[p] \in Requests \cup {None} /\ ds[p] \in SessionsOf[lastKey] \cup {NoSession}
  BY DEF TInv, FlagTypes, HandlerTypes, SessionTypes
<1>1. /\ lastKey \in 0 .. MaxKeys /\ lastKey <= lastKey /\ lastKey \in Keys /\ MaxKeys \in Nat
      /\ session \in SessionsOf[lastKey] \cup {NoSession}
      /\ session \in SessionsOf[lastKey] \cup {NoSession}
  BY <1>0, ConstantsOK DEF SessionTypes, Keys
<1>2. at[p] = "validateNonce" => req[p].t = "join"
  BY DEF NonceInv
<1>3. Return(p) => SessionTypes' /\ HandlerTypes'
  BY <1>0, <1>1, FinishTypes DEF Return
<1>4. CASE HandleFrame(p) \/ HandleAPI(p)
  <2>1. /\ at'[p] \in {"smembers", "getDevice", "updateDevice"} /\ req'[p] \in Requests
        /\ at'[p] = "updateDevice" => req'[p].t = "update"
    <3>1. CASE HandleFrame(p)
      BY <1>0, <3>1 DEF HandleFrame, Goto, TInv, DeviceTypes, HandlerTypes
    <3>2. CASE HandleAPI(p)
      <4>1. \A d \in BOOLEAN : [t |-> "update", disabled |-> d] \in Requests
        BY DEF Requests
      <4>2. \A a \in Addrs : [t |-> "activate", addr |-> a] \in Requests
        BY DEF Requests
      <4> QED BY <1>0, <3>2, <4>1, <4>2 DEF HandleAPI, Goto, HandlerTypes
    <3> QED BY <1>4, <3>1, <3>2
  <2>2. Private(p)
    BY <1>0, <1>4 DEF HandleFrame, HandleAPI, Goto, Private, HandlerTypes, SessionTypes
  <2>3. UNCHANGED <<session, ds, lastKey>>
    BY <1>4 DEF HandleFrame, HandleAPI, stores
  <2>4. Stage(p)'
    BY <2>1 DEF Stage
  <2> QED BY <1>0, <1>1, <2>1, <2>2, <2>3, <2>4, PrivateTypes DEF Labels
<1>5. CASE Fail(p)
  BY <1>3, <1>5 DEF Fail
<1>6. CASE JoinGetDevice(p)
  <2>1. CASE disabled
    BY <1>3, <1>6, <2>1 DEF JoinGetDevice
  <2>2. CASE ~ disabled
    <3>1. /\ Goto(p, "validateNonce") /\ UNCHANGED <<session, req, ds, lastKey>>
          /\ at[p] = "getDevice"
      BY <1>6, <2>2 DEF JoinGetDevice
    <3>2. row' = [row EXCEPT ![p] = row'[p]]
      BY <1>0, <1>6, <2>2 DEF JoinGetDevice
    <3>3. Stage(p)'
      BY <1>0, <3>1 DEF Stage, Goto, HandlerTypes
    <3> QED BY <1>0, <1>1, <3>1, <3>2, <3>3, GotoTypes DEF Labels
  <2> QED BY <2>1, <2>2
<1>7. CASE ValidateDevNonce(p)
  <2>1. CASE activations[req[p].nonce] # 0
    BY <1>3, <1>7, <2>1 DEF ValidateDevNonce
  <2>2. CASE activations[req[p].nonce] = 0
    <3>1. /\ Goto(p, "joinServer") /\ UNCHANGED <<session, req, ds, lastKey, row>>
          /\ at[p] = "validateNonce"
      BY <1>7, <2>2 DEF ValidateDevNonce, stores
    <3>2. Stage(p)'
      BY <1>0, <1>2, <3>1 DEF Stage, Goto, HandlerTypes
    <3> QED BY <1>0, <1>1, <3>1, <3>2, GotoTypes DEF Labels
  <2> QED BY <2>1, <2>2
<1>8. CASE JoinServerAnswers(p)
  <2>1. PICK a \in Addrs : ds' = [ds EXCEPT ![p] = NewSession(a, lastKey', FALSE)]
    BY <1>8 DEF JoinServerAnswers
  <2>2. lastKey' \in Keys /\ lastKey <= lastKey' /\ lastKey' \in 0 .. MaxKeys
    BY <1>1, <1>8 DEF JoinServerAnswers, Keys
  <2>3. NewSession(a, lastKey', FALSE) \in SessionsOf[lastKey']
    BY <2>2, NewSessionTyped
  <2> QED BY <1>0, <1>1, <1>8, <2>1, <2>2, <2>3, TakeTypes DEF JoinServerAnswers, stores, Stage
<1>9. CASE JoinCommits(p)
  BY <1>0, <1>1, <1>9, FinishTypes DEF JoinCommits
<1>10. CASE RejoinGetDevice(p)
  <2>1. CASE disabled
    BY <1>3, <1>10, <2>1 DEF RejoinGetDevice
  <2>2. CASE ~ disabled
    <3>1. /\ Goto(p, "getSession") /\ UNCHANGED <<session, req, ds, lastKey, row>>
          /\ at[p] = "getDevice"
      BY <1>10, <2>2 DEF RejoinGetDevice, stores
    <3>2. Stage(p)'
      BY <1>0, <3>1 DEF Stage, Goto, HandlerTypes
    <3> QED BY <1>0, <1>1, <3>1, <3>2, GotoTypes DEF Labels
  <2> QED BY <2>1, <2>2
<1>11. CASE RejoinGetSession(p)
  <2> DEFINE s == [session EXCEPT !.rj = NextRejoinCount(req[p].rj)]
  <2>1. CASE session = NoSession \/ ~ RejoinValid(session, req[p])
    BY <1>3, <1>11, <2>1 DEF RejoinGetSession
  <2>2. CASE session # NoSession /\ RejoinValid(session, req[p])
    <3>1. /\ Goto(p, "joinServer") /\ UNCHANGED <<session, req, lastKey, row>>
          /\ at[p] = "getSession" /\ req[p].t = "rejoin" /\ ds' = [ds EXCEPT ![p] = s]
      BY <1>11, <2>2 DEF RejoinGetSession, stores
    <3>2. req[p] \in Requests
      BY <1>0, <3>1 DEF Stage
    <3>3. req[p].rj \in 0 .. RJMod
      BY <3>1, <3>2, RequestParts
    <3>4. NextRejoinCount(req[p].rj) \in 0 .. RJMod - 1
      <4>1. req[p].rj + 1 \in Nat /\ RJMod \in Nat /\ RJMod > 0
        BY <3>3, ConstantsOK
      <4> QED BY <4>1 DEF NextRejoinCount
    <3>5. s \in SessionsOf[lastKey]
      <4>1. session \in SessionsOf[lastKey]
        BY <1>1, <2>2
      <4>2. session.addr \in Addrs /\ session.key \in Keys /\ session.disabled \in BOOLEAN
        BY <1>1, <4>1, SessionParts
      <4> QED BY <1>1, <3>4, <4>1, <4>2, ChangedSession
    <3> QED BY <1>0, <1>1, <3>1, <3>2, <3>5, TakeTypes
  <2> QED BY <2>1, <2>2
<1>12. CASE RejoinServerAnswers(p)
  <2>1. PICK a \in Addrs :
          ds' = [ds EXCEPT ![p].pending = PendingSession(ds[p], req[p].type, a, lastKey')]
    BY <1>12 DEF RejoinServerAnswers
  <2> DEFINE x == PendingSession(ds[p], req[p].type, a, lastKey')
             s == [ds[p] EXCEPT !.pending = x]
  <2>2. /\ lastKey' \in Keys /\ lastKey <= lastKey' /\ lastKey' \in 0 .. MaxKeys
        /\ lastKey' = lastKey + 1 /\ lastKey + 1 <= MaxKeys
    BY <1>1, <1>12 DEF RejoinServerAnswers, Keys
  <2>3. /\ ds[p] \in SessionsOf[lastKey] /\ req[p] \in Requests /\ req[p].t = "rejoin"
        /\ Goto(p, "sadd") /\ UNCHANGED <<session, req, row>>
    BY <1>0, <1>12 DEF RejoinServerAnswers, Stage, stores
  <2>4. x \in SessionsOf[lastKey]
    <3>1. NewSession(a, lastKey', FALSE) \in SessionsOf[lastKey]
      BY <1>1, <2>2, NewSessionTyped
    <3>2. [ds[p] EXCEPT !.addr = a, !.key = lastKey', !.rj = 0] \in SessionsOf[lastKey]
      <4>1. 0 \in 0 .. RJMod - 1
        BY ConstantsOK
      <4> QED BY <1>1, <2>2, <2>3, <4>1, ChangedSession
    <3> QED BY <3>1, <3>2 DEF PendingSession
  <2>5. s \in SessionsOf[lastKey'] /\ s.pending # NoSession
    <3>1. s \in SessionsOf[lastKey']
      BY <1>1, <2>2, <2>3, <2>4, NestedSession
    <3>2. s.pending = x
      <4>1. ds[p] = [addr |-> ds[p].addr, key |-> ds[p].key, disabled |-> ds[p].disabled,
                     rj |-> ds[p].rj, pending |-> ds[p].pending]
        BY <1>1, <2>3, SessionParts
      <4> HIDE DEF x
      <4> QED BY <4>1
    <3>3. x # NoSession
      <4>1. SessionsOf[lastKey] \subseteq SessionsOf[MaxKeys]
        BY <1>1, SessionsGrow
      <4> QED BY <2>4, <4>1, NothingApart
    <3> QED BY <3>1, <3>2, <3>3
  <2>6. ds' = [ds EXCEPT ![p] = s]
    BY <1>0, <2>1 DEF SessionTypes
  <2> HIDE DEF s
  <2> QED BY <1>0, <1>1, <2>2, <2>3, <2>5, <2>6, TakeTypes
<1>13. CASE SMembers(p)
  <2>1. CASE req[p].addr \notin index
    BY <1>3, <1>13, <2>1 DEF SMembers
  <2>2. CASE req[p].addr \in index
    <3>1. /\ Goto(p, "get") /\ UNCHANGED <<session, req, ds, lastKey, row>> /\ at[p] = "smembers"
      BY <1>13, <2>2 DEF SMembers, stores
    <3>2. Stage(p)'
      BY <1>0, <3>1 DEF Stage, Goto, HandlerTypes
    <3> QED BY <1>0, <1>1, <3>1, <3>2, GotoTypes DEF Labels
  <2> QED BY <2>1, <2>2
<1>14. CASE UplinkGet(p)
  <2>1. CASE session = NoSession
    <3>1. /\ Goto(p, "srem") /\ UNCHANGED <<session, req, ds, lastKey, row>> /\ at[p] = "get"
      BY <1>14, <2>1 DEF UplinkGet, stores
    <3>2. Stage(p)'
      BY <1>0, <3>1 DEF Stage, Goto, HandlerTypes
    <3> QED BY <1>0, <1>1, <3>1, <3>2, GotoTypes DEF Labels
  <2>2. CASE /\ session # NoSession
             /\ \A s \in Matching(session, req[p].addr, req[p].key) : s.disabled
    BY <1>3, <1>14, <2>2 DEF UplinkGet
  <2>3. CASE /\ session # NoSession
             /\ ~ \A s \in Matching(session, req[p].addr, req[p].key) : s.disabled
    <3>1. PICK s \in Matching(session, req[p].addr, req[p].key) : ds' = [ds EXCEPT ![p] = s]
      BY <1>14, <2>3 DEF UplinkGet
    <3>2. /\ Goto(p, "sadd") /\ UNCHANGED <<session, req, lastKey, row>> /\ at[p] = "get"
      BY <1>14, <2>3 DEF UplinkGet, stores
    <3>3. s \in SessionsOf[lastKey]
      <4>1. session \in SessionsOf[lastKey]
        BY <1>1, <2>3
      <4>2. session.pending # NoSession => session.pending \in SessionsOf[lastKey]
        BY <1>1, <4>1, SessionParts
      <4> QED BY <2>3, <3>1, <4>1, <4>2 DEF Matching
    <3>4. req[p] \in Requests /\ req[p].t = "data"
      BY <1>0, <3>2 DEF Stage, NonceInv
    <3> QED BY <1>0, <1>1, <3>1, <3>2, <3>3, <3>4, TakeTypes
  <2> QED BY <2>1, <2>2, <2>3
<1>15. CASE SRem(p)
  BY <1>0, <1>1, <1>15, FinishTypes DEF SRem
<1>16. CASE UpdateDevice(p)
  <2>1. /\ Goto(p, "getSession") /\ UNCHANGED <<session, req, ds, lastKey>> /\ at[p] = "updateDevice"
    BY <1>16 DEF UpdateDevice
  <2>2. row' = [row EXCEPT ![p] = row'[p]]
    BY <1>0, <1>16 DEF UpdateDevice
  <2>3. Stage(p)'
    BY <1>0, <2>1 DEF Stage, Goto, HandlerTypes
  <2> QED BY <1>0, <1>1, <2>1, <2>2, <2>3, GotoTypes DEF Labels
<1>17. CASE UpdateGetSession(p)
  <2>1. UNCHANGED <<session, req, lastKey, row>> /\ at[p] = "getSession" /\ req[p].t = "update"
    BY <1>17 DEF UpdateGetSession, stores
  <2>2. CASE session = NoSession
    <3>1. Goto(p, "commit") /\ UNCHANGED ds
      BY <1>17, <2>2 DEF UpdateGetSession
    <3>2. Stage(p)'
      BY <1>0, <2>1, <3>1 DEF Stage, Goto, HandlerTypes
    <3> QED BY <1>0, <1>1, <2>1, <3>1, <3>2, GotoTypes DEF Labels
  <2>3. CASE session # NoSession
    <3> DEFINE s == [session EXCEPT !.disabled = req[p].disabled]
    <3>1. Goto(p, "sadd") /\ ds' = [ds EXCEPT ![p] = s]
      BY <1>17, <2>3 DEF UpdateGetSession
    <3>2. req[p] \in Requests /\ session \in SessionsOf[lastKey]
      BY <1>0, <1>1, <2>1, <2>3 DEF Stage
    <3>3. s \in SessionsOf[lastKey]
      <4>1. req[p].disabled \in BOOLEAN
        BY <2>1, <3>2, RequestParts
      <4>2. session.addr \in Addrs /\ session.key \in Keys /\ session.rj \in 0 .. RJMod - 1
        BY <1>1, <3>2, SessionParts
      <4> QED BY <1>1, <3>2, <4>1, <4>2, ChangedSession
    <3> HIDE DEF s
    <3> QED BY <1>0, <1>1, <2>1, <3>1, <3>2, <3>3, TakeTypes
  <2> QED BY <2>2, <2>3
<1>18. CASE UpdateCommits(p)
  BY <1>0, <1>1, <1>18, FinishTypes DEF UpdateCommits
<1>19. CASE ActivateGetDevice(p)
  <2> DEFINE s == NewSession(req[p].addr, 0, disabled)
  <2>1. /\ Goto(p, "updateDevice") /\ UNCHANGED <<session, req, lastKey>> /\ at[p] = "getDevice"
        /\ req[p].t = "activate" /\ ds' = [ds EXCEPT ![p] = s]
    BY <1>19 DEF ActivateGetDevice, stores
  <2>2. req[p] \in Requests
    BY <1>0, <2>1 DEF Stage
  <2>3. s \in SessionsOf[lastKey]
    <3>1. disabled \in BOOLEAN /\ req[p].addr \in Addrs /\ 0 \in Keys
      BY <1>1, <2>1, <2>2, RequestParts DEF TInv, FlagTypes, Keys
    <3> QED BY <1>1, <3>1, NewSessionTyped
  <2>4. row' = [row EXCEPT ![p] = row'[p]]
    BY <1>0, <1>19 DEF ActivateGetDevice
  <2> HIDE DEF s
  <2> QED BY <1>0, <1>1, <2>1, <2>2, <2>3, <2>4, TakeTypes
<1>20. CASE ActivateUpdateDevice(p)
  <2>1. /\ Goto(p, "sadd") /\ UNCHANGED <<session, req, ds, row, lastKey>>
        /\ at[p] = "updateDevice" /\ req[p].t = "activate"
    BY <1>20 DEF ActivateUpdateDevice
  <2>2. Stage(p)'
    BY <1>0, <2>1 DEF Stage, Goto, HandlerTypes
  <2> QED BY <1>0, <1>1, <2>1, <2>2, GotoTypes DEF Labels
<1>21. CASE SAdd(p)
  <2> DEFINE l == IF ds[p].pending = NoSession THEN "set" ELSE "saddPending"
  <2>1. Goto(p, l) /\ UNCHANGED <<session, req, ds, row, lastKey>> /\ at[p] = "sadd"
    BY <1>21 DEF SAdd
  <2>2. Stage(p)'
    BY <1>0, <2>1 DEF Stage, Goto, HandlerTypes
  <2> QED BY <1>0, <1>1, <2>1, <2>2, GotoTypes DEF Labels
<1>22. CASE SAddPending(p)
  <2>1. Goto(p, "set") /\ UNCHANGED <<session, req, ds, row, lastKey>> /\ at[p] = "saddPending"
    BY <1>22 DEF SAddPending
  <2>2. Stage(p)'
    BY <1>0, <2>1 DEF Stage, Goto, HandlerTypes
  <2> QED BY <1>0, <1>1, <2>1, <2>2, GotoTypes DEF Labels
<1>23. CASE Set(p)
  <2>1. /\ at[p] = "set" /\ session' = ds[p] /\ lastKey' = lastKey /\ ds[p] \in SessionsOf[lastKey]
        /\ req[p] \in Requests /\ (req[p].t = "rejoin" => ds[p].pending # NoSession)
    BY <1>0, <1>23 DEF Set, Stage
  <2>2. CASE Finish(p)
    BY <1>0, <1>1, <2>1, <2>2, FinishTypes
  <2>3. CASE /\ req[p].t \in {"join", "rejoin", "update"}
             /\ Goto(p, IF req[p].t = "update" THEN "commit" ELSE "send")
             /\ UNCHANGED <<lock, req, row, ds>>
    <3>1. Stage(p)'
      BY <1>0, <2>1, <2>3 DEF Stage, Goto, HandlerTypes
    <3> QED BY <1>0, <1>1, <2>1, <2>3, <3>1, GotoTypes DEF Labels
  <2>4. CASE /\ req[p].t = "data" /\ req' = [req EXCEPT ![p].t = "response"] /\ Goto(p, "sadd")
             /\ UNCHANGED <<lock, row, ds>>
    <3>1. req'[p] = [req[p] EXCEPT !.t = "response"] /\ at'[p] = "sadd" /\ ds'[p] = ds[p]
      BY <1>0, <2>4 DEF Goto, HandlerTypes
    <3>2. req'[p] \in Requests /\ req'[p].t = "response"
      <4>1. req[p] \in [t : {"data", "response"}, addr : Addrs, key : Keys]
        BY <2>1, <2>4 DEF Requests
      <4> QED BY <3>1, <4>1 DEF Requests
    <3>3. Private(p)
      BY <1>0, <2>4 DEF Private, Goto, HandlerTypes, SessionTypes
    <3>4. Stage(p)'
      BY <2>1, <3>1, <3>2 DEF Stage
    <3> QED BY <1>0, <1>1, <2>1, <3>1, <3>2, <3>3, <3>4, PrivateTypes DEF Labels
  <2> QED BY <1>23, <2>2, <2>3, <2>4 DEF Set, SaveDone
<1>24. CASE SendJoinAccept(p)
  <2>1. CASE req[p].t = "join"
    <3>1. Goto(p, "commit") /\ UNCHANGED <<session, req, ds, row, lastKey>> /\ at[p] = "send"
      BY <1>24, <2>1 DEF SendJoinAccept
    <3>2. Stage(p)'
      BY <1>0, <3>1 DEF Stage, Goto, HandlerTypes
    <3> QED BY <1>0, <1>1, <3>1, <3>2, GotoTypes DEF Labels
  <2>2. CASE req[p].t # "join"
    BY <1>0, <1>1, <1>24, <2>2, FinishTypes DEF SendJoinAccept
  <2> QED BY <2>1, <2>2
<1> QED
  BY <1>4, <1>5, <1>6, <1>7, <1>8, <1>9, <1>10, <1>11, <1>12, <1>13, <1>14, <1>15, <1>16, <1>17,
     <1>18, <1>19, <1>20, <1>21, <1>22, <1>23, <1>24, <1>0 DEF Step

\* Every step keeps the types of the flags.
LEMMA NextFlags == TInv /\ NonceInv /\ [Next]_vars => FlagTypes'
<1> SUFFICES ASSUME TInv, NonceInv, [Next]_vars PROVE FlagTypes'
  OBVIOUS
<1>0. /\ disabled \in BOOLEAN /\ asked \in BOOLEAN /\ row \in [Procs -> BOOLEAN]
      /\ \A p \in Procs : Stage(p)
  BY DEF TInv, FlagTypes, HandlerTypes
<1>1. CASE UNCHANGED <<disabled, asked, row>>
  BY <1>0, <1>1, Zenon DEF FlagTypes
<1>2. ASSUME NEW p \in Procs, Step(p), ~ UNCHANGED <<disabled, asked, row>> PROVE FlagTypes'
  <2>1. row[p] \in BOOLEAN
    BY <1>0, Zenon
  <2>2. ASSUME NEW b \in BOOLEAN, row' = [row EXCEPT ![p] = b],
               disabled' \in BOOLEAN, asked' \in BOOLEAN
        PROVE  FlagTypes'
    <3>1. row' \in [Procs -> BOOLEAN]
      BY <1>0, <2>2, Zenon
    <3> QED BY <2>2, <3>1, Zenon DEF FlagTypes
  <2>3. ASSUME row' = row, disabled' \in BOOLEAN, asked' \in BOOLEAN PROVE FlagTypes'
    BY <1>0, <2>3, Zenon DEF FlagTypes
  <2>4. CASE Return(p) \/ SRem(p)
    BY <1>0, <2>2, <2>4, Zenon DEF Return, SRem, Finish, outside
  <2>5. CASE JoinGetDevice(p)
    <3>1. \/ Return(p)
          \/ row' = [row EXCEPT ![p] = disabled] /\ disabled' = disabled /\ asked' = asked
      BY <2>5, Zenon DEF JoinGetDevice, outside
    <3> QED BY <1>0, <2>2, <2>4, <3>1, Zenon
  <2>6. CASE JoinCommits(p) \/ UpdateCommits(p)
    BY <1>0, <2>1, <2>2, <2>6, Zenon DEF JoinCommits, UpdateCommits, Finish, outside
  <2>7. CASE UpdateDevice(p)
    <3>1. req[p].disabled \in BOOLEAN
      BY <1>0, <2>7, RequestParts DEF UpdateDevice, Stage
    <3> QED BY <1>0, <2>2, <2>7, <3>1, Zenon DEF UpdateDevice, outside
  <2>8. CASE ActivateGetDevice(p)
    BY <1>0, <2>2, <2>8, Zenon DEF ActivateGetDevice, outside, stores
  <2>9. CASE ActivateUpdateDevice(p)
    BY <1>0, <2>1, <2>3, <2>9, Zenon DEF ActivateUpdateDevice, outside
  <2>10. CASE Set(p) \/ SendJoinAccept(p)
    <3>1. disabled' = disabled /\ asked' = asked
      BY <2>10 DEF Set, SendJoinAccept
    <3>2. row' = row \/ row' = [row EXCEPT ![p] = FALSE]
      BY <2>10 DEF Set, SaveDone, SendJoinAccept, Finish
    <3> QED BY <1>0, <2>2, <2>3, <3>1, <3>2, Zenon
  <2>11. CASE \/ HandleFrame(p) \/ HandleAPI(p) \/ JoinServerAnswers(p) \/ RejoinServerAnswers(p)
              \/ UpdateGetSession(p) \/ SAdd(p) \/ SAddPending(p)
    BY <1>2, <2>11 DEF HandleFrame, HandleAPI, JoinServerAnswers, RejoinServerAnswers,
         UpdateGetSession, SAdd, SAddPending, stores, outside
  <2>12. CASE \/ ValidateDevNonce(p) \/ RejoinGetDevice(p) \/ RejoinGetSession(p)
              \/ SMembers(p) \/ UplinkGet(p) \/ Fail(p)
    <3>1. Return(p) \/ UNCHANGED <<disabled, asked, row>>
      BY <2>12 DEF ValidateDevNonce, RejoinGetDevice, RejoinGetSession, SMembers, UplinkGet, Fail,
           stores, outside
    <3> QED BY <1>2, <2>4, <3>1
  <2> QED BY <1>2, <2>4, <2>5, <2>6, <2>7, <2>8, <2>9, <2>10, <2>11, <2>12 DEF Step
<1>3. CASE DeviceStep \/ DeactivateDevice \/ UNCHANGED vars
  BY <1>1, <1>3 DEF DeviceStep, DeviceJoins, DeviceRejoins, DeviceSendsData, DeviceAccepted,
       DeactivateDevice, vars, stores, handlers, outside
<1> QED BY <1>1, <1>2, <1>3 DEF Next

\* Every step keeps the types of what is in PostgreSQL and of the DevAddr sets.
LEMMA NextStores == TInv /\ NonceInv /\ [Next]_vars => StoreTypes'
<1> SUFFICES ASSUME TInv, NonceInv, [Next]_vars PROVE StoreTypes'
  OBVIOUS
<1>0. StoreTypes /\ lastKey \in 0 .. MaxKeys /\ \A p \in Procs : Stage(p)
  BY DEF TInv, HandlerTypes, SessionTypes, Keys
<1>1. CASE UNCHANGED <<activations, lock, index>>
  BY <1>0, <1>1 DEF StoreTypes
<1>2. ASSUME NEW p \in Procs, Step(p) PROVE StoreTypes'
  <2>1. CASE JoinCommits(p)
    <3>1. req[p].nonce \in Nonces
      BY <1>0, <2>1, RequestParts DEF JoinCommits, Stage
    <3> QED BY <1>0, <2>1, <3>1 DEF JoinCommits, Finish, Unlock, StoreTypes
  <2>2. CASE SAdd(p) \/ SAddPending(p)
    <3>1. ds[p] \in SessionsOf[lastKey] /\ ds[p].addr \in Addrs
      BY <1>0, <2>2, SessionParts DEF SAdd, SAddPending, Stage
    <3>2. SAddPending(p) => ds[p].pending.addr \in Addrs
      <4>1. SAddPending(p) => ds[p].pending \in SessionsOf[lastKey]
        BY <1>0, <3>1, SessionParts DEF SAddPending, Stage
      <4> QED BY <1>0, <4>1, SessionParts
    <3> QED BY <1>0, <2>2, <3>1, <3>2 DEF SAdd, SAddPending, StoreTypes
  <2>3. CASE /\ activations' = activations /\ (index' = index \/ index' \subseteq index)
             /\ lock' \in {lock, p, None}
    BY <1>0, <2>3 DEF StoreTypes
  <2>4. CASE Return(p)
    BY <2>3, <2>4 DEF Return, Finish, Unlock
  <2>5. CASE SRem(p) \/ UpdateDevice(p) \/ UpdateCommits(p) \/ ActivateUpdateDevice(p)
    BY <2>3, <2>5 DEF SRem, UpdateDevice, UpdateCommits, ActivateUpdateDevice, Finish, Unlock
  <2>6. CASE Set(p) \/ SendJoinAccept(p)
    BY <2>3, <2>6 DEF Set, SaveDone, SendJoinAccept, Finish, Unlock
  <2>7. CASE JoinGetDevice(p) \/ ValidateDevNonce(p) \/ RejoinGetDevice(p) \/ RejoinGetSession(p)
    BY <2>3, <2>4, <2>7 DEF JoinGetDevice, ValidateDevNonce, RejoinGetDevice, RejoinGetSession, stores
  <2>8. CASE SMembers(p) \/ UplinkGet(p) \/ Fail(p)
    BY <2>3, <2>4, <2>8 DEF SMembers, UplinkGet, Fail, stores
  <2>9. CASE \/ HandleFrame(p) \/ HandleAPI(p) \/ JoinServerAnswers(p) \/ RejoinServerAnswers(p)
             \/ UpdateGetSession(p) \/ ActivateGetDevice(p)
    BY <1>1, <2>9 DEF HandleFrame, HandleAPI, JoinServerAnswers, RejoinServerAnswers,
         UpdateGetSession, ActivateGetDevice, stores
  <2> QED BY <1>2, <2>1, <2>2, <2>4, <2>5, <2>6, <2>7, <2>8, <2>9 DEF Step
<1>3. CASE DeviceStep \/ DeactivateDevice \/ UNCHANGED vars
  BY <1>1, <1>3 DEF DeviceStep, DeviceJoins, DeviceRejoins, DeviceSendsData, DeviceAccepted,
       DeactivateDevice, vars, stores
<1> QED BY <1>2, <1>3 DEF Next

\* Every step keeps the types of the device, its frames and the join-accepts.
LEMMA NextDevice == TInv /\ NonceInv /\ [Next]_vars => DeviceTypes'
<1> SUFFICES ASSUME TInv, NonceInv, [Next]_vars PROVE DeviceTypes'
  OBVIOUS
<1>0. DeviceTypes /\ lastKey \in 0 .. MaxKeys /\ \A p \in Procs : Stage(p)
  BY DEF TInv, HandlerTypes, SessionTypes, Keys
<1>1. CASE UNCHANGED <<device, waiting, sent, air, accepts>>
  BY <1>0, <1>1 DEF DeviceTypes
<1>2. CASE DeviceJoins
  <2>1. sent + 1 \in Nonces
    BY <1>0, <1>2, ConstantsOK DEF DeviceJoins, DeviceTypes, Nonces
  <2>2. [t |-> "join", nonce |-> sent + 1] \in Requests
    BY <2>1 DEF Requests
  <2> QED BY <1>0, <1>2, <2>1, <2>2 DEF DeviceJoins, DeviceTypes
<1>3. ASSUME NEW type \in {0, 2}, DeviceRejoins(type) PROVE DeviceTypes'
  <2>1. device \in [addr : Addrs, key : Keys, rj : 0 .. RJMod] /\ device.rj < RJMod
    BY <1>0, <1>3 DEF DeviceRejoins, DeviceTypes
  <2>2. device.rj + 1 \in 0 .. RJMod
    BY <2>1, ConstantsOK
  <2>3. air' \in Requests
    BY <1>3, <2>1 DEF DeviceRejoins, Requests
  <2>4. device' \in [addr : Addrs, key : Keys, rj : 0 .. RJMod]
    BY <1>3, <2>1, <2>2 DEF DeviceRejoins
  <2> QED BY <1>0, <1>3, <2>3, <2>4 DEF DeviceRejoins, DeviceTypes
<1>4. CASE DeviceSendsData
  <2>1. air' \in Requests
    BY <1>0, <1>4 DEF DeviceSendsData, DeviceTypes, Requests
  <2> QED BY <1>0, <1>4, <2>1 DEF DeviceSendsData, DeviceTypes
<1>5. CASE DeviceAccepted
  <2>1. 0 \in 0 .. RJMod
    BY ConstantsOK
  <2> QED BY <1>0, <1>5, <2>1 DEF DeviceAccepted, DeviceTypes
<1>6. ASSUME NEW p \in Procs, Set(p) PROVE DeviceTypes'
  <2>1. CASE req[p].t # "activate"
    BY <1>1, <1>6, <2>1 DEF Set
  <2>2. CASE req[p].t = "activate"
    <3>1. ds[p] \in SessionsOf[lastKey] /\ ds[p].addr \in Addrs /\ ds[p].key \in Keys
      BY <1>0, <1>6, SessionParts DEF Set, Stage
    <3>2. 0 \in 0 .. RJMod
      BY ConstantsOK
    <3>3. device' \in [addr : Addrs, key : Keys, rj : 0 .. RJMod]
      BY <1>6, <2>2, <3>1, <3>2 DEF Set
    <3> QED BY <1>0, <1>6, <2>2, <3>3 DEF Set, DeviceTypes
  <2> QED BY <2>1, <2>2
<1>7. ASSUME NEW p \in Procs, SendJoinAccept(p) PROVE DeviceTypes'
  <2> DEFINE new == IF req[p].t = "join" THEN ds[p] ELSE ds[p].pending
  <2>1. /\ ds[p] \in SessionsOf[lastKey] /\ req[p] \in Requests
        /\ (req[p].t # "join" => ds[p].pending # NoSession)
    BY <1>0, <1>7 DEF SendJoinAccept, Stage
  <2>2. new \in SessionsOf[lastKey]
    BY <1>0, <2>1, SessionParts
  <2>3. [for |-> req[p], addr |-> new.addr, key |-> new.key] \in
          [for : Requests, addr : Addrs, key : Keys]
    BY <1>0, <2>1, <2>2, SessionParts
  <2>4. accepts' = accepts \cup {[for |-> req[p], addr |-> new.addr, key |-> new.key]}
    BY <1>7 DEF SendJoinAccept
  <2> HIDE DEF new
  <2> QED BY <1>0, <1>7, <2>3, <2>4 DEF SendJoinAccept, DeviceTypes
<1>8. ASSUME NEW p \in Procs, Step(p), ~ Set(p), ~ SendJoinAccept(p) PROVE DeviceTypes'
  <2>1. CASE \/ Fail(p) \/ JoinGetDevice(p) \/ ValidateDevNonce(p) \/ RejoinGetDevice(p)
             \/ RejoinGetSession(p) \/ SMembers(p) \/ UplinkGet(p)
    BY <1>1, <2>1 DEF Fail, JoinGetDevice, ValidateDevNonce, RejoinGetDevice, RejoinGetSession,
         SMembers, UplinkGet, Return, outside
  <2>2. CASE \/ HandleFrame(p) \/ HandleAPI(p) \/ JoinServerAnswers(p) \/ RejoinServerAnswers(p)
             \/ JoinCommits(p) \/ SRem(p) \/ UpdateDevice(p)
    BY <1>1, <2>2 DEF HandleFrame, HandleAPI, JoinServerAnswers, RejoinServerAnswers, JoinCommits,
         SRem, UpdateDevice, outside
  <2>3. CASE \/ UpdateGetSession(p) \/ UpdateCommits(p) \/ ActivateGetDevice(p)
             \/ ActivateUpdateDevice(p) \/ SAdd(p) \/ SAddPending(p)
    BY <1>1, <2>3 DEF UpdateGetSession, UpdateCommits, ActivateGetDevice, ActivateUpdateDevice, SAdd,
         SAddPending, outside
  <2> QED BY <1>8, <2>1, <2>2, <2>3 DEF Step
<1>9. CASE DeactivateDevice \/ UNCHANGED vars
  BY <1>1, <1>9 DEF DeactivateDevice, vars, outside
<1> QED BY <1>2, <1>3, <1>4, <1>5, <1>6, <1>7, <1>8, <1>9 DEF Next, DeviceStep

\* The types are inductive.
LEMMA NextTInv == TInv /\ NonceInv /\ [Next]_vars => TInv'
<1> SUFFICES ASSUME TInv, NonceInv, [Next]_vars PROVE TInv'
  OBVIOUS
<1>1. FlagTypes' /\ StoreTypes' /\ DeviceTypes'
  BY NextFlags, NextStores, NextDevice
<1>2. SessionTypes' /\ HandlerTypes'
  <2>1. CASE \E p \in Procs : Step(p)
    BY <2>1, StepTypes
  <2>2. CASE UNCHANGED <<handlers, lastKey>> /\ session' \in {session, NoSession}
    BY <2>2 DEF TInv, SessionTypes, HandlerTypes, Stage, handlers
  <2>3. CASE DeviceStep \/ DeactivateDevice \/ UNCHANGED vars
    BY <2>2, <2>3 DEF DeviceStep, DeviceJoins, DeviceRejoins, DeviceSendsData, DeviceAccepted,
         DeactivateDevice, vars, stores
  <2> QED BY <2>1, <2>3 DEF Next
<1> QED BY <1>1, <1>2 DEF TInv

\* The types hold in every behaviour.
LEMMA AlwaysTInv == Spec => []TInv
<1>1. IInv => NonceInv
  BY DEF IInv
<1> QED BY <1>1, InitTInv, NextTInv, AlwaysIInv, PTL DEF Spec

\* Type correctness of the session store, for any number of handlers of any kind
\* at the same time: the rejoin count stays within its 16 bits, and the pending
\* sessions that rejoin.go nests in a session are at most as many as the
\* join-server has answered.
THEOREM TypeCorrect == Spec => []TypeOK
<1>1. TInv => TypeOK
  <2> SUFFICES ASSUME TInv PROVE TypeOK
    OBVIOUS
  <2>1. SessionsOf[lastKey] \subseteq SessionsOf[MaxKeys]
    BY SessionsGrow, ConstantsOK DEF TInv, SessionTypes, Keys
  <2>2. /\ session \in SessionsOf[MaxKeys] \cup {NoSession}
        /\ ds \in [Procs -> SessionsOf[MaxKeys] \cup {NoSession}] /\ lastKey \in Keys
    BY <2>1 DEF TInv, SessionTypes
  <2> QED BY <2>2 DEF TInv, HandlerTypes, FlagTypes, StoreTypes, DeviceTypes, TypeOK
<1> QED BY <1>1, AlwaysTInv, PTL

-----------------------------------------------------------------------------
(***************************************************************************)
(* The device is heard.  The handlers run one after the other, the device  *)
(* moves at any time, and every step but a commit can fail: a join-accept  *)
(* that was sent for a join whose transaction is rolled back would let the *)
(* repeated join-request replace a session that the device already uses.   *)
(*                                                                         *)
(* The device uses a session, or will once it accepts a join-accept for    *)
(* the request it waits on; the session in Redis hears both.  What a       *)
(* handler does about an older request cannot harm that: the request was   *)
(* answered, and then its DevNonce is activated or the rejoin count of the *)
(* session has passed it.                                                  *)
(***************************************************************************)
OneAtATime == MaxBusy <= 1 /\ "commit" \notin FailAt

\* The frames that a handler has or may start on, and with them those that a
\* join-accept was sent for.
Frames == ({air} \ {None}) \cup {req[p] : p \in Busy}
Sent == Frames \cup {m.for : m \in accepts}

\* The join-accepts the device may still take.
Answers == {m \in accepts : m.for = waiting}

Alone == \A p, q \in Procs : at[p] # "idle" /\ at[q] # "idle" => p = q

\* What the device sends next differs from every frame it has sent, and no
\* frame was sent with the keys of a join-accept that it may still take.
FramesInv ==
    /\ device # NoSession => device.key <= lastKey
    /\ \A m \in accepts : m.key <= lastKey
    /\ waiting # None => waiting = air /\ waiting.t \in {"join", "rejoin"}
    /\ \A f \in Sent :
         /\ f.t = "join" => f.nonce <= sent
         /\ f.t = "rejoin" => f.key > 0 /\ f.key <= lastKey /\ f.rj < RJMod
         /\ f.t = "rejoin" /\ device # NoSession => (f.key = device.key => f.rj < device.rj)
    /\ \A m \in Answers, f \in Sent : f.t = "rejoin" => f.key # m.key

\* Once the request the device waits on is answered, no handler works on an
\* older one, and none gets past the checks with this one.
AnsweredInv ==
    Answers # {} =>
        /\ \A p \in Procs : at[p] # "idle" =>
             \/ req[p].t \in {"update", "activate"}
             \/ req[p] = waiting /\ at[p] \in {"getDevice", "validateNonce", "getSession", "commit"}
        /\ waiting.t = "rejoin" /\ session # NoSession =>
             (session.key = waiting.key => session.rj > waiting.rj)

\* The join with this DevNonce is committed, or about to be.
Done(n) ==
    \/ activations[n] > 0
    \/ \E p \in Procs : at[p] = "commit" /\ req[p].t = "join" /\ req[p].nonce = n

AcceptedInv == \A m \in accepts : m.for.t = "join" => Done(m.for.nonce)

\* A device that has a session: its join-requests are done, its data frames are
\* of this session, and an older rejoin-request is refused.
OldFrames ==
    device # NoSession => \A f \in Frames :
        /\ f.t = "join" => Done(f.nonce)
        /\ f.t \in {"data", "response"} => f.addr = device.addr /\ f.key = device.key
        /\ f.t = "rejoin" /\ session # NoSession =>
             (f.key = session.key /\ f.rj >= session.rj => f.key = device.key)

\* The session s, or its pending session, is the one that t is about.
Hears(s, t) ==
    /\ Matching(s, t.addr, t.key) # {}
    /\ s.key = t.key => s.addr = t.addr

Indexed(s) == s.addr \in index /\ (s.pending # NoSession => s.pending.addr \in index)

HeardInv ==
    session # NoSession =>
        /\ device # NoSession => Hears(session, device)
        /\ \A m \in Answers : Hears(session, m)
        /\ Indexed(session)

\* The keys of s are new: the device has sent nothing with them.
New(s) ==
    /\ s.key <= lastKey
    /\ \A f \in Sent : f.t = "rejoin" => f.key # s.key

Saving(p) == at[p] \in {"sadd", "saddPending", "set"}

\* The DevAddr sets are written before the session.
SaveInv(p) ==
    /\ at[p] = "srem" => session = NoSession
    /\ at[p] \in {"saddPending", "set"} => ds[p].addr \in index
    /\ at[p] = "set" /\ ds[p].pending # NoSession => ds[p].pending.addr \in index
    /\ at[p] = "send" => session = ds[p]

\* The session value of a handler of each kind.
KindInv(p) ==
    /\ Saving(p) /\ req[p].t = "update" =>
         session # NoSession /\ ds[p] = [session EXCEPT !.disabled = req[p].disabled]
    /\ (Saving(p) \/ at[p] = "send") /\ req[p].t = "join" => New(ds[p])
    /\ (Saving(p) \/ at[p] \in {"joinServer", "send"}) /\ req[p].t = "rejoin" =>
         /\ device # NoSession => device.key = ds[p].key /\ device.addr = ds[p].addr
         /\ ds[p].key = req[p].key /\ ds[p].rj = req[p].rj + 1
    /\ (Saving(p) \/ at[p] = "send") /\ req[p].t = "rejoin" =>
         ds[p].pending.key # ds[p].key /\ New(ds[p].pending)
    /\ Saving(p) /\ req[p].t \in {"data", "response"} =>
         ds[p].addr = req[p].addr /\ ds[p].key = req[p].key
    /\ (Saving(p) \/ at[p] = "updateDevice") /\ req[p].t = "activate" => ds[p].key = 0

HInv == /\ Alone /\ FramesInv /\ AnsweredInv /\ AcceptedInv /\ OldFrames /\ HeardInv
        /\ \A p \in Procs : SaveInv(p) /\ KindInv(p)

\* Initially the device has no session and has sent nothing.
LEMMA InitHInv == Init => HInv
BY DEF Init, HInv, Alone, FramesInv, AnsweredInv, AcceptedInv, OldFrames, HeardInv, SaveInv, KindInv,
     Saving, Frames, Sent, Answers, Busy

\* A handler starts when no other is at work.
LEMMA StartsAlone ==
    ASSUME OneAtATime, Alone, Cardinality(Busy) < MaxBusy
    PROVE  \A q \in Procs : at[q] = "idle"
<1> SUFFICES ASSUME NEW p \in Procs, at[p] # "idle" PROVE FALSE
  OBVIOUS
<1>1. Busy = {p}
  BY DEF Alone, Busy
<1>2. Cardinality(Busy) = 1
  BY <1>1, FS_Singleton
<1> QED BY <1>2, ConstantsOK DEF OneAtATime

\* The types that the arguments about frames use.
LEMMA FrameTypes ==
    ASSUME TInv
    PROVE  /\ Sent \subseteq Requests
           /\ \A m \in accepts : m.for \in Requests /\ m.addr \in Addrs /\ m.key \in Nat
           /\ lastKey \in Nat /\ sent \in Nat
           /\ device # NoSession => device.addr \in Addrs /\ device.key \in Nat /\ device.rj \in Nat
           /\ waiting = None => Answers = {}
<1>1. \A p \in Busy : req[p] \in Requests
  BY DEF TInv, HandlerTypes, Stage, Busy
<1>2. \A m \in accepts : m.for \in Requests /\ m.addr \in Addrs /\ m.key \in Nat
  BY ConstantsOK DEF TInv, DeviceTypes, Keys
<1>3. lastKey \in Nat /\ sent \in Nat
  BY ConstantsOK DEF TInv, SessionTypes, DeviceTypes, Keys, Nonces
<1>4. device # NoSession => device.addr \in Addrs /\ device.key \in Nat /\ device.rj \in Nat
  BY ConstantsOK DEF TInv, DeviceTypes, Keys
<1>5. Sent \subseteq Requests
  BY <1>1, <1>2 DEF Sent, Frames, TInv, DeviceTypes
<1>6. waiting = None => Answers = {}
  BY <1>2, NothingApart DEF Answers
<1> QED BY <1>2, <1>3, <1>4, <1>5, <1>6

\* A join that has validated its DevNonce: the device has no session.
LEMMA JoinWithoutSession ==
    ASSUME TInv, NonceInv, HInv, NEW p \in Procs, Creating(p), at[p] # "commit"
    PROVE  device = NoSession
<1>1. activations[req[p].nonce] = 0 /\ req[p].t = "join" /\ at[p] # "idle"
  BY DEF NonceInv, Creating
<1>2. req[p] \in Frames
  BY <1>1 DEF Frames, Busy
<1>3. ~ Done(req[p].nonce)
  BY <1>1 DEF Done, HInv, Alone
<1> QED BY <1>1, <1>2, <1>3 DEF HInv, OldFrames

\* A handler past its checks works on a request that is not answered yet.
LEMMA NotAnswered ==
    ASSUME HInv, NEW p \in Procs, at[p] # "idle",
           req[p].t \notin {"update", "activate"},
           at[p] \notin {"getDevice", "validateNonce", "getSession", "commit"}
    PROVE  Answers = {}
BY DEF HInv, AnsweredInv

\* A handler that ends keeps the invariant when what it leaves in the stores does.
LEMMA FinishHInv ==
    ASSUME TInv, HInv, NEW p \in Procs, Finish(p), at[p] # "idle",
           UNCHANGED <<session, device, waiting, air, accepts, lastKey, sent>>,
           index' = index \/ session = NoSession,
           \A n \in Nonces : activations[n] > 0 => activations'[n] > 0,
           at[p] = "commit" /\ req[p].t = "join" => activations'[req[p].nonce] > 0
    PROVE  HInv'
<1>1. \A q \in Procs : at'[q] = "idle"
  BY DEF Finish, Goto, TInv, HandlerTypes, HInv, Alone
<1>2. Frames' \subseteq Frames /\ Sent' \subseteq Sent /\ Answers' = Answers
  BY <1>1 DEF Frames, Sent, Answers, Busy
<1>3. ASSUME NEW n \in Nonces, Done(n) PROVE Done(n)'
  BY <1>3 DEF Done, HInv, Alone
<1>4. \A f \in Sent : f.t = "join" => f.nonce \in Nonces
  BY FrameTypes, RequestParts
<1>5. Alone' /\ \A q \in Procs : SaveInv(q)' /\ KindInv(q)'
  BY <1>1 DEF Alone, SaveInv, KindInv, Saving
<1>6. FramesInv'
  BY <1>2 DEF HInv, FramesInv
<1>7. AnsweredInv'
  BY <1>1, <1>2 DEF HInv, AnsweredInv
<1>8. AcceptedInv'
  BY <1>3, <1>4 DEF HInv, AcceptedInv, Sent
<1>9. OldFrames'
  <2>1. \A f \in Frames : f.t = "join" => f.nonce \in Nonces
    BY <1>4 DEF Sent
  <2> QED BY <1>2, <1>3, <2>1 DEF HInv, OldFrames
<1>10. HeardInv'
  BY <1>2 DEF HInv, HeardInv, Indexed
<1> QED BY <1>5, <1>6, <1>7, <1>8, <1>9, <1>10 DEF HInv

\* A handler that goes on with its request keeps the invariant when its session
\* value does, and when it stops at a request that is answered.
LEMMA MoveHInv ==
    ASSUME TInv, HInv, NEW p \in Procs, Private(p), at[p] # "idle", at'[p] # "idle",
           at[p] # "commit", req'[p] = req[p],
           UNCHANGED <<session, device, waiting, air, accepts, sent, activations>>,
           lastKey' \in Nat, lastKey <= lastKey', index \subseteq index',
           Answers # {} => \/ req[p].t \in {"update", "activate"}
                           \/ at'[p] \in {"getDevice", "validateNonce", "getSession", "commit"},
           SaveInv(p)', KindInv(p)'
    PROVE  HInv'
<1>0. lastKey \in Nat /\ (\A m \in accepts : m.key \in Nat) /\ Sent \subseteq Requests
      /\ (device # NoSession => device.key \in Nat)
  BY FrameTypes
<1>1. \A q \in Procs : q # p => at[q] = "idle" /\ at'[q] = "idle"
  BY DEF Private, TInv, HandlerTypes, HInv, Alone
<1>2. req' = req
  BY DEF Private, TInv, HandlerTypes
<1>3. Frames' = Frames /\ Sent' = Sent /\ Answers' = Answers
  <2>1. Busy' = Busy
    BY <1>1 DEF Busy
  <2>2. Frames' = Frames
    BY <1>2, <2>1 DEF Frames
  <2> QED BY <2>2 DEF Sent, Answers
<1>4. ASSUME NEW n, Done(n) PROVE Done(n)'
  BY <1>1, <1>4 DEF Done
<1>5. Alone' /\ \A q \in Procs : SaveInv(q)' /\ KindInv(q)'
  BY <1>1 DEF Alone, SaveInv, KindInv, Saving
<1>6. FramesInv'
  <2>1. \A f \in Sent : f.t = "rejoin" => f.key \in Nat
    BY <1>0, RequestParts, ConstantsOK DEF Keys
  <2> QED BY <1>0, <1>3, <2>1 DEF HInv, FramesInv
<1>7. AnsweredInv'
  <2> SUFFICES ASSUME Answers # {} PROVE AnsweredInv'
    BY <1>3 DEF AnsweredInv
  <2>1. req[p].t \in {"update", "activate"} \/ req[p] = waiting
    BY DEF HInv, AnsweredInv
  <2> QED BY <1>1, <1>2, <2>1 DEF HInv, AnsweredInv
<1>8. AcceptedInv'
  BY <1>4 DEF HInv, AcceptedInv
<1>9. OldFrames'
  BY <1>3, <1>4 DEF HInv, OldFrames
<1>10. HeardInv'
  BY <1>3 DEF HInv, HeardInv, Indexed
<1> QED BY <1>5, <1>6, <1>7, <1>8, <1>9, <1>10 DEF HInv

\* A handler that starts keeps the invariant: it takes the last frame of the
\* device, or a request of the API.
LEMMA StartHInv ==
    ASSUME TInv, HInv, OneAtATime, NEW p \in Procs, HandleFrame(p) \/ HandleAPI(p)
    PROVE  HInv'
<1>1. \A q \in Procs : at[q] = "idle"
  BY StartsAlone DEF HandleFrame, HandleAPI, MayStart, HInv
<1>2. UNCHANGED <<session, device, waiting, air, accepts, sent, activations, lastKey, index, ds>>
  BY DEF HandleFrame, HandleAPI, stores, outside
<1>3. /\ at'[p] \in {"smembers", "getDevice", "updateDevice"}
      /\ \A q \in Procs : q # p => at'[q] = "idle"
      /\ \/ air # None /\ req'[p] = air /\ at'[p] = IF air.t = "data" THEN "smembers" ELSE "getDevice"
         \/ req'[p].t \in {"update", "activate"} /\ (at'[p] = "updateDevice" => req'[p].t = "update")
  BY <1>1 DEF HandleFrame, HandleAPI, Goto, TInv, HandlerTypes
<1>4. Busy = {} /\ Busy' = {p}
  BY <1>1, <1>3 DEF Busy
<1>5. \A f \in Frames' : f \in Frames \/ f.t \in {"update", "activate"}
  BY <1>2, <1>3, <1>4 DEF Frames
<1>6. /\ \A f \in Sent' : f \in Sent \/ f.t \in {"update", "activate"}
      /\ Answers' = Answers
  BY <1>2, <1>5 DEF Sent, Answers
<1>7. Alone' /\ \A q \in Procs : SaveInv(q)' /\ KindInv(q)'
  BY <1>3 DEF Alone, SaveInv, KindInv, Saving
<1>8. FramesInv'
  BY <1>2, <1>6 DEF HInv, FramesInv
<1>9. AnsweredInv'
  <2> SUFFICES ASSUME Answers # {} PROVE AnsweredInv'
    BY <1>6 DEF AnsweredInv
  <2>1. waiting = air /\ waiting.t \in {"join", "rejoin"}
    BY FrameTypes DEF HInv, FramesInv
  <2> QED BY <1>2, <1>3, <2>1 DEF HInv, AnsweredInv
<1>10. \A n : Done(n) => Done(n)'
  BY <1>1, <1>2 DEF Done
<1>11. AcceptedInv'
  BY <1>2, <1>10 DEF HInv, AcceptedInv
<1>12. OldFrames'
  BY <1>2, <1>5, <1>10 DEF HInv, OldFrames
<1>13. HeardInv'
  BY <1>2, <1>6 DEF HInv, HeardInv, Indexed
<1> QED BY <1>7, <1>8, <1>9, <1>11, <1>12, <1>13 DEF HInv

\* A step of the device that no join-accept answers yet.
LEMMA SendsHInv ==
    ASSUME TInv, HInv, UNCHANGED <<stores, handlers, lastKey, accepts>>,
           Answers' = {}, sent' \in Nat, sent <= sent',
           \/ device' = NoSession
           \/ /\ device # NoSession /\ device'.key = device.key /\ device'.addr = device.addr
              /\ device'.rj \in Nat /\ device.rj <= device'.rj,
           waiting' # None => waiting' = air' /\ waiting'.t \in {"join", "rejoin"},
           air'.t = "join" => air'.nonce <= sent' /\ device' = NoSession,
           air'.t \in {"data", "response"} => air'.addr = device'.addr /\ air'.key = device'.key,
           air'.t = "rejoin" => /\ air'.key > 0 /\ air'.key <= lastKey /\ air'.rj < RJMod
                                /\ device # NoSession /\ air'.key = device.key /\ air'.rj < device'.rj,
           \A p \in Procs : Creating(p) /\ at[p] # "commit" => device = NoSession
    PROVE  HInv'
<1>0. /\ lastKey \in Nat /\ sent \in Nat /\ (\A m \in accepts : m.key \in Nat) /\ Sent \subseteq Requests
      /\ (device # NoSession => device.key \in Nat /\ device.rj \in Nat)
  BY FrameTypes
<1>1. UNCHANGED <<session, index, activations, lock, at, req, ds>>
  BY DEF stores, handlers
<1>2. (\A f \in Frames' : f \in Frames \/ f = air') /\ (\A f \in Sent' : f \in Sent \/ f = air')
  BY <1>1 DEF Frames, Sent, Busy
<1>3. \A f \in Sent : /\ f.t = "join" => f.nonce \in Nat
                      /\ f.t = "rejoin" => f.key \in Nat /\ f.rj \in Nat
  BY <1>0, RequestParts, ConstantsOK DEF Nonces, Keys
<1>4. \A n : Done(n)' <=> Done(n)
  BY <1>1 DEF Done
<1>5. Alone'
  BY <1>1 DEF HInv, Alone
<1>6. FramesInv'
  <2>1. /\ device' # NoSession => device'.key <= lastKey
        /\ \A m \in accepts : m.key <= lastKey
    BY DEF HInv, FramesInv
  <2>2. ASSUME NEW f \in Sent'
        PROVE  /\ f.t = "join" => f.nonce <= sent'
               /\ f.t = "rejoin" => f.key > 0 /\ f.key <= lastKey /\ f.rj < RJMod
               /\ f.t = "rejoin" /\ device' # NoSession => (f.key = device'.key => f.rj < device'.rj)
    <3>1. CASE f = air'
      BY <3>1
    <3>2. CASE f \in Sent
      BY <1>0, <1>3, <3>2 DEF HInv, FramesInv
    <3> QED BY <1>2, <2>2, <3>1, <3>2
  <2> QED BY <2>1, <2>2 DEF FramesInv
<1>7. AnsweredInv'
  BY DEF AnsweredInv
<1>8. AcceptedInv'
  BY <1>4 DEF HInv, AcceptedInv
<1>9. OldFrames'
  <2> SUFFICES ASSUME device' # NoSession, NEW f \in Frames'
               PROVE  /\ f.t = "join" => Done(f.nonce)'
                      /\ f.t \in {"data", "response"} => f.addr = device'.addr /\ f.key = device'.key
                      /\ f.t = "rejoin" /\ session' # NoSession =>
                           (f.key = session'.key /\ f.rj >= session'.rj => f.key = device'.key)
    BY DEF OldFrames
  <2>1. CASE f = air'
    BY <2>1
  <2>2. CASE f \in Frames
    BY <1>1, <1>4, <2>2 DEF HInv, OldFrames
  <2> QED BY <1>2, <2>1, <2>2
<1>10. HeardInv'
  BY <1>1 DEF HInv, HeardInv, Indexed, Hears
<1>11. ASSUME NEW p \in Procs PROVE SaveInv(p)' /\ KindInv(p)'
  <2>1. SaveInv(p) /\ KindInv(p)
    BY DEF HInv
  <2>2. SaveInv(p)'
    BY <1>1, <2>1 DEF SaveInv
  <2>4. (Saving(p) \/ at[p] = "send") /\ req[p].t = "join" => New(ds[p])'
    <3> SUFFICES ASSUME Saving(p) \/ at[p] = "send", req[p].t = "join" PROVE New(ds[p])'
      OBVIOUS
    <3>1. device = NoSession /\ New(ds[p])
      BY <2>1 DEF KindInv, Saving, Creating
    <3> QED BY <1>1, <1>2, <3>1 DEF New
  <2>5. (Saving(p) \/ at[p] = "send") /\ req[p].t = "rejoin" => New(ds[p].pending)'
    <3> SUFFICES ASSUME Saving(p) \/ at[p] = "send", req[p].t = "rejoin" PROVE New(ds[p].pending)'
      OBVIOUS
    <3>1. /\ New(ds[p].pending) /\ ds[p].pending.key # ds[p].key
          /\ device # NoSession => device.key = ds[p].key
      BY <2>1 DEF KindInv
    <3> QED BY <1>1, <1>2, <3>1 DEF New
  <2>6. KindInv(p)'
    BY <1>1, <2>1, <2>4, <2>5 DEF KindInv, Saving
  <2> QED BY <2>2, <2>6
<1> QED BY <1>5, <1>6, <1>7, <1>8, <1>9, <1>10, <1>11 DEF HInv

\* The device takes a join-accept: the session in Redis hears it from now on.
LEMMA AcceptHInv == TInv /\ HInv /\ DeviceAccepted => HInv'
<1> SUFFICES ASSUME TInv, HInv, DeviceAccepted PROVE HInv'
  OBVIOUS
<1>0. /\ lastKey \in Nat /\ (\A m \in accepts : m.key \in Nat) /\ Sent \subseteq Requests
      /\ (waiting = None => Answers = {})
  BY FrameTypes
<1>1. PICK m \in accepts : m.for = waiting /\ device' = [addr |-> m.addr, key |-> m.key, rj |-> 0]
  BY DEF DeviceAccepted
<1>2. /\ UNCHANGED <<session, index, activations, lock, at, req, ds, lastKey, sent, air, accepts>>
      /\ waiting' = None /\ device'.addr = m.addr /\ device'.key = m.key
  BY <1>1 DEF DeviceAccepted, stores, handlers
<1>3. m \in Answers /\ waiting # None /\ waiting = air
  BY <1>0, <1>1 DEF Answers, HInv, FramesInv
<1>4. Answers' = {}
  <2>1. \A a \in accepts : a.for # None
    BY NothingApart DEF TInv, DeviceTypes
  <2> QED BY <1>2, <2>1 DEF Answers
<1>5. Frames' = Frames /\ Sent' = Sent
  BY <1>2 DEF Frames, Sent, Busy
<1>6. \A f \in Frames : f = waiting \/ f.t \in {"update", "activate"}
  BY <1>3 DEF Frames, Busy, HInv, AnsweredInv
<1>7. \A n : Done(n)' <=> Done(n)
  BY <1>2 DEF Done
<1>8. Alone'
  BY <1>2 DEF HInv, Alone
<1>9. FramesInv'
  <2>1. \A f \in Sent : f.t = "rejoin" => f.key # m.key
    BY <1>3 DEF HInv, FramesInv
  <2> QED BY <1>2, <1>4, <1>5, <2>1 DEF HInv, FramesInv
<1>10. AnsweredInv'
  BY <1>4 DEF AnsweredInv
<1>11. AcceptedInv'
  BY <1>2, <1>7 DEF HInv, AcceptedInv
<1>12. OldFrames'
  <2> SUFFICES ASSUME NEW f \in Frames'
               PROVE  /\ f.t = "join" => Done(f.nonce)'
                      /\ f.t \in {"data", "response"} => f.addr = device'.addr /\ f.key = device'.key
                      /\ f.t = "rejoin" /\ session' # NoSession =>
                           (f.key = session'.key /\ f.rj >= session'.rj => f.key = device'.key)
    BY DEF OldFrames
  <2>1. CASE f = waiting
    <3>1. f.t = "join" => Done(f.nonce)
      BY <1>1, <2>1 DEF HInv, AcceptedInv
    <3>2. f.t \in {"join", "rejoin"}
      BY <1>3, <2>1 DEF HInv, FramesInv
    <3>3. f.t = "rejoin" /\ session # NoSession => (session.key = f.key => session.rj > f.rj)
      BY <1>3, <2>1 DEF HInv, AnsweredInv
    <3>4. f.t = "rejoin" => f.rj \in Int
      <4>1. f \in Requests
        BY <1>0, <1>5 DEF Sent
      <4> QED BY <4>1, RequestParts
    <3>5. session # NoSession => session.rj \in Int
      BY SessionParts DEF TInv, SessionTypes, Keys
    <3> QED BY <1>2, <1>7, <3>1, <3>2, <3>3, <3>4, <3>5
  <2>2. CASE f.t \in {"update", "activate"}
    BY <2>2
  <2> QED BY <1>5, <1>6, <2>1, <2>2
<1>13. HeardInv'
  BY <1>2, <1>3, <1>4 DEF HInv, HeardInv, Indexed, Hears
<1>14. ASSUME NEW p \in Procs PROVE SaveInv(p)' /\ KindInv(p)'
  <2>1. SaveInv(p) /\ KindInv(p)
    BY DEF HInv
  <2>2. SaveInv(p)'
    BY <1>2, <2>1 DEF SaveInv
  <2>3. ~ ((Saving(p) \/ at[p] \in {"joinServer", "send"}) /\ req[p].t = "rejoin")
    BY <1>3, NotAnswered DEF Saving
  <2>4. New(ds[p])' <=> New(ds[p])
    BY <1>2, <1>5 DEF New
  <2> QED BY <1>2, <2>1, <2>2, <2>3, <2>4 DEF KindInv, Saving
<1> QED BY <1>8, <1>9, <1>10, <1>11, <1>12, <1>13, <1>14 DEF HInv

\* Every step of the device keeps the invariant.
LEMMA DeviceHInv == TInv /\ NonceInv /\ HInv /\ DeviceStep => HInv'
<1> SUFFICES ASSUME TInv, NonceInv, HInv, DeviceStep PROVE HInv'
  OBVIOUS
<1>0. /\ lastKey \in Nat /\ sent \in Nat /\ Sent \subseteq Requests
      /\ (device # NoSession => device.key \in Nat /\ device.rj \in Nat)
  BY FrameTypes
<1>1. \A p \in Procs : Creating(p) /\ at[p] # "commit" => device = NoSession
  BY JoinWithoutSession
<1>2. \A m \in accepts : m.for \in Sent /\ m.for \in Requests
  BY <1>0 DEF Sent
<1>3. CASE DeviceJoins
  <2>1. /\ air'.t = "join" /\ air'.nonce = sent + 1 /\ sent' = sent + 1 /\ waiting' = air'
        /\ device' = NoSession /\ UNCHANGED <<stores, handlers, lastKey, accepts>>
    BY <1>3 DEF DeviceJoins
  <2>2. Answers' = {}
    <3>1. \A f \in Sent : f.t = "join" => f.nonce <= sent
      BY DEF HInv, FramesInv
    <3> QED BY <1>0, <1>2, <2>1, <3>1 DEF Answers
  <2>3. sent' \in Nat /\ sent <= sent'
    BY <1>0, <2>1
  <2> QED BY <1>0, <1>1, <2>1, <2>2, <2>3, SendsHInv
<1>4. ASSUME NEW type \in {0, 2}, DeviceRejoins(type) PROVE HInv'
  <2>1. /\ air'.t = "rejoin" /\ air'.rj = device.rj /\ air'.key = device.key /\ waiting' = air'
        /\ device # NoSession /\ device.key # 0 /\ device.rj < RJMod
        /\ device' = [device EXCEPT !.rj = @ + 1] /\ sent' = sent
        /\ UNCHANGED <<stores, handlers, lastKey, accepts>>
    BY <1>4 DEF DeviceRejoins
  <2>2. device'.key = device.key /\ device'.addr = device.addr /\ device'.rj = device.rj + 1
    <3>1. device \in [addr : Addrs, key : Keys, rj : 0 .. RJMod]
      BY <2>1 DEF TInv, DeviceTypes
    <3> QED BY <2>1, <3>1
  <2>3. Answers' = {}
    <3>1. \A f \in Sent : f.t = "rejoin" => (f.key = device.key => f.rj < device.rj)
      BY <2>1 DEF HInv, FramesInv
    <3> QED BY <1>0, <1>2, <2>1, <3>1 DEF Answers
  <2>4. /\ device.rj < device'.rj /\ device.rj <= device'.rj /\ device'.rj \in Nat
        /\ air'.key > 0 /\ air'.key <= lastKey
    BY <1>0, <2>1, <2>2 DEF HInv, FramesInv
  <2>5. sent \in Nat /\ sent <= sent
    BY <1>0
  <2> QED BY <1>1, <2>1, <2>2, <2>3, <2>4, <2>5, SendsHInv
<1>5. CASE DeviceSendsData
  <2>1. /\ air'.t = "data" /\ air'.addr = device.addr /\ air'.key = device.key /\ waiting' = None
        /\ device # NoSession /\ device' = device /\ sent' = sent
        /\ UNCHANGED <<stores, handlers, lastKey, accepts>>
    BY <1>5 DEF DeviceSendsData
  <2>2. Answers' = {}
    BY <1>2, <2>1, NothingApart DEF Answers
  <2>3. sent \in Nat /\ sent <= sent /\ device.rj \in Nat /\ device.rj <= device.rj
    BY <1>0, <2>1
  <2> QED BY <1>1, <2>1, <2>2, <2>3, SendsHInv
<1>6. CASE DeviceAccepted
  BY <1>6, AcceptHInv
<1> QED BY <1>3, <1>4, <1>5, <1>6 DEF DeviceStep

\* A session value hears what its main session or its pending session is about.
LEMMA HearsMain ==
    ASSUME NEW d \in 0 .. MaxKeys, NEW s \in SessionsOf[d], NEW t, s.addr = t.addr, s.key = t.key
    PROVE  Hears(s, t)
<1>1. s # NoSession
  BY SessionsGrow, NothingApart, ConstantsOK
<1>2. s \in Matching(s, t.addr, t.key)
  BY <1>1 DEF Matching
<1> QED BY <1>2 DEF Hears

\* The other case: the pending session is the one, and its keys are not those of
\* the main session.
LEMMA HearsPending ==
    ASSUME NEW s, NEW t, s # NoSession, s.pending # NoSession,
           s.pending.addr = t.addr, s.pending.key = t.key, s.key # t.key
    PROVE  Hears(s, t)
<1>1. s.pending \in Matching(s, t.addr, t.key)
  BY DEF Matching
<1> QED BY <1>1 DEF Hears

\* Disabling a session changes nothing of what it hears.
LEMMA HearsUpdated ==
    ASSUME NEW d \in 0 .. MaxKeys, NEW s \in SessionsOf[d], NEW b \in BOOLEAN, NEW t, Hears(s, t)
    PROVE  Hears([s EXCEPT !.disabled = b], t)
<1> DEFINE u == [s EXCEPT !.disabled = b]
<1> SUFFICES Hears(u, t)
  OBVIOUS
<1>1. s # NoSession
  BY SessionsGrow, NothingApart, ConstantsOK
<1>2. /\ s.addr \in Addrs /\ s.key \in Keys /\ s.rj \in 0 .. RJMod - 1
      /\ s = [addr |-> s.addr, key |-> s.key, disabled |-> s.disabled, rj |-> s.rj, pending |-> s.pending]
  BY SessionParts
<1>3. u \in SessionsOf[d]
  BY <1>2, ChangedSession
<1>4. u # NoSession
  BY <1>3, SessionsGrow, NothingApart, ConstantsOK
<1>5. u.addr = s.addr /\ u.key = s.key /\ u.pending = s.pending
  BY <1>2
<1> HIDE DEF u
<1>6. PICK x \in Matching(s, t.addr, t.key) : TRUE
  BY DEF Hears
<1>7. CASE x = s
  <2>1. u.addr = t.addr /\ u.key = t.key
    BY <1>5, <1>6, <1>7 DEF Matching
  <2> QED BY <1>3, <2>1, HearsMain
<1>8. CASE x # s
  <2>1. x = s.pending /\ x # NoSession /\ x.addr = t.addr /\ x.key = t.key
    BY <1>1, <1>6, <1>8 DEF Matching
  <2>2. x \in Matching(u, t.addr, t.key)
    BY <1>4, <1>5, <2>1 DEF Matching
  <2>3. u.key = t.key => u.addr = t.addr
    BY <1>5 DEF Hears
  <2> QED BY <2>2, <2>3 DEF Hears
<1> QED BY <1>7, <1>8

\* SaveDeviceSession writes the session: the stores hear what they heard before.
LEMMA SetHInv ==
    ASSUME TInv, NonceInv, HInv, NEW p \in Procs, Set(p)
    PROVE  HInv'
<1> DEFINE s == ds[p]
           m == req[p]
<1>0. /\ lastKey \in 0 .. MaxKeys /\ at[p] = "set" /\ s \in SessionsOf[lastKey] /\ m \in Requests
      /\ session' = s /\ SaveInv(p) /\ KindInv(p) /\ Saving(p)
      /\ session \in SessionsOf[lastKey] \cup {NoSession}
      /\ m.t \in {"join", "rejoin", "data", "response", "update", "activate"}
  BY RequestParts DEF TInv, SessionTypes, HandlerTypes, Stage, Set, HInv, Keys, Saving
<1>1. /\ Sent \subseteq Requests /\ (\A a \in accepts : a.for \in Requests) /\ lastKey \in Nat
      /\ m \in Frames /\ m \in Sent
  BY <1>0, FrameTypes DEF Frames, Sent, Busy
<1>2. UNCHANGED <<accepts, sent, activations, lastKey, index>>
  BY DEF Set
<1>3. s # NoSession /\ s.rj \in Int /\ Indexed(s)
  <2>1. s # NoSession
    BY <1>0, SessionsGrow, NothingApart, ConstantsOK
  <2>2. s.rj \in 0 .. RJMod - 1
    BY <1>0, SessionParts
  <2> QED BY <1>0, <2>1, <2>2 DEF SaveInv, Indexed
<1>4. /\ \A q \in Procs : q # p => at[q] = "idle" /\ at'[q] = "idle"
      /\ \/ at'[p] = "idle"
         \/ at'[p] = "sadd" /\ m.t = "data" /\ req'[p] = [m EXCEPT !.t = "response"] /\ ds'[p] = s
         \/ /\ at'[p] = IF m.t = "update" THEN "commit" ELSE "send"
            /\ m.t \in {"join", "rejoin", "update"} /\ req'[p] = m /\ ds'[p] = s
  BY <1>0 DEF Set, SaveDone, Finish, Goto, TInv, HandlerTypes, SessionTypes, HInv, Alone
<1>5. Alone'
  BY <1>4 DEF Alone
<1>6. \A n : Done(n) => Done(n)'
  BY <1>0, <1>2, <1>4 DEF Done
<1>7. AcceptedInv'
  BY <1>2, <1>6 DEF HInv, AcceptedInv
<1>8. CASE m.t = "activate"
  <2>1. /\ device' = [addr |-> s.addr, key |-> s.key, rj |-> 0] /\ waiting' = None /\ air' = None
        /\ s.key = 0
    BY <1>0, <1>8 DEF Set, KindInv
  <2>2. \A q \in Procs : at'[q] = "idle"
    BY <1>4, <1>8
  <2>3. Frames' = {} /\ Sent' \subseteq Sent /\ Answers' = {}
    <3>1. Busy' = {}
      BY <2>2 DEF Busy
    <3>2. Frames' = {}
      BY <2>1, <3>1 DEF Frames
    <3> QED BY <1>1, <1>2, <2>1, <3>2, NothingApart DEF Sent, Answers
  <2>4. FramesInv'
    BY <1>1, <1>2, <2>1, <2>3 DEF HInv, FramesInv
  <2>5. AnsweredInv' /\ OldFrames'
    BY <2>3 DEF AnsweredInv, OldFrames
  <2>6. HeardInv'
    <3>1. device'.addr = s.addr /\ device'.key = s.key
      BY <2>1
    <3>2. Hears(s, device')
      BY <1>0, <3>1, HearsMain
    <3> QED BY <1>0, <1>2, <1>3, <2>3, <3>2 DEF HeardInv, Indexed, Hears
  <2>7. \A q \in Procs : SaveInv(q)' /\ KindInv(q)'
    BY <2>2 DEF SaveInv, KindInv, Saving
  <2> QED BY <1>5, <1>7, <2>4, <2>5, <2>6, <2>7 DEF HInv
<1>9. CASE m.t # "activate"
  <2>1. UNCHANGED <<device, waiting, air>>
    BY <1>9 DEF Set
  <2>2. Answers' = Answers
    BY <1>2, <2>1 DEF Answers
  <2>3. Answers = {} \/ m.t = "update"
    BY <1>0, <1>9, NotAnswered
  <2>4. m.t = "update" => /\ session # NoSession /\ session \in SessionsOf[lastKey]
                          /\ s = [session EXCEPT !.disabled = m.disabled] /\ m.disabled \in BOOLEAN
    BY <1>0, RequestParts DEF KindInv
  <2>5. m.t = "update" => s.key = session.key /\ s.rj = session.rj
    <3>1. ASSUME m.t = "update"
          PROVE  session = [addr |-> session.addr, key |-> session.key, disabled |-> session.disabled,
                            rj |-> session.rj, pending |-> session.pending]
      BY <1>0, <2>4, <3>1, SessionParts
    <3> QED BY <2>4, <3>1
  <2>6. m.t = "join" => device = NoSession
    BY <1>0, JoinWithoutSession DEF Creating
  <2>7. m.t \in {"rejoin", "data", "response"} /\ device # NoSession =>
          device.key = s.key /\ device.addr = s.addr
    BY <1>0, <1>1 DEF KindInv, HInv, OldFrames
  <2>8. \A f \in Frames' : f \in Frames \/ (f.t = "response" /\ m.t = "data" /\ f.addr = m.addr /\ f.key = m.key)
    <3>1. m.t = "data" => LET r == [m EXCEPT !.t = "response"]
                          IN  r.t = "response" /\ r.addr = m.addr /\ r.key = m.key
      <4>1. m.t = "data" => m \in [t : {"data", "response"}, addr : Addrs, key : Keys]
        BY <1>0 DEF Requests
      <4> QED BY <4>1
    <3> QED BY <1>1, <1>4, <2>1, <3>1 DEF Frames, Busy
  <2>9. \A f \in Sent' : f \in Sent \/ f.t = "response"
    BY <1>2, <2>8 DEF Sent
  <2>10. FramesInv'
    BY <1>2, <2>1, <2>2, <2>9 DEF HInv, FramesInv
  <2>11. AnsweredInv'
    <3> SUFFICES ASSUME Answers # {} PROVE AnsweredInv'
      BY <2>2 DEF AnsweredInv
    <3>1. m.t = "update" /\ (at'[p] = "idle" \/ req'[p] = m)
      BY <1>4, <2>3
    <3>2. waiting.t = "rejoin" => (s.key = waiting.key => s.rj > waiting.rj)
      BY <2>4, <2>5, <3>1 DEF HInv, AnsweredInv
    <3> QED BY <1>0, <1>4, <2>1, <3>1, <3>2 DEF AnsweredInv
  <2>12. OldFrames'
    <3> SUFFICES ASSUME device # NoSession, NEW f \in Frames'
                 PROVE  /\ f.t = "join" => Done(f.nonce)'
                        /\ f.t \in {"data", "response"} => f.addr = device.addr /\ f.key = device.key
                        /\ f.t = "rejoin" => (f.key = s.key /\ f.rj >= s.rj => f.key = device.key)
      BY <1>0, <2>1 DEF OldFrames
    <3>1. CASE f \in Frames
      <4>1. f.t = "rejoin" => (f.key = s.key /\ f.rj >= s.rj => f.key = device.key)
        BY <1>0, <1>9, <2>4, <2>5, <2>6, <2>7, <3>1 DEF HInv, OldFrames
      <4> QED BY <1>6, <3>1, <4>1 DEF HInv, OldFrames
    <3>2. CASE f.t = "response" /\ m.t = "data" /\ f.addr = m.addr /\ f.key = m.key
      BY <1>1, <3>2 DEF HInv, OldFrames
    <3> QED BY <2>8, <3>1, <3>2
  <2>13. HeardInv'
    <3>1. device # NoSession => Hears(s, device)
      <4>1. CASE m.t = "update"
        BY <1>0, <2>4, <4>1, HearsUpdated DEF HInv, HeardInv
      <4>2. CASE m.t # "update"
        BY <1>0, <1>9, <2>6, <2>7, <4>2, HearsMain
      <4> QED BY <4>1, <4>2
    <3>2. \A a \in Answers : Hears(s, a)
      BY <1>0, <2>3, <2>4, HearsUpdated DEF HInv, HeardInv
    <3> QED BY <1>0, <1>2, <1>3, <2>1, <2>2, <3>1, <3>2 DEF HeardInv, Indexed
  <2>14. \A q \in Procs : SaveInv(q)'
    BY <1>0, <1>4 DEF SaveInv
  <2>15. KindInv(p)'
    <3>1. CASE at'[p] = "idle" \/ at'[p] = "commit"
      BY <3>1 DEF KindInv, Saving
    <3>2. CASE at'[p] = "sadd" /\ m.t = "data" /\ req'[p] = [m EXCEPT !.t = "response"] /\ ds'[p] = s
      <4>1. m \in [t : {"data", "response"}, addr : Addrs, key : Keys]
        BY <1>0, <3>2 DEF Requests
      <4>2. req'[p].t = "response" /\ req'[p].addr = m.addr /\ req'[p].key = m.key
        BY <3>2, <4>1
      <4> QED BY <1>0, <3>2, <4>2 DEF KindInv, Saving
    <3>3. CASE at'[p] = "send" /\ m.t \in {"join", "rejoin"} /\ req'[p] = m /\ ds'[p] = s
      <4>1. Sent' \subseteq Sent
        BY <1>2, <2>8, <3>3 DEF Sent
      <4>2. m.t = "join" => New(ds[p])'
        BY <1>0, <1>2, <3>3, <4>1 DEF KindInv, New
      <4>3. m.t = "rejoin" => New(ds[p].pending)'
        BY <1>0, <1>2, <3>3, <4>1 DEF KindInv, New
      <4> QED BY <1>0, <2>1, <3>3, <4>2, <4>3 DEF KindInv, Saving
    <3> QED BY <1>4, <3>1, <3>2, <3>3
  <2>16. \A q \in Procs : q # p => KindInv(q)'
    BY <1>4 DEF KindInv, Saving
  <2> QED BY <1>5, <1>7, <2>10, <2>11, <2>12, <2>13, <2>14, <2>15, <2>16 DEF HInv
<1> QED BY <1>8, <1>9

\* The join-accept leaves after the session is saved: if the device waits for it,
\* the session hears it.
LEMMA SendHInv ==
    ASSUME TInv, NonceInv, HInv, NEW p \in Procs, SendJoinAccept(p)
    PROVE  HInv'
<1> DEFINE s == ds[p]
           m == req[p]
           new == IF m.t = "join" THEN s ELSE s.pending
           a == [for |-> m, addr |-> new.addr, key |-> new.key]
<1>0. /\ lastKey \in 0 .. MaxKeys /\ at[p] = "send" /\ s \in SessionsOf[lastKey] /\ m \in Requests
      /\ m.t \in {"join", "rejoin"} /\ (m.t = "rejoin" => s.pending # NoSession)
      /\ session = s /\ KindInv(p)
  BY DEF TInv, SessionTypes, HandlerTypes, Stage, SendJoinAccept, HInv, SaveInv, Keys
<1>1. /\ UNCHANGED <<session, index, activations, lastKey, device, waiting, sent, air>>
      /\ accepts' = accepts \cup {a}
  BY DEF SendJoinAccept
<1>2. /\ \A q \in Procs : q # p => at[q] = "idle" /\ at'[q] = "idle"
      /\ m.t = "join" => at'[p] = "commit" /\ req'[p] = m
      /\ m.t = "rejoin" => at'[p] = "idle"
  BY <1>0 DEF SendJoinAccept, Finish, Goto, TInv, HandlerTypes, HInv, Alone
<1>3. a.for = m /\ a.addr = new.addr /\ a.key = new.key
  OBVIOUS
<1>4. s # NoSession /\ Answers = {} /\ m \in Frames /\ m \in Sent
  <2>1. s # NoSession
    BY <1>0, SessionsGrow, NothingApart, ConstantsOK
  <2>2. Answers = {}
    BY <1>0, NotAnswered
  <2> QED BY <1>0, <2>1, <2>2 DEF Frames, Sent, Busy
<1>5. new.key <= lastKey /\ \A f \in Sent : f.t = "rejoin" => f.key # new.key
  BY <1>0 DEF KindInv, New
<1>6. Hears(s, a)
  <2>1. CASE m.t = "join"
    BY <1>0, <1>3, <2>1, HearsMain
  <2>2. CASE m.t = "rejoin"
    <3>1. s.pending.key # s.key
      BY <1>0, <2>2 DEF KindInv
    <3> QED BY <1>0, <1>3, <1>4, <2>2, <3>1, HearsPending
  <2> QED BY <1>0, <2>1, <2>2
<1> HIDE DEF a, new
<1>7. Frames' \subseteq Frames /\ Sent' \subseteq Sent
  <2>1. Frames' \subseteq Frames
    BY <1>1, <1>2, <1>0 DEF Frames, Busy
  <2> QED BY <1>1, <1>3, <1>4, <2>1 DEF Sent
<1>8. \A x \in Answers' : x = a /\ waiting = m
  BY <1>1, <1>3, <1>4 DEF Answers
<1>9. \A n : Done(n) => Done(n)'
  BY <1>0, <1>1, <1>2 DEF Done
<1>10. Alone'
  BY <1>2 DEF Alone
<1>11. FramesInv'
  <2>1. \A x \in accepts' : x.key <= lastKey
    BY <1>1, <1>3, <1>5 DEF HInv, FramesInv
  <2>2. \A x \in Answers', f \in Sent' : f.t = "rejoin" => f.key # x.key
    BY <1>3, <1>5, <1>7, <1>8
  <2> QED BY <1>1, <1>7, <2>1, <2>2 DEF HInv, FramesInv
<1>12. AnsweredInv'
  <2> SUFFICES ASSUME Answers' # {} PROVE AnsweredInv'
    BY DEF AnsweredInv
  <2>1. waiting = m
    BY <1>8
  <2>2. m.t = "rejoin" => s.rj > m.rj
    <3>1. m.t = "rejoin" => s.rj = m.rj + 1 /\ m.rj \in Int
      BY <1>0, RequestParts DEF KindInv
    <3> QED BY <3>1
  <2> QED BY <1>0, <1>1, <1>2, <2>1, <2>2 DEF AnsweredInv
<1>13. AcceptedInv'
  <2>1. \A n : m.t = "join" /\ m.nonce = n => Done(n)'
    BY <1>2 DEF Done
  <2>2. ASSUME NEW x \in accepts', x.for.t = "join" PROVE Done(x.for.nonce)'
    <3>1. CASE x \in accepts
      BY <1>9, <2>2, <3>1 DEF HInv, AcceptedInv
    <3>2. CASE x = a
      BY <1>3, <2>1, <2>2, <3>2
    <3> QED BY <1>1, <2>2, <3>1, <3>2
  <2> QED BY <2>2 DEF AcceptedInv
<1>14. OldFrames'
  BY <1>1, <1>7, <1>9 DEF HInv, OldFrames
<1>15. HeardInv'
  BY <1>0, <1>1, <1>6, <1>8 DEF HInv, HeardInv, Indexed
<1>16. \A q \in Procs : SaveInv(q)' /\ KindInv(q)'
  BY <1>0, <1>2 DEF SaveInv, KindInv, Saving
<1> QED BY <1>10, <1>11, <1>12, <1>13, <1>14, <1>15, <1>16 DEF HInv

\* A step that ends the handler without a trace.
LEMMA ReturnHInv ==
    ASSUME TInv, HInv, NEW p \in Procs, Return(p), at[p] \notin {"idle", "commit"}
    PROVE  HInv'
BY FinishHInv DEF Return, outside

\* Every step of a handler keeps the invariant.
LEMMA StepHInv ==
    ASSUME OneAtATime, TInv, NonceInv, HInv, NEW p \in Procs, Step(p)
    PROVE  HInv'
<1>0. /\ Stage(p) /\ SaveInv(p) /\ KindInv(p) /\ lastKey \in 0 .. MaxKeys /\ lastKey \in Nat
      /\ row = [q \in Procs |-> row[q]] /\ at \in [Procs -> Labels]
      /\ req \in [Procs -> Requests \cup {None}] /\ req = [req EXCEPT ![p] = req[p]]
      /\ ds \in [Procs -> SessionsOf[lastKey] \cup {NoSession}] /\ ds = [ds EXCEPT ![p] = ds[p]]
      /\ lastKey <= lastKey /\ row = [row EXCEPT ![p] = row[p]]
  BY FrameTypes DEF TInv, FlagTypes, HandlerTypes, SessionTypes, HInv, Keys
<1>1. ASSUME NEW l \in Labels \ {"idle"}, Goto(p, l), at[p] \notin {"idle", "commit"},
             UNCHANGED <<session, device, waiting, air, accepts, sent, activations, lastKey, req>>,
             index \subseteq index', row' = [row EXCEPT ![p] = row'[p]], ds' = [ds EXCEPT ![p] = ds'[p]],
             Answers # {} => \/ req[p].t \in {"update", "activate"}
                             \/ l \in {"getDevice", "validateNonce", "getSession", "commit"},
             at'[p] = l => SaveInv(p)' /\ KindInv(p)'
      PROVE  HInv'
  <2>1. at'[p] = l /\ Private(p) /\ req'[p] = req[p]
    BY <1>0, <1>1 DEF Goto, Private
  <2> QED BY <1>0, <1>1, <2>1, MoveHInv
<1>2. CASE HandleFrame(p) \/ HandleAPI(p)
  BY <1>2, StartHInv
<1>3. CASE Fail(p)
  BY <1>3, ReturnHInv, ConstantsOK DEF Fail, OneAtATime
<1>4. CASE JoinGetDevice(p)
  <2>1. CASE disabled
    BY <1>4, <2>1, ReturnHInv DEF JoinGetDevice
  <2>2. CASE ~ disabled
    <3>1. /\ Goto(p, "validateNonce") /\ UNCHANGED <<session, activations, index, req, ds, lastKey, outside>>
          /\ at[p] = "getDevice"
      BY <1>4, <2>2 DEF JoinGetDevice
    <3>2. row' = [row EXCEPT ![p] = row'[p]] /\ ds' = [ds EXCEPT ![p] = ds'[p]]
      BY <1>0, <1>4, <2>2 DEF JoinGetDevice
    <3>3. at'[p] = "validateNonce" => SaveInv(p)' /\ KindInv(p)'
      BY DEF SaveInv, KindInv, Saving
    <3> QED BY <1>1, <3>1, <3>2, <3>3 DEF outside, Labels
  <2> QED BY <2>1, <2>2
<1>5. CASE ValidateDevNonce(p)
  <2>1. CASE activations[req[p].nonce] # 0
    BY <1>5, <2>1, ReturnHInv DEF ValidateDevNonce
  <2>2. CASE activations[req[p].nonce] = 0
    <3>1. /\ Goto(p, "joinServer") /\ UNCHANGED <<stores, req, row, ds, lastKey, outside>>
          /\ at[p] = "validateNonce" /\ req[p].t = "join"
      BY <1>5, <2>2 DEF ValidateDevNonce, NonceInv
    <3>2. Answers = {}
      <4> SUFFICES ASSUME Answers # {} PROVE FALSE
        OBVIOUS
      <4>1. req[p] = waiting
        BY <3>1 DEF HInv, AnsweredInv
      <4>2. Done(req[p].nonce)
        BY <3>1, <4>1 DEF HInv, AcceptedInv, Answers
      <4> QED BY <2>2, <3>1, <4>2 DEF Done, HInv, Alone
    <3>3. at'[p] = "joinServer" => SaveInv(p)' /\ KindInv(p)'
      BY <3>1 DEF SaveInv, KindInv, Saving
    <3> QED BY <1>0, <1>1, <3>1, <3>2, <3>3 DEF outside, stores, Labels
  <2> QED BY <2>1, <2>2
<1>6. CASE JoinServerAnswers(p)
  <2>1. PICK x \in Addrs : ds' = [ds EXCEPT ![p] = NewSession(x, lastKey', FALSE)]
    BY <1>6 DEF JoinServerAnswers
  <2>2. /\ at[p] = "joinServer" /\ req[p].t = "join" /\ lastKey' = lastKey + 1 /\ Goto(p, "sadd")
        /\ UNCHANGED <<stores, req, row, outside>>
    BY <1>6 DEF JoinServerAnswers
  <2>3. ds'[p] = NewSession(x, lastKey', FALSE) /\ ds'[p].key = lastKey + 1 /\ at'[p] = "sadd"
        /\ Private(p)
    BY <1>0, <2>1, <2>2 DEF NewSession, Goto, Private
  <2>4. Answers = {}
    BY <2>2, NotAnswered
  <2>5. New(ds[p])'
    <3>1. Sent' \subseteq Sent
      <4>1. Busy' = Busy
        BY <1>0, <2>2, <2>3 DEF Busy, Private
      <4> QED BY <2>2, <4>1 DEF Sent, Frames, outside
    <3>2. \A f \in Sent : f.t = "rejoin" => f.key <= lastKey /\ f.key \in Nat
      BY FrameTypes, RequestParts, ConstantsOK DEF HInv, FramesInv, Keys
    <3>3. \A f \in Sent' : f.t = "rejoin" => f.key # lastKey + 1
      BY <1>0, <3>1, <3>2
    <3>4. lastKey + 1 <= lastKey'
      BY <1>0, <2>2
    <3> QED BY <2>3, <3>3, <3>4 DEF New
  <2>6. SaveInv(p)' /\ KindInv(p)'
    BY <2>2, <2>3, <2>5 DEF SaveInv, KindInv, Saving
  <2>7. lastKey' \in Nat /\ lastKey <= lastKey'
    BY <1>0, <2>2
  <2> QED BY <2>2, <2>3, <2>4, <2>6, <2>7, MoveHInv DEF stores, outside
<1>7. CASE JoinCommits(p)
  <2>1. req[p].nonce \in Nonces
    BY <1>0, <1>7, RequestParts DEF JoinCommits, Stage
  <2>2. /\ \A n \in Nonces : activations[n] > 0 => activations'[n] > 0
        /\ activations'[req[p].nonce] > 0
    BY <1>7, <2>1 DEF JoinCommits, TInv, StoreTypes
  <2> QED BY <1>7, <2>2, FinishHInv DEF JoinCommits, outside
<1>8. CASE RejoinGetDevice(p)
  <2>1. CASE disabled
    BY <1>8, <2>1, ReturnHInv DEF RejoinGetDevice
  <2>2. CASE ~ disabled
    <3>1. /\ Goto(p, "getSession") /\ UNCHANGED <<stores, req, row, ds, lastKey, outside>>
          /\ at[p] = "getDevice"
      BY <1>8, <2>2 DEF RejoinGetDevice
    <3>2. at'[p] = "getSession" => SaveInv(p)' /\ KindInv(p)'
      BY DEF SaveInv, KindInv, Saving
    <3> QED BY <1>0, <1>1, <3>1, <3>2 DEF outside, stores, Labels
  <2> QED BY <2>1, <2>2
<1>9. CASE RejoinGetSession(p)
  <2> DEFINE s == [session EXCEPT !.rj = NextRejoinCount(req[p].rj)]
  <2>1. CASE session = NoSession \/ ~ RejoinValid(session, req[p])
    BY <1>9, <2>1, ReturnHInv DEF RejoinGetSession
  <2>2. CASE session # NoSession /\ RejoinValid(session, req[p])
    <3>1. /\ Goto(p, "joinServer") /\ UNCHANGED <<stores, req, row, lastKey, outside>>
          /\ at[p] = "getSession" /\ req[p].t = "rejoin" /\ ds' = [ds EXCEPT ![p] = s]
      BY <1>9, <2>2 DEF RejoinGetSession
    <3>2. /\ req[p].rj >= session.rj /\ req[p].key = session.key
          /\ NextRejoinCount(req[p].rj) # 0
      BY <2>2 DEF RejoinValid
    <3>3. /\ req[p] \in Requests /\ req[p].rj \in Nat /\ req[p] \in Frames /\ req[p] \in Sent
      BY <1>0, <3>1, RequestParts, ConstantsOK DEF Stage, Frames, Sent, Busy
    <3>4. NextRejoinCount(req[p].rj) = req[p].rj + 1
      <4>1. req[p].rj < RJMod /\ RJMod \in Nat
        BY <3>1, <3>3, ConstantsOK DEF HInv, FramesInv
      <4>2. CASE req[p].rj + 1 < RJMod
        BY <3>3, <4>1, <4>2 DEF NextRejoinCount
      <4>3. CASE req[p].rj + 1 = RJMod
        BY <3>2, <3>3, <4>1, <4>3 DEF NextRejoinCount
      <4> QED BY <3>3, <4>1, <4>2, <4>3
    <3>5. /\ session \in SessionsOf[lastKey] /\ session.rj \in Int
          /\ session = [addr |-> session.addr, key |-> session.key, disabled |-> session.disabled,
                        rj |-> session.rj, pending |-> session.pending]
      BY <1>0, <2>2, SessionParts DEF TInv, SessionTypes
    <3>6. s.key = session.key /\ s.addr = session.addr /\ s.rj = req[p].rj + 1
      BY <3>4, <3>5
    <3>7. Answers = {}
      <4> SUFFICES ASSUME Answers # {} PROVE FALSE
        OBVIOUS
      <4>1. req[p] = waiting
        BY <3>1 DEF HInv, AnsweredInv
      <4> QED BY <2>2, <3>1, <3>2, <3>3, <3>5, <4>1 DEF HInv, AnsweredInv
    <3>8. device # NoSession => device.key = session.key /\ device.addr = session.addr
      <4> SUFFICES ASSUME device # NoSession PROVE device.key = session.key /\ device.addr = session.addr
        OBVIOUS
      <4>1. device.key = session.key
        BY <2>2, <3>1, <3>2, <3>3 DEF HInv, OldFrames
      <4> QED BY <2>2, <4>1 DEF HInv, HeardInv, Hears
    <3>9. ds'[p] = s /\ at'[p] = "joinServer" /\ ds' = [ds EXCEPT ![p] = ds'[p]]
      BY <1>0, <3>1 DEF Goto
    <3> HIDE DEF s
    <3>10. SaveInv(p)' /\ KindInv(p)'
      BY <3>1, <3>2, <3>6, <3>8, <3>9 DEF SaveInv, KindInv, Saving, outside
    <3> QED BY <1>0, <1>1, <3>1, <3>7, <3>9, <3>10 DEF outside, stores, Labels
  <2> QED BY <2>1, <2>2
<1>10. CASE RejoinServerAnswers(p)
  <2>1. PICK x \in Addrs :
          ds' = [ds EXCEPT ![p].pending = PendingSession(ds[p], req[p].type, x, lastKey')]
    BY <1>10 DEF RejoinServerAnswers
  <2> DEFINE y == PendingSession(ds[p], req[p].type, x, lastKey')
  <2>2. /\ at[p] = "joinServer" /\ req[p].t = "rejoin" /\ lastKey' = lastKey + 1 /\ Goto(p, "sadd")
        /\ UNCHANGED <<stores, req, row, outside>>
    BY <1>10 DEF RejoinServerAnswers
  <2>3. /\ ds[p] \in SessionsOf[lastKey] /\ req[p] \in Requests
        /\ ds[p] = [addr |-> ds[p].addr, key |-> ds[p].key, disabled |-> ds[p].disabled,
                    rj |-> ds[p].rj, pending |-> ds[p].pending]
    BY <1>0, <2>2, SessionParts DEF Stage
  <2>4. y.key = lastKey'
    BY <2>3 DEF PendingSession, NewSession
  <2>5. ds'[p] = [ds[p] EXCEPT !.pending = y]
    BY <1>0, <2>1
  <2> HIDE DEF y
  <2>6. /\ ds'[p].addr = ds[p].addr /\ ds'[p].key = ds[p].key /\ ds'[p].rj = ds[p].rj
        /\ ds'[p].pending = y
    BY <2>3, <2>5
  <2>7. at'[p] = "sadd" /\ Private(p)
    BY <1>0, <2>1, <2>2 DEF Goto, Private
  <2>8. Answers = {}
    BY <2>2, NotAnswered
  <2>9. \A f \in Sent : f.t = "rejoin" => f.key <= lastKey /\ f.key \in Nat
    BY FrameTypes, RequestParts, ConstantsOK DEF HInv, FramesInv, Keys
  <2>10. New(ds[p].pending)'
    <3>1. Sent' \subseteq Sent
      <4>1. Busy' = Busy
        BY <1>0, <2>2, <2>7 DEF Busy, Private
      <4> QED BY <2>2, <4>1 DEF Sent, Frames, outside
    <3> QED BY <1>0, <2>2, <2>4, <2>6, <2>9, <3>1 DEF New
  <2>11. ds[p].key = req[p].key /\ ds[p].rj = req[p].rj + 1 /\ ds[p].key # lastKey'
         /\ (device # NoSession => device.key = ds[p].key /\ device.addr = ds[p].addr)
    <3>1. /\ ds[p].key = req[p].key /\ ds[p].rj = req[p].rj + 1
          /\ device # NoSession => device.key = ds[p].key /\ device.addr = ds[p].addr
      BY <1>0, <2>2 DEF KindInv
    <3>2. req[p] \in Sent
      BY <2>2 DEF Sent, Frames, Busy
    <3> QED BY <1>0, <2>2, <2>9, <3>1, <3>2
  <2>12. SaveInv(p)' /\ KindInv(p)'
    BY <2>2, <2>4, <2>6, <2>7, <2>10, <2>11 DEF SaveInv, KindInv, Saving, outside
  <2>13. lastKey' \in Nat /\ lastKey <= lastKey'
    BY <1>0, <2>2
  <2> QED BY <2>2, <2>7, <2>8, <2>12, <2>13, MoveHInv DEF stores, outside
<1>11. CASE SMembers(p)
  <2>1. CASE req[p].addr \notin index
    BY <1>11, <2>1, ReturnHInv DEF SMembers
  <2>2. CASE req[p].addr \in index
    <3>1. /\ Goto(p, "get") /\ UNCHANGED <<stores, req, row, ds, lastKey, outside>>
          /\ at[p] = "smembers" /\ req[p].t = "data"
      BY <1>11, <2>2 DEF SMembers, NonceInv
    <3>2. Answers = {}
      BY <3>1, NotAnswered
    <3>3. at'[p] = "get" => SaveInv(p)' /\ KindInv(p)'
      BY DEF SaveInv, KindInv, Saving
    <3> QED BY <1>0, <1>1, <3>1, <3>2, <3>3 DEF outside, stores, Labels
  <2> QED BY <2>1, <2>2
<1>12. CASE UplinkGet(p)
  <2>0. at[p] = "get" /\ req[p].t = "data" /\ Answers = {}
    BY <1>12, NotAnswered DEF UplinkGet, NonceInv
  <2>1. CASE session = NoSession
    <3>1. Goto(p, "srem") /\ UNCHANGED <<stores, req, row, ds, lastKey, outside>>
      BY <1>12, <2>1 DEF UplinkGet
    <3>2. at'[p] = "srem" => SaveInv(p)' /\ KindInv(p)'
      BY <2>1, <3>1 DEF SaveInv, KindInv, Saving, stores
    <3> QED BY <1>0, <1>1, <2>0, <3>1, <3>2 DEF outside, stores, Labels
  <2>2. CASE /\ session # NoSession
             /\ \A s \in Matching(session, req[p].addr, req[p].key) : s.disabled
    BY <1>12, <2>0, <2>2, ReturnHInv DEF UplinkGet
  <2>3. CASE /\ session # NoSession
             /\ ~ \A s \in Matching(session, req[p].addr, req[p].key) : s.disabled
    <3>1. PICK s \in Matching(session, req[p].addr, req[p].key) : ds' = [ds EXCEPT ![p] = s]
      BY <1>12, <2>3 DEF UplinkGet
    <3>2. Goto(p, "sadd") /\ UNCHANGED <<stores, req, row, lastKey, outside>>
      BY <1>12, <2>3 DEF UplinkGet
    <3>3. s.addr = req[p].addr /\ s.key = req[p].key
      BY <3>1 DEF Matching
    <3>4. ds'[p] = s /\ ds' = [ds EXCEPT ![p] = ds'[p]]
      BY <1>0, <3>1
    <3>5. at'[p] = "sadd" => SaveInv(p)' /\ KindInv(p)'
      BY <2>0, <3>2, <3>3, <3>4 DEF SaveInv, KindInv, Saving
    <3> QED BY <1>0, <1>1, <2>0, <3>2, <3>4, <3>5 DEF outside, stores, Labels
  <2> QED BY <2>1, <2>2, <2>3
<1>13. CASE SRem(p)
  BY <1>0, <1>13, FinishHInv DEF SRem, SaveInv, outside
<1>14. CASE UpdateDevice(p)
  <2>1. /\ Goto(p, "getSession") /\ at[p] = "updateDevice" /\ req[p].t = "update"
        /\ UNCHANGED <<session, activations, index, req, ds, lastKey, outside>>
        /\ row' = [row EXCEPT ![p] = req[p].disabled]
    BY <1>14 DEF UpdateDevice
  <2>2. row' = [row EXCEPT ![p] = row'[p]] /\ ds' = [ds EXCEPT ![p] = ds'[p]]
    BY <1>0, <2>1
  <2>3. at'[p] = "getSession" => SaveInv(p)' /\ KindInv(p)'
    BY DEF SaveInv, KindInv, Saving
  <2> QED BY <1>1, <2>1, <2>2, <2>3 DEF outside, Labels
<1>15. CASE UpdateGetSession(p)
  <2>1. /\ at[p] = "getSession" /\ req[p].t = "update" /\ UNCHANGED <<stores, req, row, lastKey, outside>>
    BY <1>15 DEF UpdateGetSession
  <2>2. CASE session = NoSession
    <3>1. Goto(p, "commit") /\ UNCHANGED ds
      BY <1>15, <2>2 DEF UpdateGetSession
    <3>2. at'[p] = "commit" => SaveInv(p)' /\ KindInv(p)'
      BY DEF SaveInv, KindInv, Saving
    <3> QED BY <1>0, <1>1, <2>1, <3>1, <3>2 DEF outside, stores, Labels
  <2>3. CASE session # NoSession
    <3> DEFINE s == [session EXCEPT !.disabled = req[p].disabled]
    <3>1. Goto(p, "sadd") /\ ds' = [ds EXCEPT ![p] = s]
      BY <1>15, <2>3 DEF UpdateGetSession
    <3>2. ds'[p] = s /\ ds' = [ds EXCEPT ![p] = ds'[p]]
      BY <1>0, <3>1
    <3>3. at'[p] = "sadd" => SaveInv(p)' /\ KindInv(p)'
      BY <2>1, <2>3, <3>2 DEF SaveInv, KindInv, Saving, stores
    <3> QED BY <1>0, <1>1, <2>1, <3>1, <3>2, <3>3 DEF outside, stores, Labels
  <2> QED BY <2>2, <2>3
<1>16. CASE UpdateCommits(p)
  BY <1>16, FinishHInv DEF UpdateCommits
<1>17. CASE ActivateGetDevice(p)
  <2> DEFINE s == NewSession(req[p].addr, 0, disabled)
  <2>1. /\ Goto(p, "updateDevice") /\ at[p] = "getDevice" /\ req[p].t = "activate"
        /\ UNCHANGED <<stores, req, lastKey, outside>> /\ ds' = [ds EXCEPT ![p] = s]
        /\ row' = [row EXCEPT ![p] = disabled]
    BY <1>17 DEF ActivateGetDevice
  <2>2. /\ ds'[p] = s /\ ds' = [ds EXCEPT ![p] = ds'[p]] /\ row' = [row EXCEPT ![p] = row'[p]]
        /\ s.key = 0
    BY <1>0, <2>1 DEF NewSession
  <2> HIDE DEF s
  <2>3. at'[p] = "updateDevice" => SaveInv(p)' /\ KindInv(p)'
    BY <2>1, <2>2 DEF SaveInv, KindInv, Saving
  <2> QED BY <1>1, <2>1, <2>2, <2>3 DEF outside, stores, Labels
<1>18. CASE ActivateUpdateDevice(p)
  <2>1. /\ Goto(p, "sadd") /\ at[p] = "updateDevice" /\ req[p].t = "activate"
        /\ UNCHANGED <<activations, session, index, req, row, ds, lastKey, outside>>
    BY <1>18 DEF ActivateUpdateDevice
  <2>2. at'[p] = "sadd" => SaveInv(p)' /\ KindInv(p)'
    BY <1>0, <2>1 DEF SaveInv, KindInv, Saving
  <2> QED BY <1>0, <1>1, <2>1, <2>2 DEF outside, Labels
<1>19. CASE SAdd(p) \/ SAddPending(p)
  <2> DEFINE l == IF SAdd(p) /\ ds[p].pending # NoSession THEN "saddPending" ELSE "set"
  <2>1. /\ Goto(p, l) /\ at[p] \in {"sadd", "saddPending"} /\ index \subseteq index'
        /\ UNCHANGED <<activations, session, req, row, ds, lastKey, outside>>
        /\ ds[p].addr \in index'
        /\ l = "set" /\ ds[p].pending # NoSession => ds[p].pending.addr \in index'
    BY <1>0, <1>19 DEF SAdd, SAddPending, SaveInv
  <2>2. l \in {"saddPending", "set"}
    OBVIOUS
  <2> HIDE DEF l
  <2>3. Answers = {} \/ req[p].t \in {"update", "activate"}
    BY <2>1, NotAnswered
  <2>4. at'[p] = l => SaveInv(p)'
    BY <2>1, <2>2 DEF SaveInv
  <2>5. ASSUME at'[p] = l PROVE KindInv(p)'
    <3>1. Sent' \subseteq Sent
      BY <2>1, <2>2, <2>5, <1>0 DEF Sent, Frames, Busy, outside, Goto
    <3>2. /\ New(ds[p]) => New(ds[p])'
          /\ New(ds[p].pending) => New(ds[p].pending)'
      BY <2>1, <3>1 DEF New
    <3> QED BY <1>0, <2>1, <2>2, <2>5, <3>2 DEF KindInv, Saving, outside
  <2> QED BY <1>0, <1>1, <2>1, <2>2, <2>3, <2>4, <2>5 DEF outside, Labels
<1>20. CASE Set(p) \/ SendJoinAccept(p)
  BY <1>20, SetHInv, SendHInv
<1> QED
  BY <1>2, <1>3, <1>4, <1>5, <1>6, <1>7, <1>8, <1>9, <1>10, <1>11, <1>12, <1>13, <1>14, <1>15,
     <1>16, <1>17, <1>18, <1>19, <1>20 DEF Step

\* Every step keeps the invariant.
LEMMA NextHInv == OneAtATime => (TInv /\ NonceInv /\ HInv /\ [Next]_vars => HInv')
<1> SUFFICES ASSUME OneAtATime, TInv, NonceInv, HInv, [Next]_vars PROVE HInv'
  OBVIOUS
<1>1. CASE DeviceStep
  BY <1>1, DeviceHInv
<1>2. CASE \E p \in Procs : Step(p)
  BY <1>2, StepHInv
<1>3. CASE DeactivateDevice
  <2>1. \A q \in Procs : at[q] = "idle"
    BY <1>3, StartsAlone DEF DeactivateDevice, HInv
  <2>2. session' = NoSession
        /\ UNCHANGED <<activations, index, at, req, ds, lastKey, device, waiting, sent, air, accepts>>
    BY <1>3 DEF DeactivateDevice, handlers, outside
  <2>3. Frames' = Frames /\ Sent' = Sent /\ Answers' = Answers /\ \A n : Done(n)' <=> Done(n)
    BY <2>2 DEF Frames, Sent, Answers, Busy, Done
  <2>4. Alone' /\ FramesInv' /\ AcceptedInv' /\ HeardInv'
    BY <2>2, <2>3 DEF HInv, Alone, FramesInv, AcceptedInv, HeardInv
  <2>5. AnsweredInv' /\ OldFrames'
    BY <2>2, <2>3 DEF HInv, AnsweredInv, OldFrames
  <2>6. \A q \in Procs : SaveInv(q)' /\ KindInv(q)'
    BY <2>1, <2>2 DEF SaveInv, KindInv, Saving
  <2> QED BY <2>4, <2>5, <2>6 DEF HInv
<1>4. CASE UNCHANGED vars
  <2>1. UNCHANGED <<session, activations, index, at, req, ds, lastKey, device, waiting, sent, air, accepts>>
    BY <1>4 DEF vars, stores, handlers, outside
  <2>2. Frames' = Frames /\ Sent' = Sent /\ Answers' = Answers /\ \A n : Done(n)' <=> Done(n)
    BY <2>1 DEF Frames, Sent, Answers, Busy, Done
  <2>3. Alone' /\ FramesInv' /\ AcceptedInv' /\ HeardInv'
    BY <2>1, <2>2 DEF HInv, Alone, FramesInv, AcceptedInv, HeardInv, Indexed
  <2>4. AnsweredInv' /\ OldFrames'
    BY <2>1, <2>2 DEF HInv, AnsweredInv, OldFrames
  <2>5. \A q \in Procs : SaveInv(q)' /\ KindInv(q)'
    <3>1. \A s : New(s)' <=> New(s)
      BY <2>1, <2>2 DEF New
    <3> QED BY <2>1, <2>2 DEF HInv, SaveInv, KindInv, Saving, New
  <2> QED BY <2>3, <2>4, <2>5 DEF HInv
<1> QED BY <1>1, <1>2, <1>3, <1>4 DEF Next

\* A device is heard on the session it uses, whichever frames and join-accepts
\* are lost or repeated and wherever a handler fails before its commit
\* (join.Handle, rejoin.Handle, GetDeviceSessionForPHYPayload and
\* SaveDeviceSession), for handlers that run one after the other.
THEOREM AlwaysHeard == OneAtATime => (Spec => []DeviceHeard)
<1> SUFFICES ASSUME OneAtATime PROVE Spec => []DeviceHeard
  OBVIOUS
<1>1. TInv /\ HInv => DeviceHeard
  <2> SUFFICES ASSUME TInv, HInv, device # NoSession, session # NoSession PROVE Found # {}
    BY DEF DeviceHeard
  <2>1. PICK x \in Matching(session, device.addr, device.key) : TRUE
    BY DEF HInv, HeardInv, Hears
  <2>2. x.addr = device.addr /\ (x = session \/ (x = session.pending /\ x # NoSession))
    BY <2>1 DEF Matching
  <2>3. device.addr \in index
    BY <2>2 DEF HInv, HeardInv, Indexed
  <2> QED BY <2>1, <2>3 DEF Found
<1>2. TInv /\ NonceInv /\ HInv /\ [Next]_vars => HInv'
  BY NextHInv
<1>3. IInv => NonceInv
  BY DEF IInv
<1> QED BY <1>1, <1>2, <1>3, InitHInv, AlwaysTInv, AlwaysIInv, PTL DEF Spec
=============================================================================
