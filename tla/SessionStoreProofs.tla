------------------------- MODULE SessionStoreProofs -------------------------
(***************************************************************************)
(* Proofs about SessionStore, for any number of handlers, addresses, keys  *)
(* and join-requests.                                                      *)
(*                                                                         *)
(* What a join does to the activations is safe because its transaction has *)
(* the row lock from the statement that reads the device to its end: the   *)
(* invariant LockInv says which handlers have the lock, and NonceInv what  *)
(* a join that has validated its DevNonce may rely on.                     *)
(***************************************************************************)
EXTENDS SessionStore, TLAPS

\* A request has a type, and a join-request a DevNonce of the activation table.
ReqOK(m) == "t" \in DOMAIN m /\ (m.t = "join" => m.nonce \in Nonces)

\* The part of the types that the proofs use.
Typed ==
    /\ activations \in [Nonces -> Nat]
    /\ at \in [Procs -> Labels]
    /\ req = [p \in Procs |-> req[p]]
    /\ \A p \in Procs : at[p] # "idle" => ReqOK(req[p])
    /\ air # None => ReqOK(air)
    /\ sent \in Nat

\* The joins whose transaction has read the device row, and the updates whose
\* transaction has written it.
Joining(p) == at[p] = "validateNonce" \/ Creating(p)
Updating(p) ==
    /\ req[p].t = "update"
    /\ at[p] \in {"getSession", "sadd", "saddPending", "set", "commit"}

\* They have the row lock.
LockInv == \A p \in Procs : Joining(p) \/ Updating(p) => lock = p

\* A join works on a join-request and a search on a data frame; the DevNonce has no activation once it is
\* validated, and no DevNonce has two.
NonceInv ==
    /\ \A p \in Procs :
         /\ at[p] = "validateNonce" => req[p].t = "join"
         /\ at[p] \in {"smembers", "get", "srem"} => req[p].t = "data"
         /\ Creating(p) => activations[req[p].nonce] = 0
    /\ NonceOnce

IInv == Typed /\ LockInv /\ NonceInv

\* Initially nothing is activated and no handler is at work.
LEMMA InitIInv == Init => IInv
BY ConstantsOK DEF Init, IInv, Typed, LockInv, NonceInv, NonceOnce, Joining, Updating, Creating,
     Labels, Nonces

\* A handler that ends keeps the invariant: it gives the lock back and leaves
\* the others alone.
LEMMA FinishIInv ==
    ASSUME IInv, NEW p \in Procs, Finish(p), None \notin Procs,
           UNCHANGED <<activations, sent>>, air' \in {air, None}
    PROVE  IInv'
<1>1. \A q \in Procs : q # p => at'[q] = at[q] /\ req'[q] = req[q]
  BY DEF IInv, Typed, Finish, Goto
<1>2. at'[p] = "idle"
  BY DEF IInv, Typed, Finish, Goto
<1>3. Typed'
  <2>1. at' \in [Procs -> Labels] /\ req' = [q \in Procs |-> req'[q]]
    BY DEF IInv, Typed, Finish, Goto, Labels
  <2> QED BY <1>1, <1>2, <2>1 DEF IInv, Typed, ReqOK
<1>4. LockInv'
  BY <1>1, <1>2 DEF IInv, LockInv, Joining, Updating, Creating, Finish, Unlock
<1>5. NonceInv'
  BY <1>1, <1>2 DEF IInv, NonceInv, NonceOnce, Creating
<1> QED BY <1>3, <1>4, <1>5 DEF IInv

\* A handler that moves on with the same request keeps the invariant, when it
\* has the lock wherever it must, and has nothing to prove about its DevNonce.
LEMMA MoveIInv ==
    ASSUME IInv, NEW p \in Procs, NEW l \in Labels, Goto(p, l),
           UNCHANGED <<activations, air, sent, req, lock>>,
           (Joining(p) \/ Updating(p))' => Joining(p) \/ Updating(p),
           at[p] # "idle", l # "validateNonce", Creating(p)' => Creating(p),
           l \in {"smembers", "get", "srem"} => req[p].t = "data"
    PROVE  IInv'
<1>1. Typed'
  BY DEF IInv, Typed, Goto, ReqOK
<1>2. \A q \in Procs : q # p => at'[q] = at[q]
  BY DEF IInv, Typed, Goto
<1>3. at'[p] = l
  BY DEF IInv, Typed, Goto
<1>4. LockInv'
  BY <1>2, <1>3 DEF IInv, LockInv, Joining, Updating, Creating
<1>5. NonceInv'
  BY <1>2, <1>3 DEF IInv, NonceInv, NonceOnce, Creating
<1> QED BY <1>1, <1>4, <1>5 DEF IInv

\* Steps that touch neither the activations nor a handler keep the invariant.
LEMMA OutsideIInv ==
    ASSUME IInv, UNCHANGED <<activations, lock, at, req>>,
           air' # None => ReqOK(air'), sent' \in Nat
    PROVE  IInv'
BY DEF IInv, Typed, ReqOK, LockInv, NonceInv, NonceOnce, Joining, Updating, Creating

\* A handler that starts keeps the invariant.
LEMMA StartIInv ==
    ASSUME IInv, NEW p \in Procs, NEW l \in {"smembers", "getDevice", "updateDevice"},
           NEW m, ReqOK(m), l = "smembers" => m.t = "data", Goto(p, l), req' = [req EXCEPT ![p] = m],
           UNCHANGED <<activations, air, sent, lock>>
    PROVE  IInv'
<1>1. \A q \in Procs : q # p => at'[q] = at[q] /\ req'[q] = req[q]
  BY DEF IInv, Typed, Goto
<1>2. at'[p] = l /\ req'[p] = m
  BY DEF IInv, Typed, Goto
<1>3. Typed'
  <2>1. at' \in [Procs -> Labels] /\ req' = [q \in Procs |-> req'[q]]
    BY DEF IInv, Typed, Goto, Labels
  <2> QED BY <1>1, <1>2, <2>1 DEF IInv, Typed, ReqOK
<1>4. LockInv'
  BY <1>1, <1>2 DEF IInv, LockInv, Joining, Updating, Creating
<1>5. NonceInv'
  BY <1>1, <1>2 DEF IInv, NonceInv, NonceOnce, Creating
<1> QED BY <1>3, <1>4, <1>5 DEF IInv

\* Every step of the device and every start of a handler keeps the invariant.
LEMMA DeviceIInv == IInv /\ DeviceStep => IInv'
<1> SUFFICES ASSUME IInv, DeviceStep PROVE IInv'
  OBVIOUS
<1> USE ConstantsOK
<1>0. sent \in Nat /\ (air # None => ReqOK(air))
  BY DEF IInv, Typed
<1>1. CASE DeviceJoins
  <2>1. ReqOK(air') /\ sent' \in Nat
    BY <1>0, <1>1 DEF DeviceJoins, ReqOK, Nonces
  <2> QED BY <1>1, <2>1, OutsideIInv DEF DeviceJoins, stores, handlers
<1>2. ASSUME NEW type \in {0, 2}, DeviceRejoins(type) PROVE IInv'
  <2>1. ReqOK(air') /\ sent' \in Nat
    BY <1>0, <1>2 DEF DeviceRejoins, ReqOK
  <2> QED BY <1>2, <2>1, OutsideIInv DEF DeviceRejoins, stores, handlers
<1>3. CASE DeviceSendsData
  <2>1. ReqOK(air') /\ sent' \in Nat
    BY <1>0, <1>3 DEF DeviceSendsData, ReqOK
  <2> QED BY <1>3, <2>1, OutsideIInv DEF DeviceSendsData, stores, handlers
<1>4. CASE DeviceAccepted
  BY <1>0, <1>4, OutsideIInv DEF DeviceAccepted, stores, handlers
<1> QED BY <1>1, <1>2, <1>3, <1>4 DEF DeviceStep

\* Every step of a handler keeps the invariant.  The steps that matter are those
\* of a join: JoinGetDevice takes the lock, ValidateDevNonce sees no activation,
\* JoinCommits adds the first one.
LEMMA StepIInv == ASSUME IInv, NEW p \in Procs, Step(p) PROVE IInv'
<1> USE ConstantsOK
<1>0. /\ at[p] \in Labels /\ (at[p] # "idle" => ReqOK(req[p])) /\ (air # None => ReqOK(air))
      /\ \A q \in Procs : Joining(q) \/ Updating(q) => lock = q
      /\ at[p] = "validateNonce" => req[p].t = "join"
      /\ at[p] \in {"smembers", "get", "srem"} => req[p].t = "data"
  BY DEF IInv, Typed, LockInv, NonceInv
<1>a. ASSUME Return(p) PROVE IInv'
  BY <1>a, FinishIInv DEF Return, outside
<1>1. CASE HandleFrame(p)
  BY <1>0, <1>1, StartIInv DEF HandleFrame, outside, stores
<1>2. CASE HandleAPI(p)
  <2>1. ASSUME NEW d \in BOOLEAN, req' = [req EXCEPT ![p] = [t |-> "update", disabled |-> d]],
               Goto(p, "updateDevice")
        PROVE  IInv'
    <3>1. ReqOK([t |-> "update", disabled |-> d])
      BY DEF ReqOK
    <3> QED BY <1>2, <2>1, <3>1, StartIInv DEF HandleAPI, outside, stores
  <2>2. ASSUME NEW a \in Addrs, req' = [req EXCEPT ![p] = [t |-> "activate", addr |-> a]],
               Goto(p, "getDevice")
        PROVE  IInv'
    <3>1. ReqOK([t |-> "activate", addr |-> a])
      BY DEF ReqOK
    <3> QED BY <1>2, <2>2, <3>1, StartIInv DEF HandleAPI, outside, stores
  <2> QED BY <1>2, <2>1, <2>2 DEF HandleAPI
<1>3. CASE Fail(p)
  BY <1>3, <1>a DEF Fail
<1>4. CASE JoinGetDevice(p)
  <2>1. CASE disabled
    BY <1>4, <1>a, <2>1 DEF JoinGetDevice
  <2>2. CASE ~ disabled
    <3>1. /\ lock = None /\ lock' = p /\ at' = [at EXCEPT ![p] = "validateNonce"]
          /\ UNCHANGED <<activations, req, air, sent>>
      BY <1>4, <2>2 DEF JoinGetDevice, Goto, outside
    <3>2. at[p] = "getDevice" /\ req[p].t = "join"
      BY <1>4 DEF JoinGetDevice
    <3>3. Typed'
      BY <3>1, <3>2 DEF IInv, Typed, ReqOK, Labels
    <3>4. \A q \in Procs : q # p => at'[q] = at[q]
      BY <3>1 DEF IInv, Typed
    <3>5. at'[p] = "validateNonce"
      BY <3>1 DEF IInv, Typed
    <3>6. \A q \in Procs : ~ (Joining(q) \/ Updating(q))
      BY <1>0, <3>1
    <3>7. LockInv'
      BY <3>1, <3>4, <3>6 DEF LockInv, Joining, Updating, Creating
    <3>8. NonceInv'
      BY <3>1, <3>2, <3>4, <3>5 DEF IInv, NonceInv, NonceOnce, Creating
    <3> QED BY <3>3, <3>7, <3>8 DEF IInv
  <2> QED BY <2>1, <2>2
<1>5. CASE ValidateDevNonce(p)
  <2>1. CASE activations[req[p].nonce] # 0
    BY <1>5, <1>a, <2>1 DEF ValidateDevNonce
  <2>2. CASE activations[req[p].nonce] = 0
    <3>1. /\ at' = [at EXCEPT ![p] = "joinServer"]
          /\ UNCHANGED <<activations, req, lock, air, sent>>
      BY <1>5, <2>2 DEF ValidateDevNonce, Goto, outside, stores
    <3>2. at[p] = "validateNonce" /\ req[p].t = "join" /\ lock = p
      BY <1>0, <1>5 DEF ValidateDevNonce, Joining
    <3>3. Typed'
      BY <3>1, <3>2 DEF IInv, Typed, ReqOK, Labels
    <3>4. \A q \in Procs : q # p => at'[q] = at[q]
      BY <3>1 DEF IInv, Typed
    <3>5. at'[p] = "joinServer"
      BY <3>1 DEF IInv, Typed
    <3>6. LockInv'
      BY <3>1, <3>2, <3>4 DEF IInv, LockInv, Joining, Updating, Creating
    <3>7. NonceInv'
      BY <2>2, <3>1, <3>4, <3>5 DEF IInv, NonceInv, NonceOnce, Creating
    <3> QED BY <3>3, <3>6, <3>7 DEF IInv
  <2> QED BY <2>1, <2>2
<1>6. CASE JoinCommits(p)
  <2>1. /\ at[p] = "commit" /\ req[p].t = "join" /\ Creating(p)
        /\ activations' = [activations EXCEPT ![req[p].nonce] = @ + 1]
        /\ at' = [at EXCEPT ![p] = "idle"] /\ req' = [req EXCEPT ![p] = None]
        /\ lock' = (IF lock = p THEN None ELSE lock)
        /\ UNCHANGED <<air, sent>>
    BY <1>6 DEF JoinCommits, Creating, Finish, Goto, Unlock, outside
  <2>2. lock = p /\ req[p].nonce \in Nonces /\ activations[req[p].nonce] = 0
    BY <1>0, <2>1 DEF IInv, NonceInv, Joining, ReqOK
  <2>3. \A q \in Procs : q # p => at'[q] = at[q] /\ req'[q] = req[q]
    BY <2>1 DEF IInv, Typed
  <2>4. at'[p] = "idle"
    BY <2>1 DEF IInv, Typed
  <2>5. \A q \in Procs : q # p => ~ (Joining(q) \/ Updating(q))
    BY <1>0, <2>2
  <2>6. \A n \in Nonces : activations'[n] = IF n = req[p].nonce THEN 1 ELSE activations[n]
    BY <2>1, <2>2 DEF IInv, Typed
  <2>7. Typed'
    <3>1. at' \in [Procs -> Labels] /\ req' = [q \in Procs |-> req'[q]]
      BY <2>1 DEF IInv, Typed, Labels
    <3>2. activations' \in [Nonces -> Nat]
      BY <2>1, <2>2 DEF IInv, Typed
    <3> QED BY <2>1, <2>3, <2>4, <3>1, <3>2 DEF IInv, Typed, ReqOK
  <2>8. LockInv'
    BY <2>3, <2>4, <2>5 DEF LockInv, Joining, Updating, Creating
  <2>9. NonceInv'
    BY <2>3, <2>4, <2>5, <2>6 DEF IInv, NonceInv, NonceOnce, Joining, Creating
  <2> QED BY <2>7, <2>8, <2>9 DEF IInv
<1>7. CASE JoinServerAnswers(p) \/ RejoinServerAnswers(p)
  <2>1. /\ Goto(p, "sadd") /\ at[p] = "joinServer" /\ req[p].t \in {"join", "rejoin"}
        /\ UNCHANGED <<activations, air, sent, req, lock>>
    BY <1>7 DEF JoinServerAnswers, RejoinServerAnswers, outside, stores
  <2>2. (Joining(p) \/ Updating(p))' => Joining(p) \/ Updating(p)
    BY <2>1 DEF Joining, Updating, Creating, Goto, IInv, Typed
  <2>3. Creating(p)' => Creating(p)
    BY <2>1 DEF Creating
  <2> QED BY <2>1, <2>2, <2>3, MoveIInv DEF Labels
<1>8. CASE RejoinGetDevice(p) \/ RejoinGetSession(p)
  <2>1. CASE Return(p)
    BY <1>a, <2>1
  <2>2. CASE ~ Return(p)
    <3>1. PICK l \in {"getSession", "joinServer"} :
             /\ Goto(p, l) /\ at[p] \in {"getDevice", "getSession"} /\ req[p].t = "rejoin"
             /\ UNCHANGED <<activations, air, sent, req, lock>>
      BY <1>8, <2>2 DEF RejoinGetDevice, RejoinGetSession, outside, stores
    <3>2. ~ (Joining(p) \/ Updating(p))' /\ ~ Creating(p)'
      BY <3>1 DEF Joining, Updating, Creating, Goto, IInv, Typed
    <3> QED BY <3>1, <3>2, MoveIInv DEF Labels
  <2> QED BY <2>1, <2>2
<1>9. CASE SMembers(p) \/ UplinkGet(p)
  <2>1. CASE Return(p)
    BY <1>a, <2>1
  <2>2. CASE ~ Return(p)
    <3>1. PICK l \in {"get", "srem", "sadd"} :
             /\ Goto(p, l) /\ at[p] \in {"smembers", "get"}
             /\ UNCHANGED <<activations, air, sent, req, lock>>
      BY <1>9, <2>2 DEF SMembers, UplinkGet, outside, stores
    <3>2. req[p].t = "data"
      BY <1>0, <3>1
    <3>3. ~ (Joining(p) \/ Updating(p))' /\ ~ Creating(p)'
      BY <3>1, <3>2 DEF Joining, Updating, Creating, Goto, IInv, Typed
    <3> QED BY <3>1, <3>2, <3>3, MoveIInv DEF Labels
  <2> QED BY <2>1, <2>2
<1>10. CASE SRem(p) \/ UpdateCommits(p)
  BY <1>10, FinishIInv DEF SRem, UpdateCommits, outside
<1>11. CASE UpdateDevice(p)
  <2>1. /\ lock = None /\ lock' = p /\ at' = [at EXCEPT ![p] = "getSession"]
        /\ at[p] = "updateDevice" /\ req[p].t = "update"
        /\ UNCHANGED <<activations, req, air, sent>>
    BY <1>11 DEF UpdateDevice, Goto, outside
  <2>2. Typed'
    BY <2>1 DEF IInv, Typed, ReqOK, Labels
  <2>3. \A q \in Procs : q # p => at'[q] = at[q]
    BY <2>1 DEF IInv, Typed
  <2>4. at'[p] = "getSession"
    BY <2>1 DEF IInv, Typed
  <2>5. \A q \in Procs : ~ (Joining(q) \/ Updating(q))
    BY <1>0, <2>1
  <2>6. LockInv'
    BY <2>1, <2>3, <2>5 DEF LockInv, Joining, Updating, Creating
  <2>7. NonceInv'
    BY <2>1, <2>3, <2>4 DEF IInv, NonceInv, NonceOnce, Creating
  <2> QED BY <2>2, <2>6, <2>7 DEF IInv
<1>12. CASE UpdateGetSession(p)
  <2>1. PICK l \in {"commit", "sadd"} :
           /\ Goto(p, l) /\ at[p] = "getSession" /\ req[p].t = "update"
           /\ UNCHANGED <<activations, air, sent, req, lock>>
    BY <1>12 DEF UpdateGetSession, outside, stores
  <2>2. (Joining(p) \/ Updating(p))' => Joining(p) \/ Updating(p)
    BY <2>1 DEF Updating
  <2>3. ~ Creating(p)'
    BY <2>1 DEF Creating
  <2> QED BY <2>1, <2>2, <2>3, MoveIInv DEF Labels
<1>13. CASE ActivateGetDevice(p) \/ ActivateUpdateDevice(p)
  <2>1. PICK l \in {"updateDevice", "sadd"} :
           /\ Goto(p, l) /\ at[p] \in {"getDevice", "updateDevice"} /\ req[p].t = "activate"
           /\ UNCHANGED <<activations, air, sent, req, lock>>
    BY <1>13 DEF ActivateGetDevice, ActivateUpdateDevice, outside, stores
  <2>2. ~ (Joining(p) \/ Updating(p))' /\ ~ Creating(p)'
    BY <2>1 DEF Joining, Updating, Creating, Goto, IInv, Typed
  <2> QED BY <2>1, <2>2, MoveIInv DEF Labels
<1>14. CASE SAdd(p) \/ SAddPending(p)
  <2>1. PICK l \in {"saddPending", "set"} :
           /\ Goto(p, l) /\ at[p] \in {"sadd", "saddPending"}
           /\ UNCHANGED <<activations, air, sent, req, lock>>
    BY <1>14 DEF SAdd, SAddPending, outside
  <2>2. (Joining(p) \/ Updating(p))' => Joining(p) \/ Updating(p)
    BY <2>1 DEF Joining, Updating, Creating, Goto, IInv, Typed
  <2>3. Creating(p)' => Creating(p)
    BY <2>1 DEF Creating
  <2> QED BY <2>1, <2>2, <2>3, MoveIInv DEF Labels
<1>15. CASE Set(p)
  <2>0. at[p] = "set" /\ UNCHANGED <<activations, sent>> /\ air' \in {air, None}
    BY <1>15 DEF Set
  <2>1. CASE Finish(p)
    BY <2>0, <2>1, FinishIInv
  <2>2. CASE /\ req[p].t = "data" /\ req' = [req EXCEPT ![p].t = "response"]
             /\ Goto(p, "sadd") /\ UNCHANGED lock
    <3>1. \A q \in Procs : q # p => at'[q] = at[q] /\ req'[q] = req[q]
      BY <2>2 DEF IInv, Typed, Goto
    <3>2. at'[p] = "sadd" /\ ReqOK(req'[p]) /\ req'[p].t = "response"
      BY <1>0, <2>0, <2>2 DEF IInv, Typed, Goto, ReqOK
    <3>3. Typed'
      <4>1. at' \in [Procs -> Labels] /\ req' = [q \in Procs |-> req'[q]]
        BY <2>2 DEF IInv, Typed, Goto, Labels
      <4> QED BY <2>0, <3>1, <3>2, <4>1 DEF IInv, Typed, ReqOK
    <3>4. LockInv'
      BY <2>2, <3>1, <3>2 DEF IInv, LockInv, Joining, Updating, Creating
    <3>5. NonceInv'
      BY <2>0, <3>1, <3>2 DEF IInv, NonceInv, NonceOnce, Creating
    <3> QED BY <3>3, <3>4, <3>5 DEF IInv
  <2>3. CASE /\ req[p].t \in {"join", "rejoin", "update"} /\ UNCHANGED <<lock, req, air>>
             /\ Goto(p, IF req[p].t = "update" THEN "commit" ELSE "send")
    <3>1. PICK l \in {"commit", "send"} : Goto(p, l)
      BY <2>3
    <3>2. (Joining(p) \/ Updating(p))' => Joining(p) \/ Updating(p)
      BY <2>0, <2>3 DEF Joining, Updating, Creating, Goto, IInv, Typed
    <3>3. Creating(p)' => Creating(p)
      BY <2>0, <2>3 DEF Creating
    <3> QED BY <2>0, <2>3, <3>1, <3>2, <3>3, MoveIInv DEF Labels
  <2> QED BY <1>15, <2>1, <2>2, <2>3 DEF Set, SaveDone
<1>16. CASE SendJoinAccept(p)
  <2>1. CASE req[p].t = "join"
    <3>1. /\ Goto(p, "commit") /\ at[p] = "send"
          /\ UNCHANGED <<activations, air, sent, req, lock>>
      BY <1>16, <2>1 DEF SendJoinAccept
    <3>2. (Joining(p) \/ Updating(p))' => Joining(p) \/ Updating(p)
      BY <2>1, <3>1 DEF Joining, Creating
    <3>3. Creating(p)' => Creating(p)
      BY <2>1, <3>1 DEF Creating
    <3> QED BY <3>1, <3>2, <3>3, MoveIInv DEF Labels
  <2>2. CASE req[p].t # "join"
    BY <1>16, <2>2, FinishIInv DEF SendJoinAccept
  <2> QED BY <2>1, <2>2
<1> QED BY <1>1, <1>2, <1>3, <1>4, <1>5, <1>6, <1>7, <1>8, <1>9, <1>10, <1>11, <1>12, <1>13, <1>14,
           <1>15, <1>16 DEF Step

\* The invariant is inductive.
LEMMA NextIInv == IInv /\ [Next]_vars => IInv'
<1> SUFFICES ASSUME IInv, [Next]_vars PROVE IInv'
  OBVIOUS
<1>1. CASE DeviceStep
  BY <1>1, DeviceIInv
<1>2. CASE DeactivateDevice
  BY <1>2, OutsideIInv DEF DeactivateDevice, handlers, outside, IInv, Typed
<1>3. CASE \E p \in Procs : Step(p)
  BY <1>3, StepIInv
<1>4. CASE UNCHANGED vars
  BY <1>4, OutsideIInv DEF vars, stores, handlers, outside, IInv, Typed
<1> QED BY <1>1, <1>2, <1>3, <1>4 DEF Next

\* The invariant holds in every behaviour.
LEMMA AlwaysIInv == Spec => []IInv
BY InitIInv, NextIInv, PTL DEF Spec

\* A DevNonce activates the device at most once (join.Handle, ValidateDevNonce
\* and CreateDeviceActivation), for any number of concurrent handlers of any
\* kind, with every failure and repetition the model allows.
THEOREM NonceUsedOnce == Spec => []NonceOnce
<1>1. IInv => NonceOnce
  BY DEF IInv, NonceInv
<1> QED BY <1>1, AlwaysIInv, PTL

\* Joins exclude one another from the validation of the DevNonce to the end of
\* the transaction, the writes to Redis and the join-accept included.
THEOREM JoinsExclude == Spec => []OneJoinAtATime
<1>1. IInv => OneJoinAtATime
  BY DEF IInv, LockInv, NonceInv, Joining, OneJoinAtATime
<1> QED BY <1>1, AlwaysIInv, PTL

-----------------------------------------------------------------------------
(***************************************************************************)
(* Joins and updates of the device, any number of them at the same time.   *)
(* They write the session in Redis only while they have the lock of the    *)
(* device row, so the session and the row agree whenever the lock is free; *)
(* the invariant says what the one handler inside knows meanwhile.         *)
(***************************************************************************)
JoinsAndUpdates == Ops \subseteq {"join", "update"} /\ "commit" \notin FailAt

FlatSessions == [addr : Addrs, key : Nat, disabled : BOOLEAN, rj : {0}, pending : {NoSession}]

\* a session that exists is disabled if d says so
InStep(d) == session # NoSession /\ d = TRUE => session.disabled = TRUE

\* a handler without the lock
Waiting(p) ==
    \/ at[p] = "idle"
    \/ at[p] = "getDevice" /\ req[p].t = "join"
    \/ at[p] = "updateDevice" /\ req[p].t = "update" /\ req[p].disabled \in BOOLEAN

\* the join with the lock: the device is not disabled
InsideJoin(p) ==
    /\ req[p].t = "join" /\ disabled = FALSE /\ row[p] = FALSE
    /\ at[p] \in {"validateNonce", "joinServer", "sadd", "set", "send", "commit"}
    /\ at[p] \in {"sadd", "set"} => ds[p] \in FlatSessions

\* the update with the lock: it saves what it is asked for; until then the
\* session is in step with the row it would be rolled back to
InsideUpdate(p) ==
    /\ req[p].t = "update" /\ req[p].disabled \in BOOLEAN /\ row[p] = req[p].disabled
    /\ at[p] \in {"getSession", "sadd", "set", "commit"}
    /\ at[p] \in {"sadd", "set"} => ds[p] \in FlatSessions /\ ds[p].disabled = req[p].disabled
    /\ InStep(IF at[p] = "commit" THEN req[p].disabled ELSE disabled)

DTyped ==
    /\ disabled \in BOOLEAN /\ asked = disabled
    /\ session \in FlatSessions \cup {NoSession}
    /\ lastKey \in Nat
    /\ at \in [Procs -> Labels]
    /\ req = [p \in Procs |-> req[p]]
    /\ row \in [Procs -> BOOLEAN]
    /\ ds = [p \in Procs |-> ds[p]]
    /\ air # None => air.t = "join"
    /\ lock \in Procs \cup {None}

DHandlers ==
    \A p \in Procs : IF lock = p THEN InsideJoin(p) \/ InsideUpdate(p) ELSE Waiting(p)

DInv == DTyped /\ DHandlers /\ (lock = None => InStep(disabled))

\* Initially there is no session and nobody is at work.
LEMMA InitDInv == Init => DInv
<1> SUFFICES ASSUME Init PROVE DInv
  OBVIOUS
<1>1. at \in [Procs -> Labels] /\ (\A p \in Procs : at[p] = "idle") /\ lock = None
  BY DEF Init, Labels
<1>2. row \in [Procs -> BOOLEAN] /\ disabled \in BOOLEAN /\ asked = disabled
  BY Zenon DEF Init
<1>3. DTyped
  BY <1>1, <1>2 DEF Init, DTyped
<1>4. DHandlers
  BY <1>1, ConstantsOK DEF DHandlers, Waiting
<1> QED BY <1>3, <1>4 DEF Init, DInv, InStep

\* A step of one handler leaves the handlers without the lock where they are.
LEMMA OthersWait ==
    ASSUME DInv, NEW p \in Procs, lock \in {p, None}, lock' \in {p, None},
           \A q \in Procs : q # p => at'[q] = at[q] /\ req'[q] = req[q],
           IF lock' = p THEN (InsideJoin(p) \/ InsideUpdate(p))' ELSE Waiting(p)'
    PROVE  DHandlers'
<1>1. \A q \in Procs : q # p => Waiting(q)
  BY ConstantsOK DEF DInv, DHandlers
<1>2. \A q \in Procs : q # p => Waiting(q)'
  BY <1>1 DEF Waiting
<1> QED BY <1>2, ConstantsOK DEF DHandlers

\* A handler that waits goes on waiting, or starts or stops to; nothing else
\* changes.
LEMMA StillWaiting ==
    ASSUME DInv, NEW p \in Procs, lock # p, UNCHANGED <<lock, disabled, session>>,
           \A q \in Procs : q # p => at'[q] = at[q] /\ req'[q] = req[q],
           \A q \in Procs : q # p => row'[q] = row[q] /\ ds'[q] = ds[q],
           Waiting(p)'
    PROVE  DHandlers'
<1> SUFFICES ASSUME NEW q \in Procs
             PROVE  (IF lock = q THEN InsideJoin(q) \/ InsideUpdate(q) ELSE Waiting(q))'
  BY DEF DHandlers
<1>1. IF lock = q THEN InsideJoin(q) \/ InsideUpdate(q) ELSE Waiting(q)
  BY DEF DInv, DHandlers
<1> QED BY <1>1 DEF InsideJoin, InsideUpdate, Waiting, InStep

\* A join that passes on what it has: it takes the lock of a device that is not
\* disabled, and gives it back with the row as it was.
LEMMA JoinDInv ==
    ASSUME DInv, NEW p \in Procs,
           JoinGetDevice(p) \/ ValidateDevNonce(p) \/ JoinServerAnswers(p) \/ JoinCommits(p)
    PROVE  DInv'
<1> USE ConstantsOK
<1>0. DTyped /\ DHandlers /\ (lock = None => InStep(disabled))
  BY DEF DInv
<1>1. CASE JoinGetDevice(p) /\ disabled
  <2>1. /\ Finish(p) /\ lock = None
        /\ UNCHANGED <<disabled, session, lastKey, air, asked>>
    BY <1>1 DEF JoinGetDevice, Return, outside
  <2>2. lock' = None
    BY <2>1 DEF Finish, Unlock
  <2>3. DTyped'
    BY <1>0, <2>1, <2>2 DEF DTyped, Finish, Goto, Labels
  <2>4. at'[p] = "idle" /\ \A q \in Procs : q # p => at'[q] = at[q] /\ req'[q] = req[q]
    BY <1>0, <2>1 DEF DTyped, Finish, Goto
  <2>5. DHandlers'
    BY <2>1, <2>2, <2>4, OthersWait DEF Waiting
  <2> QED BY <1>0, <2>1, <2>3, <2>5 DEF DInv, InStep
<1>2. CASE JoinGetDevice(p) /\ ~ disabled
  <2>1. /\ lock = None /\ lock' = p /\ at' = [at EXCEPT ![p] = "validateNonce"]
        /\ row' = [row EXCEPT ![p] = disabled] /\ req[p].t = "join"
        /\ UNCHANGED <<disabled, session, req, ds, lastKey, air, asked>>
    BY <1>2 DEF JoinGetDevice, Goto, outside
  <2>2. disabled = FALSE
    BY <1>0, <1>2, Zenon DEF DTyped
  <2>3. DTyped'
    BY <1>0, <2>1 DEF DTyped, Labels
  <2>4. at'[p] = "validateNonce" /\ \A q \in Procs : q # p => at'[q] = at[q] /\ req'[q] = req[q]
    BY <1>0, <2>1 DEF DTyped
  <2>5. InsideJoin(p)'
    BY <1>0, <2>1, <2>2, <2>4 DEF InsideJoin, DTyped
  <2>6. DHandlers'
    BY <2>1, <2>4, <2>5, OthersWait
  <2> QED BY <2>1, <2>3, <2>6 DEF DInv
<1>3. CASE ValidateDevNonce(p) \/ JoinServerAnswers(p)
  <2>1. at[p] \in {"validateNonce", "joinServer"}
    BY <1>3 DEF ValidateDevNonce, JoinServerAnswers
  <2>2. lock = p /\ InsideJoin(p)
    BY <1>0, <2>1 DEF DHandlers, Waiting, InsideUpdate
  <2>3. CASE Return(p)
    <3>1. /\ Finish(p) /\ UNCHANGED <<disabled, session, lastKey, air, asked>>
      BY <2>3 DEF Return, outside
    <3>2. lock' = None
      BY <2>2, <3>1 DEF Finish, Unlock
    <3>3. DTyped'
      BY <1>0, <3>1, <3>2 DEF DTyped, Finish, Goto, Labels
    <3>4. at'[p] = "idle" /\ \A q \in Procs : q # p => at'[q] = at[q] /\ req'[q] = req[q]
      BY <1>0, <3>1 DEF DTyped, Finish, Goto
    <3>5. DHandlers'
      BY <2>2, <3>2, <3>4, OthersWait DEF Waiting
    <3> QED BY <2>2, <3>1, <3>3, <3>5 DEF DInv, InStep, InsideJoin
  <2>4. CASE ValidateDevNonce(p) /\ ~ Return(p)
    <3>1. at' = [at EXCEPT ![p] = "joinServer"]
          /\ UNCHANGED <<disabled, session, req, row, ds, lastKey, air, asked, lock>>
      BY <2>4 DEF ValidateDevNonce, Goto, outside, stores
    <3>2. DTyped'
      BY <1>0, <3>1 DEF DTyped, Labels
    <3>3. at'[p] = "joinServer" /\ \A q \in Procs : q # p => at'[q] = at[q] /\ req'[q] = req[q]
      BY <1>0, <3>1 DEF DTyped
    <3>4. InsideJoin(p)'
      BY <2>2, <3>1, <3>3 DEF InsideJoin
    <3>5. DHandlers'
      BY <2>2, <3>1, <3>3, <3>4, OthersWait
    <3> QED BY <2>2, <3>1, <3>2, <3>5 DEF DInv
  <2>5. CASE JoinServerAnswers(p)
    <3>1. PICK a \in Addrs :
             /\ at' = [at EXCEPT ![p] = "sadd"] /\ lastKey' = lastKey + 1
             /\ ds' = [ds EXCEPT ![p] = NewSession(a, lastKey', FALSE)]
             /\ UNCHANGED <<disabled, session, req, row, air, asked, lock>>
      BY <2>5 DEF JoinServerAnswers, Goto, outside, stores
    <3>2. DTyped'
      <4>1. lastKey' \in Nat /\ at' \in [Procs -> Labels]
        BY <1>0, <3>1 DEF DTyped, Labels
      <4>2. ds' = [q \in Procs |-> ds'[q]]
        BY <1>0, <3>1 DEF DTyped
      <4> QED BY <1>0, <3>1, <4>1, <4>2 DEF DTyped
    <3>3. at'[p] = "sadd" /\ \A q \in Procs : q # p => at'[q] = at[q] /\ req'[q] = req[q]
      BY <1>0, <3>1 DEF DTyped
    <3>4. ds'[p] \in FlatSessions
      BY <1>0, <3>1 DEF DTyped, FlatSessions, NewSession
    <3>5. InsideJoin(p)'
      BY <2>2, <3>1, <3>3, <3>4 DEF InsideJoin
    <3>6. DHandlers'
      BY <2>2, <3>1, <3>3, <3>5, OthersWait
    <3> QED BY <2>2, <3>1, <3>2, <3>6 DEF DInv
  <2> QED BY <1>3, <2>3, <2>4, <2>5
<1>4. CASE JoinCommits(p)
  <2>1. /\ at[p] = "commit" /\ req[p].t = "join" /\ disabled' = row[p] /\ Finish(p)
        /\ UNCHANGED <<session, lastKey, air, asked>>
    BY <1>4 DEF JoinCommits, outside
  <2>2. lock = p /\ InsideJoin(p)
    BY <1>0, <2>1 DEF DHandlers, Waiting, InsideUpdate
  <2>3. lock' = None /\ disabled' = disabled
    BY <2>1, <2>2 DEF Finish, Unlock, InsideJoin
  <2>4. DTyped'
    BY <1>0, <2>1, <2>3 DEF DTyped, Finish, Goto, Labels
  <2>5. at'[p] = "idle" /\ \A q \in Procs : q # p => at'[q] = at[q] /\ req'[q] = req[q]
    BY <1>0, <2>1 DEF DTyped, Finish, Goto
  <2>6. DHandlers'
    BY <2>2, <2>3, <2>5, OthersWait DEF Waiting
  <2> QED BY <2>2, <2>3, <2>4, <2>6 DEF DInv, InStep, InsideJoin
<1> QED BY <1>1, <1>2, <1>3, <1>4

\* An update of the device: from its statement to its commit it has the lock.
LEMMA UpdateDInv ==
    ASSUME DInv, NEW p \in Procs, UpdateDevice(p) \/ UpdateGetSession(p) \/ UpdateCommits(p)
    PROVE  DInv'
<1> USE ConstantsOK
<1>0. DTyped /\ DHandlers /\ (lock = None => InStep(disabled))
  BY DEF DInv
<1>1. CASE UpdateDevice(p)
  <2>1. /\ lock = None /\ lock' = p /\ at' = [at EXCEPT ![p] = "getSession"]
        /\ row' = [row EXCEPT ![p] = req[p].disabled]
        /\ at[p] = "updateDevice" /\ req[p].t = "update"
        /\ UNCHANGED <<disabled, session, req, ds, lastKey, air, asked>>
    BY <1>1 DEF UpdateDevice, Goto, outside
  <2>2. req[p].disabled \in BOOLEAN
    BY <1>0, <2>1 DEF DHandlers, Waiting
  <2>3. DTyped'
    BY <1>0, <2>1, <2>2 DEF DTyped, Labels
  <2>4. /\ at'[p] = "getSession" /\ row'[p] = req[p].disabled
        /\ \A q \in Procs : q # p => at'[q] = at[q] /\ req'[q] = req[q]
    BY <1>0, <2>1 DEF DTyped
  <2>5. InsideUpdate(p)'
    BY <1>0, <2>1, <2>2, <2>4 DEF InsideUpdate, InStep
  <2>6. DHandlers'
    BY <2>1, <2>4, <2>5, OthersWait
  <2> QED BY <2>1, <2>3, <2>6 DEF DInv
<1>2. CASE UpdateGetSession(p)
  <2>1. at[p] = "getSession" /\ UNCHANGED <<disabled, session, req, row, lastKey, air, asked, lock>>
    BY <1>2 DEF UpdateGetSession, outside, stores
  <2>2. lock = p /\ InsideUpdate(p)
    BY <1>0, <2>1 DEF DHandlers, Waiting, InsideJoin
  <2>3. CASE session = NoSession
    <3>1. at' = [at EXCEPT ![p] = "commit"] /\ ds' = ds
      BY <1>2, <2>3 DEF UpdateGetSession, Goto
    <3>2. DTyped'
      BY <1>0, <2>1, <3>1 DEF DTyped, Labels
    <3>3. at'[p] = "commit" /\ \A q \in Procs : q # p => at'[q] = at[q] /\ req'[q] = req[q]
      BY <1>0, <2>1, <3>1 DEF DTyped
    <3>4. InsideUpdate(p)'
      BY <2>1, <2>2, <2>3, <3>3 DEF InsideUpdate, InStep
    <3>5. DHandlers'
      BY <2>1, <2>2, <3>3, <3>4, OthersWait
    <3> QED BY <2>1, <2>2, <3>2, <3>5 DEF DInv
  <2>4. CASE session # NoSession
    <3>1. /\ at' = [at EXCEPT ![p] = "sadd"]
          /\ ds' = [ds EXCEPT ![p] = [session EXCEPT !.disabled = req[p].disabled]]
      BY <1>2, <2>4 DEF UpdateGetSession, Goto
    <3>2. session \in FlatSessions /\ req[p].disabled \in BOOLEAN
      BY <1>0, <2>2, <2>4 DEF DTyped, InsideUpdate
    <3>3. DTyped'
      <4>1. ds' = [q \in Procs |-> ds'[q]]
        BY <1>0, <3>1, <3>2 DEF DTyped, FlatSessions
      <4>2. at' \in [Procs -> Labels]
        BY <1>0, <3>1 DEF DTyped, Labels
      <4> QED BY <1>0, <2>1, <4>1, <4>2 DEF DTyped
    <3>4. at'[p] = "sadd" /\ \A q \in Procs : q # p => at'[q] = at[q] /\ req'[q] = req[q]
      BY <1>0, <2>1, <3>1 DEF DTyped
    <3>5. ds'[p] = [session EXCEPT !.disabled = req[p].disabled]
      BY <1>0, <3>1 DEF DTyped
    <3>6. ds'[p] \in FlatSessions /\ ds'[p].disabled = req[p].disabled
      BY <3>2, <3>5 DEF FlatSessions
    <3>7. InsideUpdate(p)'
      BY <2>1, <2>2, <3>4, <3>6 DEF InsideUpdate, InStep
    <3>8. DHandlers'
      BY <2>1, <2>2, <3>4, <3>7, OthersWait
    <3> QED BY <2>1, <2>2, <3>3, <3>8 DEF DInv
  <2> QED BY <2>3, <2>4
<1>3. CASE UpdateCommits(p)
  <2>1. /\ at[p] = "commit" /\ req[p].t = "update"
        /\ disabled' = row[p] /\ asked' = row[p] /\ Finish(p)
        /\ UNCHANGED <<session, lastKey, air>>
    BY <1>3 DEF UpdateCommits
  <2>2. lock = p /\ InsideUpdate(p)
    BY <1>0, <2>1 DEF DHandlers, Waiting, InsideJoin
  <2>3. /\ lock' = None /\ disabled' = req[p].disabled /\ asked' = disabled'
        /\ disabled' \in BOOLEAN
    BY <2>1, <2>2 DEF Finish, Unlock, InsideUpdate
  <2>4. DTyped'
    BY <1>0, <2>1, <2>3 DEF DTyped, Finish, Goto, Labels
  <2>5. at'[p] = "idle" /\ \A q \in Procs : q # p => at'[q] = at[q] /\ req'[q] = req[q]
    BY <1>0, <2>1 DEF DTyped, Finish, Goto
  <2>6. DHandlers'
    BY <2>2, <2>3, <2>5, OthersWait DEF Waiting
  <2>7. InStep(disabled)'
    BY <2>1, <2>2, <2>3 DEF InsideUpdate, InStep
  <2> QED BY <2>4, <2>6, <2>7 DEF DInv
<1> QED BY <1>1, <1>2, <1>3

\* SaveDeviceSession and the join-accept, of the handler with the lock.
LEMMA SaveDInv ==
    ASSUME DInv, NEW p \in Procs, SAdd(p) \/ Set(p) \/ SendJoinAccept(p)
    PROVE  DInv'
<1> USE ConstantsOK
<1>0. DTyped /\ DHandlers /\ (lock = None => InStep(disabled))
  BY DEF DInv
<1>1. lock = p /\ (InsideJoin(p) \/ InsideUpdate(p))
  BY <1>0 DEF SAdd, Set, SendJoinAccept, DHandlers, Waiting
<1>2. CASE SAdd(p)
  <2>1. at[p] = "sadd" /\ ds[p].pending = NoSession
    BY <1>1, <1>2 DEF SAdd, InsideJoin, InsideUpdate, FlatSessions
  <2>2. /\ at' = [at EXCEPT ![p] = "set"]
        /\ UNCHANGED <<disabled, session, req, row, ds, lastKey, air, asked, lock>>
    BY <1>2, <2>1 DEF SAdd, Goto, outside
  <2>3. DTyped'
    BY <1>0, <2>2 DEF DTyped, Labels
  <2>4. at'[p] = "set" /\ \A q \in Procs : q # p => at'[q] = at[q] /\ req'[q] = req[q]
    BY <1>0, <2>2 DEF DTyped
  <2>5. (InsideJoin(p) \/ InsideUpdate(p))'
    BY <1>1, <2>1, <2>2, <2>4 DEF InsideJoin, InsideUpdate, InStep
  <2>6. DHandlers'
    BY <1>1, <2>2, <2>4, <2>5, OthersWait
  <2> QED BY <1>1, <2>2, <2>3, <2>6 DEF DInv
<1>3. CASE Set(p)
  <2>1. /\ at[p] = "set" /\ session' = ds[p]
        /\ at' = [at EXCEPT ![p] = IF req[p].t = "update" THEN "commit" ELSE "send"]
        /\ UNCHANGED <<disabled, req, row, ds, lastKey, air, asked, lock>>
    BY <1>1, <1>3 DEF Set, SaveDone, Goto, InsideJoin, InsideUpdate
  <2>2. ds[p] \in FlatSessions
    BY <1>1, <2>1 DEF InsideJoin, InsideUpdate
  <2>3. DTyped'
    BY <1>0, <2>1, <2>2 DEF DTyped, Labels
  <2>4. /\ at'[p] = IF req[p].t = "update" THEN "commit" ELSE "send"
        /\ \A q \in Procs : q # p => at'[q] = at[q] /\ req'[q] = req[q]
    BY <1>0, <2>1 DEF DTyped
  <2>5. CASE InsideJoin(p)
    <3>1. InsideJoin(p)'
      BY <2>1, <2>4, <2>5 DEF InsideJoin
    <3>2. DHandlers'
      BY <1>1, <2>1, <2>4, <3>1, OthersWait
    <3> QED BY <1>1, <2>1, <2>3, <3>2 DEF DInv
  <2>6. CASE InsideUpdate(p)
    <3>1. InStep(req[p].disabled)'
      BY <2>1, <2>6 DEF InStep, InsideUpdate
    <3>2. InsideUpdate(p)'
      BY <2>1, <2>4, <2>6, <3>1 DEF InsideUpdate
    <3>3. DHandlers'
      BY <1>1, <2>1, <2>4, <3>2, OthersWait
    <3> QED BY <1>1, <2>1, <2>3, <3>3 DEF DInv
  <2> QED BY <1>1, <2>5, <2>6
<1>4. CASE SendJoinAccept(p)
  <2>1. at[p] = "send" /\ req[p].t = "join" /\ InsideJoin(p)
    BY <1>1, <1>4 DEF SendJoinAccept, InsideJoin, InsideUpdate
  <2>2. /\ at' = [at EXCEPT ![p] = "commit"]
        /\ UNCHANGED <<disabled, session, req, row, ds, lastKey, air, asked, lock>>
    BY <1>4, <2>1 DEF SendJoinAccept, Goto
  <2>3. DTyped'
    BY <1>0, <2>2 DEF DTyped, Labels
  <2>4. at'[p] = "commit" /\ \A q \in Procs : q # p => at'[q] = at[q] /\ req'[q] = req[q]
    BY <1>0, <2>2 DEF DTyped
  <2>5. InsideJoin(p)'
    BY <2>1, <2>2, <2>4 DEF InsideJoin
  <2>6. DHandlers'
    BY <1>1, <2>2, <2>4, <2>5, OthersWait
  <2> QED BY <1>1, <2>2, <2>3, <2>6 DEF DInv
<1> QED BY <1>2, <1>3, <1>4

\* With joins and updates alone, the invariant is inductive: the steps of the
\* other handlers cannot happen.
LEMMA NextDInv == JoinsAndUpdates => (DInv /\ [Next]_vars => DInv')
<1> SUFFICES ASSUME JoinsAndUpdates, DInv, [Next]_vars PROVE DInv'
  OBVIOUS
<1> USE ConstantsOK
<1>0. DTyped /\ DHandlers /\ (lock = None => InStep(disabled))
  BY DEF DInv
<1>a. ASSUME UNCHANGED <<stores, handlers, lastKey, asked>>, air' # None => air'.t = "join"
      PROVE  DInv'
  <2>1. DTyped'
    BY <1>0, <1>a DEF DTyped, stores, handlers
  <2>2. DHandlers'
    BY <1>0, <1>a DEF DHandlers, InsideJoin, InsideUpdate, Waiting, InStep, stores, handlers
  <2> QED BY <1>0, <1>a, <2>1, <2>2 DEF DInv, InStep, stores
<1>1. CASE DeviceStep
  <2>1. UNCHANGED <<stores, handlers, lastKey, asked>>
    BY <1>1 DEF DeviceStep, DeviceJoins, DeviceRejoins, DeviceSendsData, DeviceAccepted
  <2>2. air' # None => air'.t = "join"
    BY <1>0, <1>1 DEF DeviceStep, DeviceJoins, DeviceRejoins, DeviceSendsData, DeviceAccepted,
                      JoinsAndUpdates, DTyped
  <2> QED BY <1>a, <2>1, <2>2
<1>2. CASE DeactivateDevice
  BY <1>2 DEF DeactivateDevice, JoinsAndUpdates
<1>3. CASE UNCHANGED vars
  BY <1>0, <1>3, <1>a DEF vars, outside, DTyped
<1>4. ASSUME NEW p \in Procs, Step(p) PROVE DInv'
  <2>0. IF lock = p THEN InsideJoin(p) \/ InsideUpdate(p) ELSE Waiting(p)
    BY <1>0 DEF DHandlers
  <2>1. CASE HandleFrame(p) \/ HandleAPI(p)
    <3>1. /\ at[p] = "idle" /\ UNCHANGED <<stores, row, ds, lastKey, air, asked>>
          /\ at' \in [Procs -> Labels] /\ req' = [q \in Procs |-> req'[q]]
          /\ \A q \in Procs : q # p => at'[q] = at[q] /\ req'[q] = req[q]
          /\ Waiting(p)'
      <4>1. CASE HandleFrame(p)
        <5>1. air.t = "join"
          BY <1>0, <4>1 DEF HandleFrame, DTyped
        <5>2. /\ at' = [at EXCEPT ![p] = "getDevice"] /\ req' = [req EXCEPT ![p] = air]
              /\ at[p] = "idle" /\ UNCHANGED <<stores, row, ds, lastKey, air, asked>>
          BY <4>1, <5>1 DEF HandleFrame, MayStart, Goto, outside
        <5>3. at'[p] = "getDevice" /\ req'[p] = air
          BY <1>0, <5>2 DEF DTyped
        <5>4. /\ at' \in [Procs -> Labels] /\ req' = [q \in Procs |-> req'[q]]
              /\ \A q \in Procs : q # p => at'[q] = at[q] /\ req'[q] = req[q]
          BY <1>0, <5>2 DEF DTyped, Labels
        <5>5. Waiting(p)'
          BY <5>1, <5>3 DEF Waiting
        <5> QED BY <5>2, <5>4, <5>5
      <4>2. CASE HandleAPI(p)
        <5>1. PICK d \in BOOLEAN :
                 /\ req' = [req EXCEPT ![p] = [t |-> "update", disabled |-> d]]
                 /\ at' = [at EXCEPT ![p] = "updateDevice"]
                 /\ at[p] = "idle" /\ UNCHANGED <<stores, row, ds, lastKey, air, asked>>
          BY <4>2 DEF HandleAPI, MayStart, Goto, outside, JoinsAndUpdates
        <5>2. at'[p] = "updateDevice" /\ req'[p] = [t |-> "update", disabled |-> d]
          BY <1>0, <5>1 DEF DTyped
        <5>3. /\ at' \in [Procs -> Labels] /\ req' = [q \in Procs |-> req'[q]]
              /\ \A q \in Procs : q # p => at'[q] = at[q] /\ req'[q] = req[q]
          BY <1>0, <5>1 DEF DTyped, Labels
        <5>4. Waiting(p)'
          BY <5>2 DEF Waiting
        <5> QED BY <5>1, <5>3, <5>4
      <4> QED BY <2>1, <4>1, <4>2
    <3>2. lock # p
      BY <2>0, <3>1 DEF InsideJoin, InsideUpdate
    <3>3. DTyped'
      BY <1>0, <3>1 DEF DTyped, stores
    <3>4. DHandlers'
      BY <3>1, <3>2, StillWaiting DEF stores
    <3> QED BY <1>0, <3>1, <3>3, <3>4 DEF DInv, InStep, stores
  <2>2. CASE Fail(p)
    <3>1. /\ at[p] # "commit" /\ Finish(p)
          /\ UNCHANGED <<disabled, session, lastKey, air, asked>>
      BY <2>2 DEF Fail, Return, JoinsAndUpdates, outside
    <3>2. lock' \in Procs \cup {None} /\ (lock # p => lock' = lock) /\ (lock = p => lock' = None)
      BY <1>0, <3>1 DEF Finish, Unlock, DTyped
    <3>3. DTyped'
      BY <1>0, <3>1, <3>2 DEF DTyped, Finish, Goto, Labels
    <3>4. /\ at'[p] = "idle"
          /\ \A q \in Procs : q # p => at'[q] = at[q] /\ req'[q] = req[q]
          /\ \A q \in Procs : q # p => row'[q] = row[q] /\ ds'[q] = ds[q]
      BY <1>0, <3>1 DEF DTyped, Finish, Goto
    <3>5. CASE lock # p
      <4>1. DHandlers'
        BY <3>1, <3>2, <3>4, <3>5, StillWaiting DEF Waiting
      <4> QED BY <1>0, <3>1, <3>2, <3>3, <3>5, <4>1 DEF DInv, InStep
    <3>6. CASE lock = p
      <4>1. DHandlers'
        BY <3>2, <3>4, <3>6, OthersWait DEF Waiting
      <4>2. InStep(disabled)
        BY <2>0, <3>1, <3>6 DEF InsideJoin, InsideUpdate, InStep
      <4> QED BY <3>1, <3>3, <4>1, <4>2 DEF DInv, InStep
    <3> QED BY <3>5, <3>6
  <2>3. ~ (\/ RejoinGetDevice(p) \/ RejoinGetSession(p) \/ RejoinServerAnswers(p)
           \/ ActivateGetDevice(p) \/ ActivateUpdateDevice(p))
    BY <2>0 DEF RejoinGetDevice, RejoinGetSession, RejoinServerAnswers, ActivateGetDevice,
                ActivateUpdateDevice, Waiting, InsideJoin, InsideUpdate
  <2>4. ~ (SMembers(p) \/ UplinkGet(p) \/ SRem(p) \/ SAddPending(p))
    BY <2>0 DEF SMembers, UplinkGet, SRem, SAddPending, Waiting, InsideJoin, InsideUpdate
  <2> QED BY <1>4, <2>1, <2>2, <2>3, <2>4, JoinDInv, UpdateDInv, SaveDInv DEF Step
<1> QED BY <1>1, <1>2, <1>3, <1>4 DEF Next

\* When joins and UpdateDevice calls run concurrently and fail anywhere but at
\* the commit, no frame of a device is accepted after an UpdateDevice that
\* disables it, however many of them there are: the lock of the device row also orders their writes to Redis
\* (network_server.go UpdateDevice, join.go Handle).
THEOREM DisableLasts == JoinsAndUpdates => (Spec => []DisabledIgnored)
<1> SUFFICES ASSUME JoinsAndUpdates PROVE Spec => []DisabledIgnored
  OBVIOUS
<1>1. DInv => DisabledIgnored
  <2> SUFFICES ASSUME DInv, Quiet, asked, NEW s \in Found PROVE s.disabled
    BY DEF DisabledIgnored
  <2>1. \A p \in Procs : at[p] = "idle"
    BY DEF Quiet, Busy
  <2>2. lock = None
    BY <2>1 DEF DInv, DTyped, DHandlers, InsideJoin, InsideUpdate
  <2>3. s # NoSession /\ (s = session \/ (session # NoSession /\ s = session.pending))
    BY DEF Found, Matching
  <2>4. session # NoSession => session.pending = NoSession
    BY DEF DInv, DTyped, FlatSessions
  <2>5. s = session /\ session # NoSession
    BY <2>3, <2>4
  <2>6. disabled = TRUE
    BY Zenon DEF DInv, DTyped
  <2>7. session.disabled = TRUE
    BY <2>2, <2>5, <2>6 DEF DInv, InStep
  <2> QED BY <2>5, <2>7
<1>2. Init => DInv
  BY InitDInv
<1>3. DInv /\ [Next]_vars => DInv'
  BY NextDInv
<1> QED BY <1>1, <1>2, <1>3, PTL DEF Spec
=============================================================================
