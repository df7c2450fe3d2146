---------------------------- MODULE MCMulticast -----------------------------
(* Small instances of Multicast. *)
EXTENDS Multicast, TLC

CONSTANTS g1, d1, d2, w1, w2, p1, p2, c1, c2, s1, s2

Setting(type, dr, f) ==
    [fCnt |-> f, groupType |-> type, dr |-> dr, key |-> 0,
     pingSlotPeriod |-> 2]

\* A Class-B and a Class-C group, a data-rate that is too low for large payloads,
\* and a counter that an update sets back
MCSettings == {Setting("C", "high", 0), Setting("B", "low", 1)}

\* A device heard by one gateway badly, and by both but well by one only
MCReceptions == {w1 :> "low", w1 :> "low" @@ w2 :> "ok"}

MCPingRand == <<1, 0>>

ClientSymmetry == Permutations(Clients)
=============================================================================
