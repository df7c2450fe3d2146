--------------------------- MODULE MCDeduplication ---------------------------
(* Three receptions through two gateways: r1 and r3 are the same copy,     *)
(* delivered twice by the broker.                                          *)
EXTENDS Deduplication, TLC

CONSTANTS r1, r2, r3, f1, f2

MCRx == {r1, r2, r3}
MCFrames == {f1, f2}
MCFrameOf == (r1 :> f1) @@ (r2 :> f2) @@ (r3 :> f1)
=============================================================================
