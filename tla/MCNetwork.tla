------------------------------ MODULE MCNetwork ------------------------------
(* Small networks for TLC: two servers, a line of three, a ring of three. *)
EXTENDS Network, TLC

CONSTANTS a, b, c, a1, a2, b1, c1, n1, n2

TwoNicks == {n1, n2}
TwoTimes == 1..2
NickSymmetry == Permutations(Nick)

PairServers == {a, b}
PairLink == {{a, b}}
PairUID == {a1, a2, b1}
PairHome == a1 :> a @@ a2 :> a @@ b1 :> b
PairMask == a1 :> 1 @@ a2 :> 2 @@ b1 :> 1

LineServers == {a, b, c}
LineLink == {{a, b}, {b, c}}
LineUID == {a1, c1}
LineHome == a1 :> a @@ c1 :> c
LineMask == a1 :> 1 @@ c1 :> 2

RingLink == {{a, b}, {b, c}, {a, c}}

NoUID == {}
NoHome == <<>>
NoMask == <<>>
=============================================================================
