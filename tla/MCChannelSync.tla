---------------------------- MODULE MCChannelSync ----------------------------
(* Small networks for TLC: a line of three servers with users at its ends. *)
EXTENDS ChannelSync, TLC

CONSTANTS sa, sb, sc, a1, c1

LineServers == {sa, sb, sc}
LineEdge == {{sa, sb}, {sb, sc}}
LineHop == sa :> (sa :> sa @@ sb :> sb @@ sc :> sb)
        @@ sb :> (sa :> sa @@ sb :> sb @@ sc :> sc)
        @@ sc :> (sa :> sb @@ sb :> sb @@ sc :> sc)
EndUser == {a1, c1}
EndHome == a1 :> sa @@ c1 :> sc
=============================================================================
