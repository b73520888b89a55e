------------------------------- MODULE MCBans -------------------------------
(* Small networks for TLC: two servers, where cidr is a shun that match_user *)
(* matches and match_simple does not, and a line of three.                   *)
EXTENDS Bans, TLC

CONSTANTS sa, sb, sc, gline, shun, shun2, cidr, eline

PairServer == {sa, sb}
PairEdge == {{sa, sb}}
PairSkew == sa :> 0 @@ sb :> 0
PairMark == sa :> <<1, 2>> @@ sb :> <<2, 1>>
PairOper == sa :> {gline, eline, shun, shun2, cidr} @@ sb :> {gline, eline}
PairOrder == <<eline, gline, shun, shun2, cidr>>

LineServer == {sa, sb, sc}
LineEdge == {{sa, sb}, {sb, sc}}
LineSkew == sa :> 0 @@ sb :> 1 @@ sc :> 0
LineMark == sa :> <<1, 2>> @@ sb :> <<1, 1>> @@ sc :> <<2, 1>>
LineOrder == <<gline>>
LineOper == sa :> {gline} @@ sb :> {} @@ sc :> {gline}
=============================================================================
