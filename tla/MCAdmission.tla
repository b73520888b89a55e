----------------------------- MODULE MCAdmission -----------------------------
(* Four connections and a remote user: two and the remote one share an IPv6  *)
(* /64, a third (with an exemption) is in the same wider range, the fourth   *)
(* uses IPv4.                                                                *)
EXTENDS Admission, TLC

CONSTANTS l1, l2, l3, l4, r1, i1, i2, i4, net, users, opers

MCLocal == {l1, l2, l3, l4}
MCRemote == {r1}
MCIp == {i1, i2, i4}
MCIpOf == l1 :> i1 @@ l2 :> i1 @@ l3 :> i2 @@ l4 :> i4 @@ r1 :> i1
MCPrefixOf == i1 :> net @@ i2 :> net @@ i4 :> None
MCMaxClients == users :> 2 @@ opers :> 1
=============================================================================
