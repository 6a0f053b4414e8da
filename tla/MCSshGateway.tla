----------------------------- MODULE MCSshGateway -----------------------------
(* The connections of SshGateway's instances. *)
EXTENDS SshGateway, TLC

CONSTANTS a1, a2, target, jump1, jump2

Direct == [kind |-> "ssh", target |-> target, route |-> <<>>]
OneJump == [kind |-> "ssh", target |-> target, route |-> <<jump1>>]
TwoJumps == [kind |-> "ssh", target |-> target, route |-> <<jump1, jump2>>]
Sftp == [kind |-> "sftp", target |-> target, route |-> <<>>]

Mixed == a1 :> {Direct, OneJump} @@ a2 :> {Direct, Sftp}
BothDirect == a1 :> {Direct} @@ a2 :> {Direct}
Chained == a1 :> {TwoJumps}
=============================================================================
