---------------------------- MODULE MCUdpClient ----------------------------
(***************************************************************************)
(* Three calls on one client: a SendWithAck without a limit, as the        *)
(* program makes them, one limited to two attempts, and a Send.            *)
(***************************************************************************)
EXTENDS UdpClient, TLC

CONSTANTS unlimited, limited, plain

MCAttempts == unlimited :> 0 @@ limited :> 2 @@ plain :> 0
=============================================================================
