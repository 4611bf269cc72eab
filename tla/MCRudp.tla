------------------------------- MODULE MCRudp -------------------------------
(***************************************************************************)
(* Small clusters over rdp_ln for TLC.                                     *)
(***************************************************************************)
EXTENDS Q2pcRudp, TLC

\* The datagram ports force the order of the ids.
IdsInOrder == 0 :> 1 @@ 1 :> 2
=============================================================================
