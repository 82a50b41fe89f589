---------------------------- MODULE MCWarmStandby ----------------------------
(* Instances of WarmStandby for TLC.                                       *)
EXTENDS WarmStandby

CONSTANTS u1, u2

MCPool   == <<u1, u2>>
TCPOnly  == <<"tcp">>
=============================================================================
