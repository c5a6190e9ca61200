-------------------------------- MODULE MCProxy --------------------------------
(***************************************************************************)
(* Small instances of ProxyRequest for TLC: slots of one instant, backend  *)
(* calls of half and of one and a half times the latency that is           *)
(* tolerated.                                                              *)
(***************************************************************************)
EXTENDS ProxyRequest, TLC

MCDurations == {1, 3}

===============================================================================
