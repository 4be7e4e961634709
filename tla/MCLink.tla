-------------------------------- MODULE MCLink -------------------------------
(* Values for checking Link.  A fast link is probed every 5 s and has a     *)
(* keepalive of 5 to 298 s; a slow one every 300 s, with 298 to 360 s.  An  *)
(* RTT of 0, as a clock of whole seconds measures it, goes with 5 and 360.  *)
EXTENDS Link

MCRegimes == [every : {1}, keep : 1..2] \cup [every : {2}, keep : {2}]
=============================================================================
