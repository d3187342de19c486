--------------------------- MODULE MCSessionGuard --------------------------
(* Instances of SessionGuard for TLC.                                      *)
EXTENDS SessionGuard

(* Counters up to more than twice the window, the handshake's 0 included.  *)
MCCounters == 0 .. 9
=============================================================================
