----------------------------- MODULE MCUdpLink -----------------------------
(* Small instances of UdpLink: packet 3 is too long for the server to receive. *)
EXTENDS UdpLink

CONSTANT a

Sizes(n) == IF n = 3 THEN 2 ELSE 1
Limits(e) == IF e = Server THEN 1 ELSE 2
AtMost(e) == IF e = a THEN 5 ELSE 1
=============================================================================
